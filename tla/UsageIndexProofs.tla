-------------------------- MODULE UsageIndexProofs --------------------------
(***************************************************************************)
(* Proofs that the usage index never counts a hit twice, loses none but    *)
(* those that are meant to go, and implements HitLedger, for every set of  *)
(* keys, sizes and workers, every mixture of jobs and operations, and      *)
(* every contents of directory and database at the start; that a reindex   *)
(* makes it exact, and that an eviction takes what it should.              *)
(*                                                                         *)
(* What a step does to rows, buffer and batches is one of a few effects    *)
(* (Effect), whichever goroutine takes it.  StepHasEffect sorts the        *)
(* actions; everything about hits is then proved once for each effect.     *)
(***************************************************************************)
EXTENDS UsageIndex, FiniteSetTheorems, WellFoundedInduction, TLAPS

JobStates ==
    {Idle}
    \cup [at : {"insert"}, key : Keys, row : [size : Nat, last : Nat, hits : {0}]]
    \cup [at : {"recordHit"}, key : Keys, size : Nat, now : Nat]
    \cup [at : {"deleteRow", "dropHits"}, key : Keys]

ReindexStates ==
    {Idle}
    \cup [at : {"done"}, ok : BOOLEAN]
    \cup [at : {"flush", "list"}]
    \cup [at : {"walk"}, listed : SUBSET Keys, seen : SUBSET Keys]
    \cup [at : {"size"}, listed : SUBSET Keys, seen : SUBSET Keys, key : Keys]
    \cup [at : {"upsert"}, listed : SUBSET Keys, seen : SUBSET Keys, key : Keys,
          size : Sizes \cup {0}]
    \cup [at : {"orphans"}, left : SUBSET Keys]
    \cup [at : {"dropHits"}, left : SUBSET Keys, key : Keys]

\* The local variables of workers and commands, as far as hits depend on them.
Shapes ==
    /\ job \in [Workers -> JobStates]
    /\ reindex \in ReindexStates
    /\ "at" \in DOMAIN evict
    /\ evict.at \in {"next", "deleteRow"} => "key" \in DOMAIN evict
    /\ evict.at = "deleteRow" => evict.key \in Keys

\* Buffered hits are dropped only after the row.
DropsDiscarded ==
    /\ \A w \in Workers : job[w].at = "dropHits" => job[w].key \in discarded
    /\ reindex.at = "dropHits" => reindex.key \in discarded

\* The batch of the reindex lives only in its flush, so the next one overwrites none.
BatchWithFlush == reindex.at # "flush" => pending["reindex"] = NoBatch

\* A delta in the buffer or in a batch has hits.
HasHits(d) == d # NoDelta => d.hits > 0

DeltasHaveHits == \A k \in Keys :
    HasHits(dirty[k]) /\ \A f \in Flushers : HasHits(pending[f][k])

IndInv ==
    /\ TypeOK
    /\ Shapes
    /\ DropsDiscarded
    /\ BatchWithFlush
    /\ DeltasHaveHits
    /\ NoHitCountedTwice
    /\ StatsPreserved

-----------------------------------------------------------------------------
(* The effects of a step on rows, buffer and batches.                        *)

Quiet == UNCHANGED <<indexVars, history>>

\* A row is replaced by one without hits, or deleted.
Resets == \E k \in Keys, row \in Rows \cup {NoRow} :
    /\ row.hits = 0
    /\ rows' = [rows EXCEPT ![k] = row]
    /\ discarded' = discarded \cup {k}
    /\ UNCHANGED <<dirty, pending, recorded, lastHit>>

Records == \E k \in Keys, size \in Nat, now \in Nat :
    /\ dirty' = [dirty EXCEPT ![k] = Bumped(@, size, now)]
    /\ recorded' = [recorded EXCEPT ![k] = @ + 1]
    /\ lastHit' = [lastHit EXCEPT ![k] = Later(@, now)]
    /\ UNCHANGED <<rows, pending, discarded>>

Drops == \E k \in Keys \cap discarded :
    /\ dirty' = [dirty EXCEPT ![k] = NoDelta]
    /\ UNCHANGED <<rows, pending, history>>

Swaps == \E f \in Flushers :
    pending[f] = NoBatch /\ Swap(f) /\ UNCHANGED <<rows, history>>

Commits == \E f \in Flushers : Commit(f) /\ UNCHANGED history

Requeues == \E f \in Flushers : requeue(f) /\ UNCHANGED history

Upserts == \E k \in Keys, size \in Sizes \cup {0}, now \in Nat :
    /\ rows' = [rows EXCEPT ![k] = Upsert(@, size, now)]
    /\ UNCHANGED <<dirty, pending, history>>

Loses ==
    /\ dirty' = NoBatch
    /\ pending' = [f \in Flushers |-> NoBatch]
    /\ discarded' = discarded \cup {k \in Keys : Buffered(k)}
    /\ UNCHANGED <<rows, recorded, lastHit>>

Effect ==
    Quiet \/ Resets \/ Records \/ Drops \/ Swaps \/ Commits \/ Requeues \/ Upserts \/ Loses

-----------------------------------------------------------------------------
(* The operators on rows and deltas.                                         *)

LEMMA NothingTyped ==
    /\ NoDelta \in Deltas /\ NoDelta.hits = 0 /\ NoDelta.last = 0
    /\ NoRow.hits = 0 /\ NoRow.last = 0 /\ NoRow \notin Rows
    /\ NoBatch \in [Keys -> Deltas]
    /\ \A k \in Keys : NoBatch[k] = NoDelta
BY DEF NoDelta, Deltas, NoRow, NoBatch, Rows, Absent

LEMMA LaterFacts ==
    ASSUME NEW a \in Nat, NEW b \in Nat
    PROVE  Later(a, b) \in Nat /\ Later(a, b) >= a /\ Later(a, b) >= b
           /\ (Later(a, b) = a \/ Later(a, b) = b)
BY DEF Later

\* A delta that goes into the table keeps the sum of the hits and the later time.
LEMMA UpsertedFacts ==
    ASSUME NEW row \in Rows \cup {NoRow}, NEW d \in Deltas
    PROVE  /\ Upserted(row, d) \in Rows \cup {NoRow}
           /\ Upserted(row, d).hits = row.hits + d.hits
           /\ Upserted(row, d).last >= row.last
           /\ Upserted(row, d).last >= d.last
<1>1. CASE d = NoDelta
  BY <1>1, NothingTyped DEF Upserted, Rows
<1>2. CASE d # NoDelta /\ row = NoRow
  <2>1. Upserted(row, d) = [size |-> d.size, last |-> d.last, hits |-> d.hits]
    BY <1>2 DEF Upserted
  <2> QED
    BY <1>2, <2>1, NothingTyped DEF Rows, Deltas
<1>3. CASE d # NoDelta /\ row # NoRow
  <2>1. Upserted(row, d) = [row EXCEPT !.last = Later(row.last, d.last), !.hits = row.hits + d.hits]
    BY <1>3 DEF Upserted
  <2>2. row \in Rows
    BY <1>3
  <2>3. /\ Later(row.last, d.last) \in Nat
        /\ Later(row.last, d.last) >= row.last /\ Later(row.last, d.last) >= d.last
    BY <2>2, LaterFacts DEF Rows, Deltas
  <2>4. row.hits + d.hits \in Nat
    BY <2>2 DEF Rows, Deltas
  <2> QED
    BY <2>1, <2>2, <2>3, <2>4 DEF Rows
<1> QED
  BY <1>1, <1>2, <1>3

\* The same for a delta that goes back into the buffer.
LEMMA RequeuedFacts ==
    ASSUME NEW old \in Deltas, NEW d \in Deltas
    PROVE  /\ Requeued(old, d) \in Deltas
           /\ Requeued(old, d).hits = old.hits + d.hits
           /\ Requeued(old, d).last >= old.last
           /\ Requeued(old, d).last >= d.last
           /\ HasHits(old) /\ HasHits(d) => HasHits(Requeued(old, d))
<1>1. CASE d = NoDelta
  BY <1>1, NothingTyped DEF Requeued, Deltas
<1>2. CASE d # NoDelta /\ old = NoDelta
  BY <1>2, NothingTyped DEF Requeued, Deltas
<1>3. CASE d # NoDelta /\ old # NoDelta
  <2>1. Requeued(old, d) = [old EXCEPT !.hits = old.hits + d.hits, !.last = Later(old.last, d.last)]
    BY <1>3 DEF Requeued
  <2>2. /\ Later(old.last, d.last) \in Nat
        /\ Later(old.last, d.last) >= old.last /\ Later(old.last, d.last) >= d.last
    BY LaterFacts DEF Deltas
  <2>3. old.hits + d.hits \in Nat /\ (old.hits > 0 => old.hits + d.hits > 0)
    BY DEF Deltas
  <2> QED
    BY <1>3, <2>1, <2>2, <2>3 DEF Deltas, HasHits
<1> QED
  BY <1>1, <1>2, <1>3

LEMMA BumpedFacts ==
    ASSUME NEW d \in Deltas, NEW size \in Nat, NEW now \in Nat
    PROVE  /\ Bumped(d, size, now) \in Deltas
           /\ Bumped(d, size, now).hits = d.hits + 1
           /\ Bumped(d, size, now).last = Later(d.last, now)
           /\ HasHits(Bumped(d, size, now))
BY LaterFacts DEF Bumped, Deltas, NoDelta, HasHits

LEMMA UpsertFacts ==
    ASSUME NEW row \in Rows \cup {NoRow}, NEW size \in Sizes \cup {0}, NEW now \in Nat
    PROVE  /\ Upsert(row, size, now) \in Rows \cup {NoRow}
           /\ Upsert(row, size, now).hits = row.hits
           /\ Upsert(row, size, now).last >= row.last
BY BoundsAssumption, NothingTyped DEF Upsert, Rows, NoRow

-----------------------------------------------------------------------------
(* Every step has an effect, and keeps the shapes.                           *)

\* What the effect of a step rests on.
Local == TypeOK /\ Shapes /\ DropsDiscarded /\ BatchWithFlush

\* What a step has to keep of the variables beside rows and deltas.
LocalKept ==
    /\ clock' \in Nat
    /\ disk' \in [Keys -> Sizes \cup {Absent}]
    /\ phase' \in {"running", "stopping", "flushing", "closed"}
    /\ Shapes'
    /\ DropsDiscarded'
    /\ BatchWithFlush'

LEMMA JobFacts ==
    ASSUME Shapes, NEW w \in Workers
    PROVE  /\ job[w] \in JobStates
           /\ job[w].at = "insert" => job[w] \in [at : {"insert"}, key : Keys,
                                                  row : [size : Nat, last : Nat, hits : {0}]]
           /\ job[w].at = "recordHit" =>
                  job[w] \in [at : {"recordHit"}, key : Keys, size : Nat, now : Nat]
           /\ job[w].at \in {"deleteRow", "dropHits"} =>
                  job[w] \in [at : {"deleteRow", "dropHits"}, key : Keys]
BY DEF Shapes, JobStates, Idle

\* A worker goes on to a state of its operation.
LEMMA GotoKeeps ==
    ASSUME Local, NEW w \in Workers, NEW j \in JobStates, Goto(w, j),
           discarded \subseteq discarded', j.at = "dropHits" => j.key \in discarded',
           UNCHANGED <<clock, disk, phase, reindex, evict, pending>>
    PROVE  LocalKept
<1>1. Shapes'
  BY DEF Local, Shapes, Goto
<1>2. DropsDiscarded'
  <2>1. \A v \in Workers : job'[v] = job[v] \/ job'[v] = j
    BY DEF Local, Shapes, Goto
  <2> QED
    BY <2>1 DEF Local, DropsDiscarded
<1> QED
  BY <1>1, <1>2 DEF LocalKept, Local, TypeOK, BatchWithFlush

LEMMA WorkerStep ==
    ASSUME Local, NEW w \in Workers, Worker(w)
    PROVE  Effect /\ LocalKept
<1> USE BoundsAssumption, NothingTyped
<1>1. Idle \in JobStates /\ Idle.at # "dropHits"
  BY DEF JobStates, Idle
<1>2. ASSUME NEW k \in Keys, PutStore(w, k) PROVE Effect /\ LocalKept
  <2>1. PICK size \in Sizes :
            /\ disk' = [disk EXCEPT ![k] = size]
            /\ Goto(w, [at |-> "insert", key |-> k,
                        row |-> [size |-> size, last |-> clock, hits |-> 0]])
    BY <1>2 DEF PutStore
  <2>2. UNCHANGED <<clock, phase, reindex, evict, indexVars, history>>
    BY <1>2 DEF PutStore
  <2> DEFINE j == [at |-> "insert", key |-> k,
                   row |-> [size |-> size, last |-> clock, hits |-> 0]]
  <2>3. j \in JobStates /\ j.at = "insert"
    BY DEF JobStates, Local, TypeOK
  <2>4. Shapes'
    BY <2>1, <2>2, <2>3 DEF Local, Shapes, Goto
  <2>5. \A v \in Workers : job'[v] = job[v] \/ job'[v].at = "insert"
    BY <2>1, <2>3 DEF Local, Shapes, Goto
  <2> QED
    BY <2>1, <2>2, <2>4, <2>5
    DEF Effect, Quiet, LocalKept, Local, TypeOK, DropsDiscarded, BatchWithFlush, indexVars, history
<1>3. ASSUME NEW k \in Keys, GetFound(w, k) PROVE Effect /\ LocalKept
  <2>1. [at |-> "recordHit", key |-> k, size |-> disk[k], now |-> clock] \in JobStates
    BY <1>3 DEF JobStates, Local, TypeOK, GetFound
  <2> QED
    BY <1>3, <2>1, GotoKeeps DEF GetFound, Effect, Quiet, indexVars, history
<1>4. ASSUME NEW k \in Keys, NotFound(w, k) PROVE Effect /\ LocalKept
  <2>1. [at |-> "deleteRow", key |-> k] \in JobStates
    BY DEF JobStates
  <2> QED
    BY <1>4, <2>1, GotoKeeps DEF NotFound, Effect, Quiet, indexVars, history
<1>5. ASSUME NEW k \in Keys, DeleteEntry(w, k) PROVE Effect /\ LocalKept
  <2> DEFINE j == [at |-> "deleteRow", key |-> k]
  <2>1. j \in JobStates /\ j.at = "deleteRow"
    BY DEF JobStates
  <2>2. /\ Goto(w, j)
        /\ disk' = [disk EXCEPT ![k] = Absent]
        /\ UNCHANGED <<clock, indexVars, phase, reindex, evict, history>>
    BY <1>5 DEF DeleteEntry
  <2>3. Shapes'
    BY <2>1, <2>2 DEF Local, Shapes, Goto
  <2>4. \A v \in Workers : job'[v] = job[v] \/ job'[v].at = "deleteRow"
    BY <2>1, <2>2 DEF Local, Shapes, Goto
  <2> QED
    BY <2>2, <2>3, <2>4
    DEF Effect, Quiet, LocalKept, Local, TypeOK, DropsDiscarded, BatchWithFlush, indexVars, history
<1>6. ASSUME Insert(w) PROVE Effect /\ LocalKept
  <2>1. /\ job[w].key \in Keys /\ job[w].row \in [size : Nat, last : Nat, hits : {0}]
    BY <1>6, JobFacts DEF Local, Insert
  <2>2. job[w].row \in Rows \cup {NoRow} /\ job[w].row.hits = 0
    BY <2>1 DEF Rows
  <2>3. Resets
    BY <1>6, <2>1, <2>2 DEF Insert, Resets
  <2>4. LocalKept
    BY <1>1, <1>6, GotoKeeps DEF Insert
  <2> QED
    BY <2>3, <2>4 DEF Effect
<1>7. CASE InsertFails(w) \/ DeleteRowFails(w)
  BY <1>1, <1>7, GotoKeeps DEF InsertFails, DeleteRowFails, Effect, Quiet, indexVars, history
<1>8. ASSUME RecordHit(w) PROVE Effect /\ LocalKept
  <2>1. job[w].key \in Keys /\ job[w].size \in Nat /\ job[w].now \in Nat
    BY <1>8, JobFacts DEF Local, RecordHit
  <2>2. Records
    BY <1>8, <2>1 DEF RecordHit, Records
  <2>3. LocalKept
    BY <1>1, <1>8, GotoKeeps DEF RecordHit
  <2> QED
    BY <2>2, <2>3 DEF Effect
<1>9. ASSUME DeleteRow(w) PROVE Effect /\ LocalKept
  <2>1. job[w] \in [at : {"deleteRow", "dropHits"}, key : Keys]
    BY <1>9, JobFacts DEF Local, DeleteRow
  <2> DEFINE j == [job[w] EXCEPT !.at = "dropHits"]
  <2>2. j \in JobStates /\ j.key = job[w].key /\ job[w].key \in Keys
    BY <2>1 DEF JobStates
  <2>3. Resets
    BY <1>9, <2>2 DEF DeleteRow, Resets
  <2>4. /\ Goto(w, j) /\ discarded \subseteq discarded' /\ j.key \in discarded'
        /\ UNCHANGED <<clock, disk, phase, reindex, evict, pending>>
    BY <1>9, <2>2 DEF DeleteRow
  <2>5. LocalKept
    BY <2>2, <2>4, GotoKeeps
  <2> QED
    BY <2>3, <2>5 DEF Effect
<1>10. ASSUME DropHits(w) PROVE Effect /\ LocalKept
  <2>1. job[w].key \in Keys \cap discarded
    BY <1>10, JobFacts DEF Local, DropHits, DropsDiscarded
  <2>2. Drops
    BY <1>10, <2>1 DEF DropHits, Drops
  <2>3. LocalKept
    BY <1>1, <1>10, GotoKeeps DEF DropHits, history
  <2> QED
    BY <2>2, <2>3 DEF Effect
<1> QED
  BY <1>2, <1>3, <1>4, <1>5, <1>6, <1>7, <1>8, <1>9, <1>10 DEF Worker

LEMMA FlushStep ==
    ASSUME Local, FlushLoop \/ Stop
    PROVE  Effect /\ LocalKept
<1> USE NothingTyped DEF Flushers
<1>1. pending \in [Flushers -> [Keys -> Deltas]]
  BY DEF Local, TypeOK
<1>2. ASSUME LoopFlush PROVE Effect /\ LocalKept
  <2>1. Swaps
    BY <1>2 DEF LoopFlush, Swaps
  <2>2. pending'["reindex"] = pending["reindex"]
    BY <1>1, <1>2 DEF LoopFlush, Swap
  <2> QED
    BY <1>2, <2>1, <2>2
    DEF LoopFlush, Effect, LocalKept, Local, TypeOK, Shapes, DropsDiscarded, BatchWithFlush, history
<1>3. ASSUME LoopCommit PROVE Effect /\ LocalKept
  <2>1. Commits
    BY <1>3 DEF LoopCommit, Commits
  <2>2. pending'["reindex"] = pending["reindex"]
    BY <1>1, <1>3 DEF LoopCommit, Commit
  <2> QED
    BY <1>3, <2>1, <2>2
    DEF LoopCommit, Flushed, Effect, LocalKept, Local, TypeOK, Shapes, DropsDiscarded,
        BatchWithFlush, history
<1>4. ASSUME LoopRequeue PROVE Effect /\ LocalKept
  <2>1. Requeues
    BY <1>4 DEF LoopRequeue, Requeues
  <2>2. pending'["reindex"] = pending["reindex"]
    BY <1>1, <1>4 DEF LoopRequeue, requeue
  <2> QED
    BY <1>4, <2>1, <2>2
    DEF LoopRequeue, Flushed, Effect, LocalKept, Local, TypeOK, Shapes, DropsDiscarded,
        BatchWithFlush, history
<1>5. ASSUME LastFlush PROVE Effect /\ LocalKept
  <2>1. /\ UNCHANGED <<clock, disk, rows, job, reindex, evict, history>>
        /\ phase' \in {"closed", "flushing"}
    BY <1>5 DEF LastFlush
  <2>2. CASE dirty = NoBatch
    BY <1>5, <2>1, <2>2
    DEF LastFlush, Effect, Quiet, LocalKept, Local, TypeOK, Shapes, DropsDiscarded,
        BatchWithFlush, history, indexVars
  <2>3. CASE dirty # NoBatch
    <3>1. Swaps
      BY <1>5, <2>3 DEF LastFlush, Swaps
    <3>2. pending'["reindex"] = pending["reindex"]
      BY <1>1, <1>5, <2>3 DEF LastFlush, Swap
    <3> QED
      BY <2>1, <3>1, <3>2
      DEF Effect, LocalKept, Local, TypeOK, Shapes, DropsDiscarded, BatchWithFlush, history
  <2> QED
    BY <2>2, <2>3
<1>6. CASE Stop
  BY <1>6
  DEF Stop, Effect, Quiet, LocalKept, Local, TypeOK, Shapes, DropsDiscarded, BatchWithFlush,
      history, indexVars
<1> QED
  BY <1>2, <1>3, <1>4, <1>5, <1>6 DEF FlushLoop

LEMMA ReindexFacts ==
    ASSUME Shapes
    PROVE  /\ reindex \in ReindexStates
           /\ reindex.at = "walk" =>
                  reindex \in [at : {"walk"}, listed : SUBSET Keys, seen : SUBSET Keys]
           /\ reindex.at = "size" =>
                  reindex \in [at : {"size"}, listed : SUBSET Keys, seen : SUBSET Keys,
                               key : Keys]
           /\ reindex.at = "upsert" =>
                  reindex \in [at : {"upsert"}, listed : SUBSET Keys, seen : SUBSET Keys,
                               key : Keys, size : Sizes \cup {0}]
           /\ reindex.at = "orphans" => reindex \in [at : {"orphans"}, left : SUBSET Keys]
           /\ reindex.at = "dropHits" =>
                  reindex \in [at : {"dropHits"}, left : SUBSET Keys, key : Keys]
BY DEF Shapes, ReindexStates, Idle

\* A reindex that goes on to another state with its batch in order.
LEMMA ReindexGoes ==
    ASSUME Local, reindex' \in ReindexStates,
           discarded \subseteq discarded',
           reindex'.at = "dropHits" => reindex'.key \in discarded',
           reindex'.at = "flush" \/ pending'["reindex"] = NoBatch,
           UNCHANGED <<clock, disk, job, phase, evict>>
    PROVE  LocalKept
<1>1. Shapes'
  BY DEF Local, Shapes
<1>2. DropsDiscarded'
  BY DEF Local, DropsDiscarded
<1> QED
  BY <1>1, <1>2 DEF LocalKept, Local, TypeOK, BatchWithFlush

LEMMA ReindexStep ==
    ASSUME Local, Reindex
    PROVE  Effect /\ LocalKept
<1> USE NothingTyped DEF Flushers
<1>1. /\ pending \in [Flushers -> [Keys -> Deltas]]
      /\ reindex.at # "flush" => pending["reindex"] = NoBatch
  BY DEF Local, TypeOK, BatchWithFlush
<1>2. /\ [at |-> "list"] \in ReindexStates
      /\ [at |-> "flush"] \in ReindexStates
      /\ \A ok \in BOOLEAN : ReindexDone(ok) \in ReindexStates /\ ReindexDone(ok).at = "done"
  BY DEF ReindexStates, ReindexDone
<1>3. ASSUME ReindexStart PROVE Effect /\ LocalKept
  <2>1. reindex.at = "idle" /\ pending["reindex"] = NoBatch
    BY <1>1, <1>3 DEF ReindexStart, Idle
  <2>2. CASE InServe /\ dirty # NoBatch
    <3>1. Swaps
      BY <1>3, <2>1, <2>2 DEF ReindexStart, Swaps
    <3>2. LocalKept
      BY <1>2, <1>3, <2>2, ReindexGoes DEF ReindexStart, history
    <3> QED
      BY <3>1, <3>2 DEF Effect
  <2>3. CASE ~(InServe /\ dirty # NoBatch)
    <3>1. Quiet
      BY <1>3, <2>3 DEF ReindexStart, Quiet, indexVars
    <3>2. LocalKept
      BY <1>2, <1>3, <2>1, <2>3, ReindexGoes DEF ReindexStart, history
    <3> QED
      BY <3>1, <3>2 DEF Effect
  <2> QED
    BY <2>2, <2>3
<1>4. ASSUME ReindexCommit PROVE Effect /\ LocalKept
  <2>1. Commits
    BY <1>4 DEF ReindexCommit, Commits
  <2>2. pending'["reindex"] = NoBatch
    BY <1>1, <1>4 DEF ReindexCommit, Commit
  <2>3. LocalKept
    BY <1>2, <1>4, <2>2, ReindexGoes DEF ReindexCommit, history
  <2> QED
    BY <2>1, <2>3 DEF Effect
<1>5. ASSUME ReindexRequeue PROVE Effect /\ LocalKept
  <2>1. Requeues
    BY <1>5 DEF ReindexRequeue, Requeues
  <2>2. pending'["reindex"] = NoBatch
    BY <1>1, <1>5 DEF ReindexRequeue, requeue
  <2>3. LocalKept
    BY <1>2, <1>5, <2>2, ReindexGoes DEF ReindexRequeue, history
  <2> QED
    BY <2>1, <2>3 DEF Effect
<1>6. ASSUME ReindexList PROVE Effect /\ LocalKept
  <2>1. reindex' \in ReindexStates /\ reindex'.at = "walk"
    BY <1>6 DEF ReindexList, ReindexStates, StoredKeys
  <2> QED
    BY <1>1, <1>6, <2>1, ReindexGoes DEF ReindexList, Effect, Quiet, indexVars, history
<1>7. ASSUME NEW k \in Keys, ReindexRead(k) \/ ReindexSkip(k) PROVE Effect /\ LocalKept
  <2>1. reindex \in [at : {"walk"}, listed : SUBSET Keys, seen : SUBSET Keys]
    BY <1>7, ReindexFacts DEF Local, ReindexRead, ReindexSkip
  <2>2. reindex' \in ReindexStates /\ reindex'.at # "dropHits"
    <3>1. CASE ReindexRead(k)
      BY <2>1, <3>1 DEF ReindexRead, ReindexStates
    <3>2. CASE ReindexSkip(k)
      <4>1. reindex' = [reindex EXCEPT !.listed = reindex.listed \ {k}]
        BY <3>2 DEF ReindexSkip
      <4>2. reindex' \in [at : {"walk"}, listed : SUBSET Keys, seen : SUBSET Keys]
        BY <2>1, <4>1
      <4> QED
        BY <4>2 DEF ReindexStates
    <3> QED
      BY <1>7, <3>1, <3>2
  <2> QED
    BY <1>1, <1>7, <2>2, ReindexGoes
    DEF ReindexRead, ReindexSkip, Effect, Quiet, indexVars, history
<1>13. ASSUME ReindexSize PROVE Effect /\ LocalKept
  <2>1. reindex \in [at : {"size"}, listed : SUBSET Keys, seen : SUBSET Keys, key : Keys]
    BY <1>13, ReindexFacts DEF Local, ReindexSize
  <2>2. \E size \in Sizes \cup {0} :
            reindex' = [at |-> "upsert", listed |-> reindex.listed, seen |-> reindex.seen,
                        key |-> reindex.key, size |-> size]
    <3>1. disk[reindex.key] # Absent => disk[reindex.key] \in Sizes
      BY <2>1 DEF Local, TypeOK
    <3> QED
      BY <1>13, <3>1 DEF ReindexSize
  <2>3. reindex' \in ReindexStates /\ reindex'.at # "dropHits"
    BY <2>1, <2>2 DEF ReindexStates
  <2> QED
    BY <1>1, <1>13, <2>1, <2>3, ReindexGoes
    DEF ReindexSize, Effect, Quiet, indexVars, history
<1>8. ASSUME ReindexUpsert PROVE Effect /\ LocalKept
  <2>1. reindex \in [at : {"upsert"}, listed : SUBSET Keys, seen : SUBSET Keys,
                     key : Keys, size : Sizes \cup {0}]
    BY <1>8, ReindexFacts DEF Local, ReindexUpsert
  <2>2. reindex' \in ReindexStates /\ reindex'.at = "walk"
    BY <1>8, <2>1 DEF ReindexUpsert, ReindexStates
  <2>3. Upserts
    BY <1>8, <2>1 DEF ReindexUpsert, Upserts, Local, TypeOK
  <2>4. LocalKept
    BY <1>1, <1>8, <2>2, ReindexGoes DEF ReindexUpsert, history
  <2> QED
    BY <2>3, <2>4 DEF Effect
<1>9. ASSUME ReindexAllKeys PROVE Effect /\ LocalKept
  <2>1. reindex' \in ReindexStates /\ reindex'.at = "orphans"
    BY <1>9 DEF ReindexAllKeys, ReindexStates, Orphans, IndexedKeys
  <2> QED
    BY <1>1, <1>9, <2>1, ReindexGoes DEF ReindexAllKeys, Effect, Quiet, indexVars, history
<1>10. ASSUME NEW k \in Keys, ReindexDeleteRow(k) PROVE Effect /\ LocalKept
  <2>1. reindex \in [at : {"orphans"}, left : SUBSET Keys]
    BY <1>10, ReindexFacts DEF Local, ReindexDeleteRow
  <2>2. reindex' \in ReindexStates /\ reindex'.key \in discarded'
    BY <1>10, <2>1 DEF ReindexDeleteRow, ReindexStates
  <2>3. Resets
    BY <1>10 DEF ReindexDeleteRow, Resets
  <2>4. LocalKept
    BY <1>1, <1>10, <2>2, ReindexGoes DEF ReindexDeleteRow
  <2> QED
    BY <2>3, <2>4 DEF Effect
<1>11. ASSUME ReindexDropHits PROVE Effect /\ LocalKept
  <2>1. /\ reindex \in [at : {"dropHits"}, left : SUBSET Keys, key : Keys]
        /\ reindex.key \in discarded
    BY <1>11, ReindexFacts DEF Local, ReindexDropHits, DropsDiscarded
  <2>2. reindex' \in ReindexStates /\ reindex'.at = "orphans"
    BY <1>11, <2>1 DEF ReindexDropHits, ReindexStates
  <2>3. Drops \/ Quiet
    BY <1>11, <2>1 DEF ReindexDropHits, Drops, Quiet, indexVars
  <2>4. LocalKept
    BY <1>1, <1>11, <2>2, ReindexGoes DEF ReindexDropHits, history
  <2> QED
    BY <2>3, <2>4 DEF Effect
<1>12. CASE ReindexEnd \/ ReindexFails
  BY <1>1, <1>2, <1>12, ReindexGoes
  DEF ReindexEnd, ReindexFails, Effect, Quiet, indexVars, history
<1> QED
  BY <1>3, <1>4, <1>5, <1>6, <1>7, <1>8, <1>9, <1>10, <1>11, <1>12, <1>13 DEF Reindex

\* What the eviction may leave its local variables to.
EvictShaped ==
    /\ "at" \in DOMAIN evict'
    /\ evict'.at \in {"next", "deleteRow"} => "key" \in DOMAIN evict'
    /\ evict'.at = "deleteRow" => evict'.key \in Keys

LEMMA EvictGoes ==
    ASSUME Local, EvictShaped,
           disk' \in [Keys -> Sizes \cup {Absent}],
           discarded \subseteq discarded',
           UNCHANGED <<clock, pending, job, phase, reindex>>
    PROVE  LocalKept
<1>1. Shapes'
  BY DEF Local, Shapes, EvictShaped
<1>2. DropsDiscarded'
  BY DEF Local, DropsDiscarded
<1> QED
  BY <1>1, <1>2 DEF LocalKept, Local, TypeOK, BatchWithFlush

LEMMA EvictStep ==
    ASSUME Local, Evict
    PROVE  Effect /\ LocalKept
<1>1. disk \in [Keys -> Sizes \cup {Absent}]
  BY DEF Local, TypeOK
<1>2. "at" \in DOMAIN evict /\ (evict.at \in {"next", "deleteRow"} => "key" \in DOMAIN evict)
  BY DEF Local, Shapes
<1>3. ASSUME EvictTotal PROVE Effect /\ LocalKept
  <2>1. evict'.at \in {"nothing", "list"} /\ "at" \in DOMAIN evict'
    BY <1>3 DEF EvictTotal
  <2> QED
    BY <1>1, <1>3, <2>1, EvictGoes DEF EvictTotal, EvictShaped, Effect, Quiet, indexVars, history
<1>4. ASSUME EvictList PROVE Effect /\ LocalKept
  <2>1. evict'.at = "next" /\ {"at", "key"} \subseteq DOMAIN evict'
    BY <1>4 DEF EvictList
  <2> QED
    BY <1>1, <1>4, <2>1, EvictGoes DEF EvictList, EvictShaped, Effect, Quiet, indexVars, history
<1>5. ASSUME EvictListFails PROVE Effect /\ LocalKept
  <2>1. evict'.at = "failed" /\ "at" \in DOMAIN evict'
    BY <1>2, <1>5 DEF EvictListFails
  <2> QED
    BY <1>1, <1>5, <2>1, EvictGoes
    DEF EvictListFails, EvictShaped, Effect, Quiet, indexVars, history
<1>6. ASSUME NEW k \in Keys, EvictForecast(k) PROVE Effect /\ LocalKept
  <2>1. evict'.at = "next" /\ DOMAIN evict' = DOMAIN evict
    BY <1>2, <1>6 DEF EvictForecast
  <2> QED
    BY <1>1, <1>2, <1>6, <2>1, EvictGoes
    DEF EvictForecast, EvictShaped, Effect, Quiet, indexVars, history
<1>7. ASSUME NEW k \in Keys, EvictDelete(k) PROVE Effect /\ LocalKept
  <2>1. DOMAIN evict' = DOMAIN evict /\ evict'.key = k
    BY <1>2, <1>7 DEF EvictDelete
  <2>2. EvictShaped
    BY <1>2, <1>7, <2>1 DEF EvictDelete, EvictShaped
  <2>3. disk' \in [Keys -> Sizes \cup {Absent}]
    BY <1>1, <1>7 DEF EvictDelete
  <2> QED
    BY <1>7, <2>2, <2>3, EvictGoes DEF EvictDelete, Effect, Quiet, indexVars, history
<1>8. ASSUME NEW k \in Keys, EvictDeleteFails(k) PROVE Effect /\ LocalKept
  <2>1. evict'.at = "next" /\ DOMAIN evict' = DOMAIN evict
    BY <1>2, <1>8 DEF EvictDeleteFails
  <2> QED
    BY <1>1, <1>2, <1>8, <2>1, EvictGoes
    DEF EvictDeleteFails, EvictShaped, Effect, Quiet, indexVars, history
<1>9. ASSUME EvictDeleteRow PROVE Effect /\ LocalKept
  <2>1. evict.key \in Keys
    BY <1>9 DEF Local, Shapes, EvictDeleteRow
  <2>2. evict'.at = "next" /\ DOMAIN evict' = DOMAIN evict
    BY <1>2, <1>9 DEF EvictDeleteRow
  <2>3. Resets
    BY <1>9, <2>1, NothingTyped DEF EvictDeleteRow, Resets
  <2>4. LocalKept
    BY <1>1, <1>2, <1>9, <2>2, EvictGoes DEF EvictDeleteRow, EvictShaped
  <2> QED
    BY <2>3, <2>4 DEF Effect
<1>10. ASSUME EvictDeleteRowFails PROVE Effect /\ LocalKept
  <2>1. evict'.at = "next" /\ DOMAIN evict' = DOMAIN evict
    BY <1>2, <1>10 DEF EvictDeleteRowFails
  <2> QED
    BY <1>1, <1>2, <1>10, <2>1, EvictGoes
    DEF EvictDeleteRowFails, EvictShaped, Effect, Quiet, indexVars, history
<1>11. ASSUME EvictEnd PROVE Effect /\ LocalKept
  <2>1. evict'.at = "done" /\ "at" \in DOMAIN evict'
    BY <1>2, <1>11 DEF EvictEnd
  <2> QED
    BY <1>1, <1>11, <2>1, EvictGoes DEF EvictEnd, EvictShaped, Effect, Quiet, indexVars, history
<1> QED
  BY <1>3, <1>4, <1>5, <1>6, <1>7, <1>8, <1>9, <1>10, <1>11 DEF Evict

LEMMA EnvironmentStep ==
    ASSUME Local, Tick \/ Crash
    PROVE  Effect /\ LocalKept
<1>1. CASE Tick
  BY <1>1
  DEF Tick, Effect, Quiet, LocalKept, Local, TypeOK, Shapes, DropsDiscarded, BatchWithFlush,
      history, indexVars
<1>2. CASE Crash
  <2>1. Loses
    BY <1>2 DEF Crash, Loses
  <2>2. job' = [w \in Workers |-> Idle] /\ job' \in [Workers -> JobStates]
    BY <1>2 DEF Crash, JobStates
  <2>3. /\ reindex' \in ReindexStates
        /\ reindex'.at = "dropHits" => reindex' = reindex
    BY <1>2 DEF Crash, Local, Shapes, AutoReindex, ReindexDone, ReindexStates, Idle
  <2>4. Shapes'
    BY <1>2, <2>2, <2>3 DEF Crash, Local, Shapes
  <2>5. DropsDiscarded'
    BY <1>2, <2>2, <2>3 DEF Crash, Local, DropsDiscarded, Idle
  <2>6. pending'["reindex"] = NoBatch
    BY <1>2 DEF Crash, Flushers
  <2> QED
    BY <1>2, <2>1, <2>4, <2>5, <2>6 DEF Crash, Effect, LocalKept, Local, TypeOK, BatchWithFlush
<1> QED
  BY <1>1, <1>2

LEMMA StepHasEffect ==
    ASSUME Local, [Next]_vars
    PROVE  Effect /\ LocalKept
<1>1. CASE UNCHANGED vars
  BY <1>1
  DEF vars, Effect, Quiet, LocalKept, Local, TypeOK, Shapes, DropsDiscarded, BatchWithFlush,
      history, indexVars
<1> QED
  BY <1>1, WorkerStep, FlushStep, ReindexStep, EvictStep, EnvironmentStep DEF Next

-----------------------------------------------------------------------------
(* What every effect keeps.                                                  *)

\* What is known of a key's row, delta and batches.
LEMMA KeyTypes ==
    ASSUME TypeOK, NEW k \in Keys
    PROVE  /\ rows[k] \in Rows \cup {NoRow}
           /\ rows[k].hits \in Nat /\ rows[k].last \in Nat
           /\ dirty[k] \in Deltas /\ dirty[k].hits \in Nat /\ dirty[k].last \in Nat
           /\ \A f \in Flushers : /\ pending[f][k] \in Deltas
                                  /\ pending[f][k].hits \in Nat
                                  /\ pending[f][k].last \in Nat
           /\ recorded[k] \in Nat /\ lastHit[k] \in Nat
BY NothingTyped DEF TypeOK, Rows, Deltas

LEMMA EffectKeepsTypes ==
    ASSUME TypeOK, Effect, LocalKept
    PROVE  TypeOK'
<1> SUFFICES /\ rows' \in [Keys -> Rows \cup {NoRow}]
             /\ dirty' \in [Keys -> Deltas]
             /\ pending' \in [Flushers -> [Keys -> Deltas]]
             /\ recorded' \in [Keys -> Nat]
             /\ discarded' \subseteq Keys
             /\ lastHit' \in [Keys -> Nat]
  BY DEF LocalKept, TypeOK
<1> USE NothingTyped DEF TypeOK, history, indexVars
<1>1. CASE Quiet
  BY <1>1 DEF Quiet
<1>2. CASE Resets
  BY <1>2 DEF Resets
<1>3. CASE Records
  <2>1. PICK k \in Keys, size \in Nat, now \in Nat :
            /\ dirty' = [dirty EXCEPT ![k] = Bumped(@, size, now)]
            /\ recorded' = [recorded EXCEPT ![k] = @ + 1]
            /\ lastHit' = [lastHit EXCEPT ![k] = Later(@, now)]
            /\ UNCHANGED <<rows, pending, discarded>>
    BY <1>3 DEF Records
  <2>2. Bumped(dirty[k], size, now) \in Deltas /\ Later(lastHit[k], now) \in Nat
    BY BumpedFacts, LaterFacts
  <2> QED
    BY <2>1, <2>2
<1>4. CASE Drops
  BY <1>4 DEF Drops
<1>5. CASE Swaps
  BY <1>5 DEF Swaps, Swap
<1>6. CASE Commits
  <2>1. PICK f \in Flushers : Commit(f) /\ UNCHANGED history
    BY <1>6 DEF Commits
  <2>2. ASSUME NEW k \in Keys PROVE Upserted(rows[k], pending[f][k]) \in Rows \cup {NoRow}
    <3>1. rows[k] \in Rows \cup {NoRow} /\ pending[f][k] \in Deltas
      OBVIOUS
    <3> QED
      BY <3>1, UpsertedFacts
  <2> QED
    BY <2>1, <2>2 DEF Commit
<1>7. CASE Requeues
  <2>1. PICK f \in Flushers : requeue(f) /\ UNCHANGED history
    BY <1>7 DEF Requeues
  <2>2. \A k \in Keys : Requeued(dirty[k], pending[f][k]) \in Deltas
    BY RequeuedFacts
  <2> QED
    BY <2>1, <2>2 DEF requeue
<1>8. CASE Upserts
  <2>1. PICK k \in Keys, size \in Sizes \cup {0}, now \in Nat :
            /\ rows' = [rows EXCEPT ![k] = Upsert(@, size, now)]
            /\ UNCHANGED <<dirty, pending, history>>
    BY <1>8 DEF Upserts
  <2>2. Upsert(rows[k], size, now) \in Rows \cup {NoRow}
    BY UpsertFacts
  <2> QED
    BY <2>1, <2>2
<1>9. CASE Loses
  BY <1>9 DEF Loses
<1> QED
  BY <1>1, <1>2, <1>3, <1>4, <1>5, <1>6, <1>7, <1>8, <1>9 DEF Effect

LEMMA EffectKeepsHasHits ==
    ASSUME TypeOK, DeltasHaveHits, Effect
    PROVE  DeltasHaveHits'
<1> SUFFICES ASSUME NEW k \in Keys
             PROVE  HasHits(dirty'[k]) /\ \A f \in Flushers : HasHits(pending'[f][k])
  BY DEF DeltasHaveHits
<1>1. /\ HasHits(dirty[k]) /\ \A f \in Flushers : HasHits(pending[f][k])
      /\ HasHits(NoDelta) /\ NoBatch[k] = NoDelta
  BY NothingTyped DEF DeltasHaveHits, HasHits
<1> USE <1>1 DEF TypeOK, history, indexVars
<1>2. CASE Quiet \/ Resets \/ Upserts
  BY <1>2 DEF Quiet, Resets, Upserts
<1>3. CASE Records
  <2>1. PICK j \in Keys, size \in Nat, now \in Nat :
            dirty' = [dirty EXCEPT ![j] = Bumped(@, size, now)] /\ UNCHANGED pending
    BY <1>3 DEF Records
  <2>2. HasHits(Bumped(dirty[j], size, now))
    BY BumpedFacts
  <2> QED
    BY <2>1, <2>2
<1>4. CASE Drops
  BY <1>4 DEF Drops
<1>5. CASE Swaps
  BY <1>5 DEF Swaps, Swap
<1>6. CASE Commits
  BY <1>6 DEF Commits, Commit
<1>7. CASE Requeues
  <2>1. PICK f \in Flushers : requeue(f)
    BY <1>7 DEF Requeues
  <2>2. HasHits(Requeued(dirty[k], pending[f][k]))
    BY RequeuedFacts
  <2> QED
    BY <2>1, <2>2 DEF requeue
<1>8. CASE Loses
  BY <1>8 DEF Loses
<1> QED
  BY <1>2, <1>3, <1>4, <1>5, <1>6, <1>7, <1>8 DEF Effect

-----------------------------------------------------------------------------
(* What every effect does to the hits of a key.                              *)

\* Neither saved nor unsaved hits change.
SameHits == \A k \in Keys : rows'[k].hits = rows[k].hits /\ Unsaved(k)' = Unsaved(k)

LEMMA UnsavedNat ==
    ASSUME TypeOK, NEW k \in Keys
    PROVE  Unsaved(k) \in Nat /\ dirty[k].hits <= Unsaved(k)
BY KeyTypes DEF Unsaved, Flushers

LEMMA QuietHits ==
    ASSUME TypeOK, Quiet
    PROVE  SameHits
BY DEF Quiet, SameHits, Unsaved, indexVars

LEMMA SwapsHits ==
    ASSUME TypeOK, Swaps
    PROVE  SameHits
<1> SUFFICES ASSUME NEW k \in Keys
             PROVE  rows'[k].hits = rows[k].hits /\ Unsaved(k)' = Unsaved(k)
  BY DEF SameHits
<1>1. PICK f \in Flushers :
          /\ pending[f] = NoBatch
          /\ pending' = [pending EXCEPT ![f] = dirty]
          /\ dirty' = NoBatch
          /\ rows' = rows
  BY DEF Swaps, Swap
<1>2. /\ dirty'[k].hits = 0
      /\ pending[f][k].hits = 0
      /\ pending'[f][k].hits = dirty[k].hits
      /\ \A g \in Flushers \ {f} : pending'[g][k].hits = pending[g][k].hits
  BY <1>1, NothingTyped DEF TypeOK
<1>3. dirty[k].hits \in Nat /\ \A g \in Flushers : pending[g][k].hits \in Nat
  BY KeyTypes
<1>4. CASE f = "loop"
  BY <1>1, <1>2, <1>3, <1>4 DEF Unsaved, Flushers
<1>5. CASE f = "reindex"
  BY <1>1, <1>2, <1>3, <1>5 DEF Unsaved, Flushers
<1> QED
  BY <1>4, <1>5 DEF Flushers

LEMMA RequeuesHits ==
    ASSUME TypeOK, Requeues
    PROVE  SameHits
<1> SUFFICES ASSUME NEW k \in Keys
             PROVE  rows'[k].hits = rows[k].hits /\ Unsaved(k)' = Unsaved(k)
  BY DEF SameHits
<1>1. PICK f \in Flushers :
          /\ dirty' = [j \in Keys |-> Requeued(dirty[j], pending[f][j])]
          /\ pending' = [pending EXCEPT ![f] = NoBatch]
          /\ rows' = rows
  BY DEF Requeues, requeue
<1>2. /\ dirty[k] \in Deltas /\ pending[f][k] \in Deltas
      /\ dirty[k].hits \in Nat /\ \A g \in Flushers : pending[g][k].hits \in Nat
  BY KeyTypes
<1>3. /\ dirty'[k].hits = dirty[k].hits + pending[f][k].hits
      /\ pending'[f][k].hits = 0
      /\ \A g \in Flushers \ {f} : pending'[g][k].hits = pending[g][k].hits
  BY <1>1, <1>2, NothingTyped, RequeuedFacts DEF TypeOK
<1>4. CASE f = "loop"
  BY <1>1, <1>2, <1>3, <1>4 DEF Unsaved, Flushers
<1>5. CASE f = "reindex"
  BY <1>1, <1>2, <1>3, <1>5 DEF Unsaved, Flushers
<1> QED
  BY <1>4, <1>5 DEF Flushers

LEMMA UpsertsHits ==
    ASSUME TypeOK, Upserts
    PROVE  SameHits
<1>1. PICK j \in Keys, size \in Sizes \cup {0}, now \in Nat :
          /\ rows' = [rows EXCEPT ![j] = Upsert(@, size, now)]
          /\ UNCHANGED <<dirty, pending>>
  BY DEF Upserts
<1>2. Upsert(rows[j], size, now).hits = rows[j].hits
  BY KeyTypes, UpsertFacts
<1> QED
  BY <1>1, <1>2 DEF SameHits, Unsaved, TypeOK

LEMMA RecordsHits ==
    ASSUME TypeOK, Records
    PROVE  \E k \in Keys :
               /\ Unsaved(k)' = Unsaved(k) + 1
               /\ recorded' = [recorded EXCEPT ![k] = @ + 1]
               /\ \A j \in Keys \ {k} : Unsaved(j)' = Unsaved(j)
               /\ UNCHANGED <<rows, discarded>>
<1>1. PICK k \in Keys, size \in Nat, now \in Nat :
          /\ dirty' = [dirty EXCEPT ![k] = Bumped(@, size, now)]
          /\ recorded' = [recorded EXCEPT ![k] = @ + 1]
          /\ UNCHANGED <<rows, pending, discarded>>
  BY DEF Records
<1>2. dirty'[k].hits = dirty[k].hits + 1
  <2>1. dirty[k] \in Deltas /\ dirty'[k] = Bumped(dirty[k], size, now)
    BY <1>1 DEF TypeOK
  <2>2. Bumped(dirty[k], size, now).hits = dirty[k].hits + 1
    BY <2>1, BumpedFacts
  <2> QED
    BY <2>1, <2>2
<1>3. \A j \in Keys \ {k} : dirty'[j] = dirty[j]
  BY <1>1 DEF TypeOK
<1>4. Unsaved(k)' = Unsaved(k) + 1
  BY <1>1, <1>2, KeyTypes DEF Unsaved, Flushers
<1>5. \A j \in Keys \ {k} : Unsaved(j)' = Unsaved(j)
  BY <1>1, <1>3 DEF Unsaved
<1> QED
  BY <1>1, <1>4, <1>5

\* A commit moves hits from the batch to the table.
LEMMA CommitsHits ==
    ASSUME TypeOK, Commits
    PROVE  \A k \in Keys : /\ rows'[k].hits + Unsaved(k)' = rows[k].hits + Unsaved(k)
                           /\ rows'[k].hits >= rows[k].hits
<1> SUFFICES ASSUME NEW k \in Keys
             PROVE  /\ rows'[k].hits + Unsaved(k)' = rows[k].hits + Unsaved(k)
                    /\ rows'[k].hits >= rows[k].hits
  OBVIOUS
<1>1. PICK f \in Flushers :
          /\ rows' = [j \in Keys |-> Upserted(rows[j], pending[f][j])]
          /\ pending' = [pending EXCEPT ![f] = NoBatch]
          /\ dirty' = dirty
  BY DEF Commits, Commit
<1>2. /\ rows[k].hits \in Nat /\ dirty[k].hits \in Nat
      /\ \A g \in Flushers : pending[g][k].hits \in Nat
  BY KeyTypes
<1>3. /\ rows'[k].hits = rows[k].hits + pending[f][k].hits
      /\ pending'[f][k].hits = 0
      /\ \A g \in Flushers \ {f} : pending'[g][k].hits = pending[g][k].hits
  BY <1>1, NothingTyped, KeyTypes, UpsertedFacts DEF TypeOK
<1>4. CASE f = "loop"
  BY <1>1, <1>2, <1>3, <1>4 DEF Unsaved, Flushers
<1>5. CASE f = "reindex"
  BY <1>1, <1>2, <1>3, <1>5 DEF Unsaved, Flushers
<1> QED
  BY <1>4, <1>5 DEF Flushers

\* Nothing but one row is reset.
LEMMA ResetsHits ==
    ASSUME TypeOK, Resets
    PROVE  \E k \in Keys :
               /\ rows'[k].hits = 0
               /\ \A j \in Keys \ {k} : rows'[j] = rows[j]
               /\ \A j \in Keys : Unsaved(j)' = Unsaved(j)
               /\ discarded' = discarded \cup {k}
               /\ recorded' = recorded
BY DEF Resets, TypeOK, Unsaved

LEMMA DropsHits ==
    ASSUME TypeOK, Drops
    PROVE  \E k \in Keys \cap discarded :
               /\ Unsaved(k)' \in 0..Unsaved(k)
               /\ \A j \in Keys \ {k} : Unsaved(j)' = Unsaved(j)
               /\ UNCHANGED <<rows, recorded, discarded>>
<1>1. PICK k \in Keys \cap discarded :
          dirty' = [dirty EXCEPT ![k] = NoDelta] /\ UNCHANGED <<rows, pending, history>>
  BY DEF Drops
<1>2. dirty'[k].hits = 0 /\ \A j \in Keys \ {k} : dirty'[j] = dirty[j]
  BY <1>1, NothingTyped DEF TypeOK
<1>3. Unsaved(k)' \in 0..Unsaved(k)
  BY <1>1, <1>2, KeyTypes DEF Unsaved, Flushers
<1>4. \A j \in Keys \ {k} : Unsaved(j)' = Unsaved(j)
  BY <1>1, <1>2 DEF Unsaved
<1> QED
  BY <1>1, <1>3, <1>4 DEF history

LEMMA LosesHits ==
    ASSUME TypeOK, DeltasHaveHits, Loses
    PROVE  /\ \A k \in Keys : Unsaved(k)' = 0
           /\ discarded' = discarded \cup {k \in Keys : Unsaved(k) > 0}
           /\ UNCHANGED <<rows, recorded>>
<1>1. \A k \in Keys : Unsaved(k)' = 0
  BY NothingTyped DEF Loses, Unsaved, Flushers
<1>2. ASSUME NEW k \in Keys PROVE Buffered(k) <=> Unsaved(k) > 0
  <2>1. /\ (dirty[k] # NoDelta) <=> (dirty[k].hits > 0)
        /\ \A f \in Flushers : (pending[f][k] # NoDelta) <=> (pending[f][k].hits > 0)
    <3>1. ASSUME NEW d, HasHits(d) PROVE (d # NoDelta) <=> (d.hits > 0)
      BY <3>1, NothingTyped DEF HasHits
    <3> QED
      BY <3>1 DEF DeltasHaveHits
  <2>2. dirty[k].hits \in Nat /\ \A f \in Flushers : pending[f][k].hits \in Nat
    BY KeyTypes
  <2>3. Buffered(k) <=> \/ dirty[k].hits > 0
                        \/ pending["loop"][k].hits > 0 \/ pending["reindex"][k].hits > 0
    BY <2>1 DEF Buffered, Flushers
  <2> QED
    BY <2>2, <2>3 DEF Unsaved, Flushers
<1> QED
  BY <1>1, <1>2 DEF Loses

-----------------------------------------------------------------------------
(* What every effect does to the last access of a key.                       *)

\* The last hit is known to the row, to the buffer or to a batch.
Known(k) ==
    \/ rows[k].last >= lastHit[k]
    \/ dirty[k].last >= lastHit[k]
    \/ \E f \in Flushers : pending[f][k].last >= lastHit[k]

LEMMA StatsMean ==
    StatsPreserved <=> \A k \in Keys \ discarded : Counted(k) = recorded[k] /\ Known(k)
BY DEF StatsPreserved, Known

LEMMA EffectKeepsKnown ==
    ASSUME TypeOK, TypeOK', Effect,
           NEW k \in Keys, k \notin discarded', Known(k)
    PROVE  Known(k)'
<1> USE DEF history, indexVars
<1>1. /\ rows[k].last \in Nat /\ dirty[k].last \in Nat /\ lastHit[k] \in Nat
      /\ \A f \in Flushers : pending[f][k].last \in Nat
  BY KeyTypes
<1>2. /\ rows'[k].last \in Nat /\ dirty'[k].last \in Nat /\ lastHit'[k] \in Nat
      /\ \A f \in Flushers : pending'[f][k].last \in Nat
  <2>1. /\ rows'[k] \in Rows \cup {NoRow} /\ dirty'[k] \in Deltas
        /\ \A f \in Flushers : pending'[f][k] \in Deltas
    BY DEF TypeOK
  <2> QED
    BY <2>1, NothingTyped DEF TypeOK, Rows, Deltas
<1>3. CASE Quiet
  BY <1>3 DEF Quiet, Known
<1>4. CASE Resets
  <2>1. rows'[k] = rows[k]
    BY <1>4 DEF Resets, TypeOK
  <2> QED
    BY <1>4, <2>1 DEF Resets, Known
<1>5. CASE Records
  <2>1. PICK j \in Keys, size \in Nat, now \in Nat :
            /\ dirty' = [dirty EXCEPT ![j] = Bumped(@, size, now)]
            /\ lastHit' = [lastHit EXCEPT ![j] = Later(@, now)]
            /\ UNCHANGED <<rows, pending, discarded>>
    BY <1>5 DEF Records
  <2>2. CASE j = k
    <3>1. dirty[k] \in Deltas
      BY DEF TypeOK
    <3>2. Bumped(dirty[k], size, now).last = Later(dirty[k].last, now)
      BY <3>1, BumpedFacts
    <3>3. /\ dirty'[k].last = Later(dirty[k].last, now)
          /\ lastHit'[k] = Later(lastHit[k], now)
      BY <2>1, <2>2, <3>2 DEF TypeOK
    <3>4. /\ Later(dirty[k].last, now) >= dirty[k].last /\ Later(dirty[k].last, now) >= now
          /\ Later(lastHit[k], now) = lastHit[k] \/ Later(lastHit[k], now) = now
      BY <1>1, LaterFacts
    <3>5. CASE lastHit'[k] = lastHit[k]
      BY <1>1, <1>2, <2>1, <3>3, <3>4, <3>5 DEF Known
    <3>6. CASE lastHit'[k] = now
      BY <3>3, <3>4, <3>6 DEF Known
    <3> QED
      BY <3>3, <3>4, <3>5, <3>6
  <2>3. CASE j # k
    <3>1. dirty'[k] = dirty[k] /\ lastHit'[k] = lastHit[k]
      BY <2>1, <2>3 DEF TypeOK
    <3> QED
      BY <2>1, <3>1 DEF Known
  <2> QED
    BY <2>2, <2>3
<1>6. CASE Drops
  <2>1. dirty'[k] = dirty[k]
    BY <1>6 DEF Drops, TypeOK
  <2> QED
    BY <1>6, <2>1 DEF Drops, Known
<1>7. CASE Swaps
  <2>1. PICK f \in Flushers :
            /\ pending[f] = NoBatch
            /\ pending' = [pending EXCEPT ![f] = dirty]
            /\ UNCHANGED <<rows, history>>
    BY <1>7 DEF Swaps, Swap
  <2>2. /\ pending'[f][k] = dirty[k]
        /\ \A g \in Flushers \ {f} : pending'[g][k] = pending[g][k]
        /\ pending[f][k].last = 0
    BY <2>1, NothingTyped DEF TypeOK
  <2>3. CASE pending[f][k].last >= lastHit[k]
    <3>1. dirty[k].last >= lastHit[k]
      BY <1>1, <2>2, <2>3
    <3> QED
      BY <2>1, <2>2, <3>1 DEF Known
  <2>4. CASE ~(pending[f][k].last >= lastHit[k])
    BY <2>1, <2>2, <2>4 DEF Known
  <2> QED
    BY <2>3, <2>4
<1>8. CASE Commits
  <2>1. PICK f \in Flushers :
            /\ rows' = [j \in Keys |-> Upserted(rows[j], pending[f][j])]
            /\ pending' = [pending EXCEPT ![f] = NoBatch]
            /\ UNCHANGED <<dirty, history>>
    BY <1>8 DEF Commits, Commit
  <2>2. \A g \in Flushers \ {f} : pending'[g][k] = pending[g][k]
    BY <2>1 DEF TypeOK
  <2>3. rows[k] \in Rows \cup {NoRow} /\ pending[f][k] \in Deltas
    BY DEF TypeOK
  <2>4. rows'[k].last >= rows[k].last /\ rows'[k].last >= pending[f][k].last
    BY <2>1, <2>3, UpsertedFacts
  <2> QED
    BY <1>1, <1>2, <2>1, <2>2, <2>4 DEF Known
<1>9. CASE Requeues
  <2>1. PICK f \in Flushers :
            /\ dirty' = [j \in Keys |-> Requeued(dirty[j], pending[f][j])]
            /\ pending' = [pending EXCEPT ![f] = NoBatch]
            /\ UNCHANGED <<rows, history>>
    BY <1>9 DEF Requeues, requeue
  <2>2. \A g \in Flushers \ {f} : pending'[g][k] = pending[g][k]
    BY <2>1 DEF TypeOK
  <2>3. dirty[k] \in Deltas /\ pending[f][k] \in Deltas
    BY DEF TypeOK
  <2>4. dirty'[k].last >= dirty[k].last /\ dirty'[k].last >= pending[f][k].last
    BY <2>1, <2>3, RequeuedFacts
  <2> QED
    BY <1>1, <1>2, <2>1, <2>2, <2>4 DEF Known
<1>10. CASE Upserts
  <2>1. PICK j \in Keys, size \in Sizes \cup {0}, now \in Nat :
            /\ rows' = [rows EXCEPT ![j] = Upsert(@, size, now)]
            /\ UNCHANGED <<dirty, pending, history>>
    BY <1>10 DEF Upserts
  <2>2. rows'[k].last >= rows[k].last
    <3>1. CASE j = k
      <4>1. rows[k] \in Rows \cup {NoRow} /\ rows'[k] = Upsert(rows[k], size, now)
        BY <2>1, <3>1 DEF TypeOK
      <4> QED
        BY <4>1, UpsertFacts
    <3>2. CASE j # k
      BY <1>1, <2>1, <3>2 DEF TypeOK
    <3> QED
      BY <3>1, <3>2
  <2> QED
    BY <1>1, <1>2, <2>1, <2>2 DEF Known
<1>11. CASE Loses
  \* The key's buffer and batches were empty, or it would be discarded now.
  <2>1. /\ UNCHANGED <<rows, lastHit>> /\ dirty'[k] = NoDelta
        /\ \A f \in Flushers : pending'[f][k] = NoDelta
    BY <1>11, NothingTyped DEF Loses
  <2>2. dirty[k] = NoDelta /\ \A f \in Flushers : pending[f][k] = NoDelta
    BY <1>11 DEF Loses, Buffered
  <2> QED
    BY <2>1, <2>2 DEF Known
<1> QED
  BY <1>3, <1>4, <1>5, <1>6, <1>7, <1>8, <1>9, <1>10, <1>11 DEF Effect

-----------------------------------------------------------------------------
(* The invariant.                                                            *)

\* Row, buffer and batches know of no more hits after the step than before, but
\* for the one that it records.
LEMMA EffectKeepsCounts ==
    ASSUME TypeOK, TypeOK', DeltasHaveHits, Effect, NEW k \in Keys
    PROVE  /\ Counted(k) <= recorded[k] => (Counted(k) <= recorded[k])'
           /\ Counted(k) = recorded[k] /\ k \notin discarded' => (Counted(k) = recorded[k])'
<1>1. /\ rows[k].hits \in Nat /\ Unsaved(k) \in Nat /\ recorded[k] \in Nat
  BY KeyTypes, UnsavedNat
<1>2. CASE Quiet \/ Swaps \/ Requeues \/ Upserts
  <2>1. SameHits
    BY <1>2, QuietHits, SwapsHits, RequeuesHits, UpsertsHits
  <2>2. recorded' = recorded
    BY <1>2 DEF Quiet, Swaps, Requeues, Upserts, history
  <2> QED
    BY <2>1, <2>2 DEF SameHits, Counted
<1>3. CASE Records
  <2>1. PICK j \in Keys :
            /\ Unsaved(j)' = Unsaved(j) + 1
            /\ recorded' = [recorded EXCEPT ![j] = @ + 1]
            /\ \A i \in Keys \ {j} : Unsaved(i)' = Unsaved(i)
            /\ rows' = rows
    BY <1>3, RecordsHits
  <2>2. CASE j = k
    <3>1. recorded'[k] = recorded[k] + 1
      BY <2>1, <2>2 DEF TypeOK
    <3> QED
      BY <1>1, <2>1, <2>2, <3>1 DEF Counted
  <2>3. CASE j # k
    <3>1. recorded'[k] = recorded[k] /\ Unsaved(k)' = Unsaved(k)
      BY <2>1, <2>3 DEF TypeOK
    <3> QED
      BY <2>1, <3>1 DEF Counted
  <2> QED
    BY <2>2, <2>3
<1>4. CASE Resets
  <2>1. PICK j \in Keys :
            /\ rows'[j].hits = 0
            /\ \A i \in Keys \ {j} : rows'[i] = rows[i]
            /\ \A i \in Keys : Unsaved(i)' = Unsaved(i)
            /\ discarded' = discarded \cup {j}
            /\ recorded' = recorded
    BY <1>4, ResetsHits
  <2>2. Unsaved(k)' = Unsaved(k)
    BY <2>1
  <2>3. CASE j = k
    <3>1. rows'[k].hits = 0 /\ k \in discarded'
      BY <2>1, <2>3
    <3> QED
      BY <1>1, <2>1, <2>2, <3>1 DEF Counted
  <2>4. CASE j # k
    BY <2>1, <2>2, <2>4 DEF Counted
  <2> QED
    BY <2>3, <2>4
<1>5. CASE Drops
  <2>1. PICK j \in Keys \cap discarded :
            /\ Unsaved(j)' \in 0..Unsaved(j)
            /\ \A i \in Keys \ {j} : Unsaved(i)' = Unsaved(i)
            /\ UNCHANGED <<rows, recorded, discarded>>
    BY <1>5, DropsHits
  <2>2. CASE j = k
    <3>1. Unsaved(k)' \in 0..Unsaved(k) /\ k \in discarded'
      BY <2>1, <2>2
    <3> QED
      BY <1>1, <2>1, <3>1 DEF Counted
  <2>3. CASE j # k
    BY <2>1, <2>3 DEF Counted
  <2> QED
    BY <2>2, <2>3
<1>6. CASE Commits
  <2>1. rows'[k].hits + Unsaved(k)' = rows[k].hits + Unsaved(k)
    BY <1>6, CommitsHits
  <2>2. recorded' = recorded
    BY <1>6 DEF Commits, history
  <2> QED
    BY <2>1, <2>2 DEF Counted
<1>7. CASE Loses
  <2>1. /\ Unsaved(k)' = 0
        /\ Unsaved(k) > 0 => k \in discarded'
        /\ UNCHANGED <<rows, recorded>>
    BY <1>7, LosesHits
  <2> QED
    BY <1>1, <2>1 DEF Counted
<1> QED
  BY <1>2, <1>3, <1>4, <1>5, <1>6, <1>7 DEF Effect

LEMMA DiscardedGrows ==
    ASSUME Effect
    PROVE  discarded \subseteq discarded'
BY DEF Effect, Quiet, Resets, Records, Drops, Swaps, Commits, Requeues, Upserts, Loses, history

LEMMA InitInv == Init => IndInv
<1> SUFFICES ASSUME Init PROVE IndInv
  OBVIOUS
<1> USE NothingTyped DEF Flushers
<1>1. TypeOK
  <2>1. PICK s \in InitialStates : disk = s.disk /\ rows = s.rows
    BY DEF Init
  <2>2. disk \in [Keys -> Sizes \cup {Absent}] /\ rows \in [Keys -> Rows \cup {NoRow}]
    BY <2>1, InitialStatesAssumption DEF States
  <2>3. \A k \in Keys : rows[k].hits \in Nat /\ rows[k].last \in Nat
    BY <2>2 DEF Rows
  <2> QED
    BY <2>2, <2>3, BoundsAssumption DEF Init, TypeOK
<1>2. Shapes
  BY DEF Init, Shapes, JobStates, ReindexStates, AutoReindex, ReindexDone, Idle
<1>3. DropsDiscarded /\ BatchWithFlush
  BY DEF Init, DropsDiscarded, BatchWithFlush, AutoReindex, ReindexDone, Idle
<1>4. \A k \in Keys : /\ dirty[k] = NoDelta
                      /\ \A f \in Flushers : pending[f][k] = NoDelta
  BY DEF Init
<1>5. DeltasHaveHits
  BY <1>4 DEF DeltasHaveHits, HasHits
<1>6. ASSUME NEW k \in Keys PROVE Counted(k) = recorded[k] /\ Known(k)
  <2>1. recorded[k] = rows[k].hits /\ lastHit[k] = rows[k].last
    BY DEF Init
  <2>2. rows[k].hits \in Nat /\ rows[k].last \in Nat
    BY <1>1, KeyTypes
  <2> QED
    BY <1>4, <2>1, <2>2 DEF Counted, Unsaved, Known
<1>7. NoHitCountedTwice /\ StatsPreserved
  <2>1. \A k \in Keys : Counted(k) <= recorded[k]
    BY <1>1, <1>6, KeyTypes
  <2> QED
    BY <1>6, <2>1, StatsMean DEF NoHitCountedTwice
<1> QED
  BY <1>1, <1>2, <1>3, <1>5, <1>7 DEF IndInv

LEMMA StepInv == IndInv /\ [Next]_vars => IndInv'
<1> SUFFICES ASSUME IndInv, [Next]_vars PROVE IndInv'
  OBVIOUS
<1>1. Effect /\ LocalKept
  BY StepHasEffect DEF IndInv, Local
<1>2. TypeOK'
  BY <1>1, EffectKeepsTypes DEF IndInv
<1>3. DeltasHaveHits'
  BY <1>1, EffectKeepsHasHits DEF IndInv
<1>4. NoHitCountedTwice'
  BY <1>1, <1>2, EffectKeepsCounts DEF IndInv, NoHitCountedTwice
<1>5. StatsPreserved'
  <2>1. ASSUME NEW k \in Keys \ discarded' PROVE (Counted(k) = recorded[k])' /\ Known(k)'
    <3>1. k \notin discarded
      BY <1>1, DiscardedGrows
    <3>2. Counted(k) = recorded[k] /\ Known(k)
      BY <3>1, StatsMean DEF IndInv
    <3> QED
      BY <1>1, <1>2, <3>2, EffectKeepsCounts, EffectKeepsKnown DEF IndInv
  <2>2. (StatsPreserved <=> \A k \in Keys \ discarded : Counted(k) = recorded[k] /\ Known(k))'
    BY StatsMean, PTL
  <2> QED
    BY <2>1, <2>2
<1> QED
  BY <1>1, <1>2, <1>3, <1>4, <1>5 DEF IndInv, LocalKept

\* The inductive invariant holds in every reachable state.
THEOREM IndexInvariance == Spec => []IndInv
<1> QED
  BY InitInv, StepInv, PTL DEF Spec

\* Rows, buffer, batches and histories keep their types whatever flushes,
\* reindexes, evictions and crashes overlap.
THEOREM IndexTypeCorrect == Spec => []TypeOK
<1>1. IndInv => TypeOK
  BY DEF IndInv
<1> QED
  BY <1>1, IndexInvariance, PTL

\* No hit is counted twice, for any number of workers and with any flushes that
\* overlap, fail and are put back (Flush, requeue).
THEOREM HitsCountedOnce == Spec => []NoHitCountedTwice
<1>1. IndInv => NoHitCountedTwice
  BY DEF IndInv
<1> QED
  BY <1>1, IndexInvariance, PTL

\* The statistics of a key that nobody reset are complete, and its last access is
\* known, for any number of workers and any jobs beside them (Flush, requeue, Upsert).
THEOREM StatsComplete == Spec => []StatsPreserved
<1>1. IndInv => StatsPreserved
  BY DEF IndInv
<1> QED
  BY <1>1, IndexInvariance, PTL

-----------------------------------------------------------------------------
(* The refinement.                                                           *)

LEMMA InitRefines == Init => Ledger!Init
<1> SUFFICES ASSUME Init PROVE Ledger!Init
  OBVIOUS
<1>1. IndInv
  BY InitInv
<1>2. \A k \in Keys : rows[k].hits \in Nat
  BY <1>1, KeyTypes DEF IndInv
<1>3. \A k \in Keys : Unsaved(k) = 0
  BY NothingTyped DEF Init, Unsaved, Flushers
<1> QED
  BY <1>2, <1>3 DEF Init, Ledger!Init

LEMMA StepRefines == IndInv /\ [Next]_vars => [Ledger!Next]_(Ledger!ledger)
<1> SUFFICES ASSUME IndInv, [Next]_vars PROVE [Ledger!Next]_(Ledger!ledger)
  OBVIOUS
<1> DEFINE S == [k \in Keys |-> rows[k].hits]
           U == [k \in Keys |-> Unsaved(k)]
<1>1. TypeOK /\ DeltasHaveHits /\ Effect
  BY StepHasEffect DEF IndInv, Local
<1>2. CASE Quiet \/ Swaps \/ Requeues \/ Upserts
  <2>1. SameHits
    BY <1>1, <1>2, QuietHits, SwapsHits, RequeuesHits, UpsertsHits
  <2>2. discarded' = discarded
    BY <1>2 DEF Quiet, Swaps, Requeues, Upserts, history
  <2> QED
    BY <2>1, <2>2 DEF SameHits, Ledger!ledger
<1>3. CASE Records
  <2>1. PICK k \in Keys :
            /\ Unsaved(k)' = Unsaved(k) + 1
            /\ \A j \in Keys \ {k} : Unsaved(j)' = Unsaved(j)
            /\ UNCHANGED <<rows, discarded>>
    BY <1>1, <1>3, RecordsHits
  <2>2. Ledger!Record(k)
    BY <2>1 DEF Ledger!Record
  <2> QED
    BY <2>2 DEF Ledger!Next
<1>4. CASE Resets
  <2>1. PICK k \in Keys :
            /\ rows'[k].hits = 0
            /\ \A j \in Keys \ {k} : rows'[j] = rows[j]
            /\ \A j \in Keys : Unsaved(j)' = Unsaved(j)
            /\ discarded' = discarded \cup {k}
    BY <1>1, <1>4, ResetsHits
  <2>2. Ledger!Reset(k)
    BY <2>1 DEF Ledger!Reset
  <2> QED
    BY <2>2 DEF Ledger!Next
<1>5. CASE Drops
  <2>1. PICK k \in Keys \cap discarded :
            /\ Unsaved(k)' \in 0..Unsaved(k)
            /\ \A j \in Keys \ {k} : Unsaved(j)' = Unsaved(j)
            /\ UNCHANGED <<rows, discarded>>
    BY <1>1, <1>5, DropsHits
  <2>2. Ledger!Drop(k)
    BY <2>1 DEF Ledger!Drop
  <2> QED
    BY <2>2 DEF Ledger!Next
<1>6. CASE Commits
  <2>1. \A k \in Keys : /\ rows'[k].hits + Unsaved(k)' = rows[k].hits + Unsaved(k)
                        /\ rows'[k].hits >= rows[k].hits
    BY <1>1, <1>6, CommitsHits
  <2>2. discarded' = discarded
    BY <1>6 DEF Commits, history
  <2>3. Ledger!Save
    BY <2>1, <2>2 DEF Ledger!Save
  <2> QED
    BY <2>3 DEF Ledger!Next
<1>7. CASE Loses
  <2>1. /\ \A k \in Keys : Unsaved(k)' = 0
        /\ discarded' = discarded \cup {k \in Keys : Unsaved(k) > 0}
        /\ rows' = rows
    BY <1>1, <1>7, LosesHits
  <2>2. Ledger!Crash
    BY <2>1 DEF Ledger!Crash
  <2> QED
    BY <2>2 DEF Ledger!Next
<1> QED
  BY <1>1, <1>2, <1>3, <1>4, <1>5, <1>6, <1>7 DEF Effect

\* The index with its buffer, batches, transactions, jobs and crashes implements
\* the ledger of hits (Flush, requeue, Upsert, Insert, Delete).
THEOREM IndexImplementsLedger == Spec => ImplementsLedger
<1> QED
  BY InitRefines, StepRefines, IndexInvariance, PTL DEF Spec, ImplementsLedger, Ledger!Spec

-----------------------------------------------------------------------------
(* An exact index.  A reindex that ends without an error leaves rows for the *)
(* entries on disk, beside any number of workers, flushes that overlap and   *)
(* fail, and crashes of the serve process.  The argument is about one key    *)
(* that no worker writes.  Whatever the others do to its row meanwhile, a    *)
(* row they make has the size that is on disk, and a row they delete has no  *)
(* entry (RowSound); so once the walk has dealt with the key it stays        *)
(* settled (WalkOf).                                                         *)

\* Hits on their way to the table have the size of an entry that is there.
Sized(d, k) == d # NoDelta => d.size = disk[k]

JobOf(w, k) ==
    job[w].at \in {"insert", "recordHit", "deleteRow"} /\ job[w].key = k =>
        /\ job[w].at # "insert"
        /\ job[w].at = "recordHit" => job[w].size = disk[k]
        /\ job[w].at = "deleteRow" => disk[k] = Absent

HitsOf(k) ==
    /\ Sized(dirty[k], k)
    /\ \A f \in Flushers : Sized(pending[f][k], k)
    /\ \A w \in Workers : JobOf(w, k)

RowRight(k) == rows[k].size = disk[k]

\* What a reindex leaves of a key: a storage error that it dropped costs the row
\* or its size.
Settled(k) == RowRight(k) \/ (k \in dropped /\ rows[k].size \in {Absent, 0})

\* What is known of the key at each place of the reindex.
WalkOf(k) ==
    /\ reindex.at \in {"walk", "size", "upsert"} =>
        /\ k \in reindex.seen => disk[k] # Absent
        /\ disk[k] # Absent => k \in reindex.seen \cup reindex.listed \cup dropped
    /\ reindex.at = "walk" => (k \in reindex.seen => Settled(k))
    /\ reindex.at \in {"size", "upsert"} =>
        /\ reindex.key \in reindex.seen
        /\ k \in reindex.seen \ {reindex.key} => Settled(k)
    /\ reindex.at = "upsert" /\ reindex.key = k =>
        reindex.size = disk[k] \/ (k \in dropped /\ reindex.size = 0)
    /\ reindex.at \in {"orphans", "dropHits"} =>
        /\ k \in reindex.left => disk[k] = Absent \/ k \in dropped
        /\ k \notin reindex.left => Settled(k)
    /\ reindex = ReindexDone(TRUE) => Settled(k)

\* Where the eviction is before it deletes anything.
Untouched == {"idle", "nothing", "list", "failed"}

ExactInv ==
    evict.at \in Untouched => \A k \in Keys \ written : HitsOf(k) /\ WalkOf(k)

\* A step leaves the row alone, makes or keeps it right, or deletes it when there
\* is no entry.
RowSound(k) ==
    /\ rows'[k].size = rows[k].size \/ rows'[k].size = disk[k]
    /\ disk[k] = Absent => rows'[k] = rows[k] \/ rows'[k] = NoRow

-----------------------------------------------------------------------------
LEMMA StoredFacts ==
    ASSUME TypeOK, NEW k \in Keys
    PROVE  /\ k \in StoredKeys <=> disk[k] # Absent
           /\ k \in IndexedKeys <=> rows[k] # NoRow
           /\ rows[k] = NoRow <=> rows[k].size = Absent
           /\ disk[k] # Absent => disk[k] \in Nat
<1>1. rows[k] = NoRow <=> rows[k].size = Absent
  <2>1. \A r \in Rows : r.size # Absent
    BY DEF Rows, Absent
  <2>2. rows[k] \in Rows \cup {NoRow} /\ NoRow.size = Absent
    BY DEF TypeOK, NoRow
  <2> QED
    BY <2>1, <2>2
<1> QED
  BY <1>1, BoundsAssumption DEF TypeOK, StoredKeys, IndexedKeys

\* A batch that goes into the table makes right rows, and only for entries.
LEMMA CommitSound ==
    ASSUME TypeOK, NEW k \in Keys, HitsOf(k), NEW f \in Flushers, Commit(f)
    PROVE  RowSound(k)
<1> SUFFICES /\ rows'[k].size = rows[k].size \/ rows'[k].size = disk[k]
             /\ disk[k] = Absent => rows'[k] = rows[k]
  BY DEF RowSound
<1>1. rows'[k] = Upserted(rows[k], pending[f][k])
  BY DEF Commit
<1>2. /\ rows[k] \in Rows \cup {NoRow} /\ pending[f][k] \in Deltas
      /\ pending[f][k] # NoDelta => pending[f][k].size = disk[k]
  BY DEF TypeOK, HitsOf, Sized
<1>3. CASE pending[f][k] = NoDelta
  BY <1>1, <1>3 DEF Upserted
<1>4. CASE pending[f][k] # NoDelta
  <2>1. disk[k] # Absent
    BY <1>2, <1>4 DEF Deltas, Absent
  <2>2. CASE rows[k] = NoRow
    BY <1>1, <1>2, <1>4, <2>1, <2>2 DEF Upserted
  <2>3. CASE rows[k] # NoRow
    <3>1. rows'[k] = [rows[k] EXCEPT !.last = Later(rows[k].last, pending[f][k].last),
                                     !.hits = rows[k].hits + pending[f][k].hits]
      BY <1>1, <1>4, <2>3 DEF Upserted
    <3>2. rows'[k].size = rows[k].size
      BY <1>2, <2>3, <3>1 DEF Rows
    <3> QED
      BY <2>1, <3>2
  <2> QED
    BY <2>2, <2>3
<1> QED
  BY <1>3, <1>4

\* Buffer and batches stay sized while a flush moves them.
LEMMA FlushSized ==
    ASSUME TypeOK, NEW k \in Keys, HitsOf(k), NEW f \in Flushers,
           Swap(f) \/ Commit(f) \/ requeue(f), disk'[k] = disk[k], job' = job
    PROVE  HitsOf(k)'
<1> USE NothingTyped
<1>1. /\ dirty'[k] # NoDelta => dirty'[k].size = disk[k]
      /\ \A g \in Flushers : pending'[g][k] # NoDelta => pending'[g][k].size = disk[k]
  <2>1. /\ dirty[k] \in Deltas /\ \A g \in Flushers : pending[g][k] \in Deltas
        /\ dirty[k] # NoDelta => dirty[k].size = disk[k]
        /\ \A g \in Flushers : pending[g][k] # NoDelta => pending[g][k].size = disk[k]
    BY DEF TypeOK, HitsOf, Sized
  <2>2. CASE Swap(f)
    BY <2>1, <2>2 DEF Swap, TypeOK
  <2>3. CASE Commit(f)
    BY <2>1, <2>3 DEF Commit, TypeOK
  <2>4. CASE requeue(f)
    <3>1. dirty'[k] = Requeued(dirty[k], pending[f][k])
      BY <2>4 DEF requeue
    <3>2. \A g \in Flushers : pending'[g][k] \in {pending[g][k], NoDelta}
      BY <2>4 DEF requeue, TypeOK
    <3>3. CASE pending[f][k] = NoDelta
      BY <2>1, <3>1, <3>2, <3>3 DEF Requeued
    <3>4. CASE pending[f][k] # NoDelta /\ dirty[k] = NoDelta
      BY <2>1, <3>1, <3>2, <3>4 DEF Requeued
    <3>5. CASE pending[f][k] # NoDelta /\ dirty[k] # NoDelta
      <4>1. dirty'[k] = [dirty[k] EXCEPT !.hits = dirty[k].hits + pending[f][k].hits,
                                         !.last = Later(dirty[k].last, pending[f][k].last)]
        BY <3>1, <3>5 DEF Requeued
      <4>2. dirty'[k].size = dirty[k].size
        BY <2>1, <4>1 DEF Deltas
      <4> QED
        BY <2>1, <3>2, <3>5, <4>2
    <3> QED
      BY <3>3, <3>4, <3>5
  <2> QED
    BY <2>2, <2>3, <2>4
<1> QED
  BY <1>1 DEF HitsOf, Sized, JobOf

\* All that a step of the others may do, as far as the reindex and this key are
\* concerned.
Harmless(k) == disk'[k] = disk[k] /\ RowSound(k) /\ HitsOf(k)'

LEMMA WorkerHarmless ==
    ASSUME IndInv, NEW k \in Keys, HitsOf(k), k \notin written',
           NEW w \in Workers, Worker(w)
    PROVE  Harmless(k) /\ UNCHANGED <<reindex, dropped>>
<1> USE NothingTyped
<1>1. /\ TypeOK /\ job \in [Workers -> JobStates] /\ Idle.at = "idle"
      /\ Sized(dirty[k], k) /\ \A f \in Flushers : Sized(pending[f][k], k)
      /\ \A v \in Workers : JobOf(v, k)
  BY DEF IndInv, Shapes, HitsOf, Idle
<1>2. ASSUME NEW j, Goto(w, j),
             j.at \in {"insert", "recordHit", "deleteRow"} /\ j.key = k =>
                 /\ j.at # "insert"
                 /\ j.at = "recordHit" => j.size = disk[k]
                 /\ j.at = "deleteRow" => disk[k] = Absent,
             disk'[k] = disk[k], UNCHANGED pending, Sized(dirty'[k], k)
      PROVE  HitsOf(k)'
  <2>1. \A v \in Workers : job'[v] = job[v] \/ job'[v] = j
    BY <1>1, <1>2 DEF Goto
  <2>2. \A v \in Workers : JobOf(v, k)'
    BY <1>1, <1>2, <2>1 DEF JobOf
  <2> QED
    BY <1>1, <1>2, <2>2 DEF HitsOf, Sized
<1>3. ASSUME NEW i \in Keys, GetFound(w, i) \/ NotFound(w, i)
      PROVE  Harmless(k) /\ UNCHANGED <<reindex, dropped>>
  <2>1. UNCHANGED <<disk, rows, dirty, pending, reindex, dropped>>
    BY <1>3 DEF GetFound, NotFound, indexVars, marks
  <2>2. HitsOf(k)'
    BY <1>1, <1>2, <1>3, <2>1 DEF GetFound, NotFound
  <2> QED
    BY <2>1, <2>2 DEF Harmless, RowSound
<1>4. CASE InsertFails(w) \/ DeleteRowFails(w)
  <2>1. UNCHANGED <<disk, rows, dirty, pending, reindex, dropped>> /\ Goto(w, Idle)
    BY <1>4 DEF InsertFails, DeleteRowFails, indexVars, marks
  <2>2. HitsOf(k)'
    BY <1>1, <1>2, <2>1
  <2> QED
    BY <2>1, <2>2 DEF Harmless, RowSound
<1>5. CASE RecordHit(w)
  <2>1. /\ UNCHANGED <<disk, rows, pending, reindex, dropped>> /\ Goto(w, Idle)
        /\ dirty' = [dirty EXCEPT ![job[w].key] = Bumped(@, job[w].size, job[w].now)]
        /\ job[w].key = k => job[w].size = disk[k]
    BY <1>1, <1>5 DEF RecordHit, JobOf, marks
  <2>2. \A d : Bumped(d, job[w].size, job[w].now).size = job[w].size
    BY DEF Bumped
  <2>3. Sized(dirty'[k], k)
    BY <1>1, <2>1, <2>2 DEF TypeOK, Sized
  <2>4. HitsOf(k)'
    BY <1>1, <1>2, <2>1, <2>3
  <2> QED
    BY <2>1, <2>4 DEF Harmless, RowSound
<1>6. CASE Insert(w)
  <2>1. /\ UNCHANGED <<disk, dirty, pending, reindex, dropped>> /\ Goto(w, Idle)
        /\ rows' = [rows EXCEPT ![job[w].key] = job[w].row]
        /\ job[w].key # k
    BY <1>1, <1>6 DEF Insert, JobOf, marks
  <2>2. HitsOf(k)'
    BY <1>1, <1>2, <2>1
  <2>3. rows'[k] = rows[k]
    BY <1>1, <2>1 DEF TypeOK
  <2> QED
    BY <2>1, <2>2, <2>3 DEF Harmless, RowSound
<1>7. CASE DeleteRow(w)
  <2>1. /\ job[w] \in [at : {"deleteRow", "dropHits"}, key : Keys]
        /\ job[w].key = k => disk[k] = Absent
    BY <1>1, <1>7, JobFacts DEF DeleteRow, JobOf, IndInv
  <2> DEFINE j == [job[w] EXCEPT !.at = "dropHits"]
  <2>2. /\ UNCHANGED <<disk, dirty, pending, reindex, dropped>> /\ Goto(w, j) /\ j.at = "dropHits"
        /\ rows' = [rows EXCEPT ![job[w].key] = NoRow]
    BY <1>7, <2>1 DEF DeleteRow, marks
  <2>3. HitsOf(k)'
    BY <1>1, <1>2, <2>2
  <2>4. RowSound(k)
    BY <1>1, <2>1, <2>2, StoredFacts DEF RowSound, TypeOK, NoRow
  <2> QED
    BY <2>2, <2>3, <2>4 DEF Harmless
<1>8. CASE DropHits(w)
  <2>1. /\ UNCHANGED <<disk, rows, pending, reindex, dropped>> /\ Goto(w, Idle)
        /\ dirty' = [dirty EXCEPT ![job[w].key] = NoDelta]
    BY <1>8 DEF DropHits, marks
  <2>2. Sized(dirty'[k], k)
    BY <1>1, <2>1 DEF TypeOK, Sized
  <2>3. HitsOf(k)'
    BY <1>1, <1>2, <2>1, <2>2
  <2> QED
    BY <2>1, <2>3 DEF Harmless, RowSound
\* Puts and deletes of other keys.
<1>9. ASSUME NEW i \in Keys, NEW size, NEW j, Goto(w, j), i \in written',
             disk' = [disk EXCEPT ![i] = size], j.key = i,
             UNCHANGED <<rows, dirty, pending, reindex, dropped>>
      PROVE  Harmless(k) /\ UNCHANGED <<reindex, dropped>>
  <2>1. i # k /\ disk'[k] = disk[k]
    BY <1>1, <1>9 DEF TypeOK
  <2>2. HitsOf(k)'
    BY <1>1, <1>2, <1>9, <2>1
  <2> QED
    BY <1>9, <2>1, <2>2 DEF Harmless, RowSound
<1>10. ASSUME NEW i \in Keys, PutStore(w, i) PROVE Harmless(k) /\ UNCHANGED <<reindex, dropped>>
  <2>1. PICK size \in Sizes :
            /\ disk' = [disk EXCEPT ![i] = size]
            /\ Goto(w, [at |-> "insert", key |-> i,
                        row |-> [size |-> size, last |-> clock, hits |-> 0]])
    BY <1>10 DEF PutStore
  <2>2. i \in written' /\ UNCHANGED <<rows, dirty, pending, reindex, dropped>>
    BY <1>10 DEF PutStore, indexVars
  <2> QED
    BY <1>9, <2>1, <2>2
<1>11. ASSUME NEW i \in Keys, DeleteEntry(w, i)
       PROVE  Harmless(k) /\ UNCHANGED <<reindex, dropped>>
  <2>1. /\ disk' = [disk EXCEPT ![i] = Absent] /\ i \in written'
        /\ Goto(w, [at |-> "deleteRow", key |-> i])
        /\ UNCHANGED <<rows, dirty, pending, reindex, dropped>>
    BY <1>11 DEF DeleteEntry, indexVars
  <2> QED
    BY <1>9, <2>1
<1> QED
  BY <1>3, <1>4, <1>5, <1>6, <1>7, <1>8, <1>10, <1>11 DEF Worker

LEMMA OthersHarmless ==
    ASSUME IndInv, NEW k \in Keys, HitsOf(k), FlushLoop \/ Stop \/ Tick
    PROVE  Harmless(k) /\ UNCHANGED <<reindex, dropped>>
<1> USE DEF Flushers
<1>1. TypeOK
  BY DEF IndInv
<1>2. ASSUME Commit("loop"), UNCHANGED <<disk, job, reindex, dropped>>
      PROVE  Harmless(k) /\ UNCHANGED <<reindex, dropped>>
  BY <1>1, <1>2, CommitSound, FlushSized DEF Harmless
<1>3. ASSUME Swap("loop") \/ requeue("loop"), UNCHANGED <<disk, rows, job, reindex, dropped>>
      PROVE  Harmless(k) /\ UNCHANGED <<reindex, dropped>>
  BY <1>1, <1>3, FlushSized DEF Harmless, RowSound
<1>4. ASSUME UNCHANGED <<disk, rows, dirty, pending, job, reindex, dropped>>
      PROVE  Harmless(k) /\ UNCHANGED <<reindex, dropped>>
  BY <1>4 DEF Harmless, RowSound, HitsOf, Sized, JobOf
<1>5. CASE LoopFlush
  BY <1>3, <1>5 DEF LoopFlush, marks
<1>6. CASE LoopCommit
  BY <1>2, <1>6 DEF LoopCommit, marks
<1>7. CASE LoopRequeue
  BY <1>3, <1>7 DEF LoopRequeue, requeue, marks
<1>8. CASE LastFlush
  BY <1>3, <1>4, <1>8 DEF LastFlush, marks
<1>9. CASE Stop \/ Tick
  BY <1>4, <1>9 DEF Stop, Tick, indexVars, marks
<1> QED
  BY <1>5, <1>6, <1>7, <1>8, <1>9 DEF FlushLoop

\* What the walk has settled survives the steps of the others.
LEMMA WalkSurvives ==
    ASSUME TypeOK, NEW k \in Keys, WalkOf(k), Harmless(k), UNCHANGED <<reindex, dropped>>
    PROVE  WalkOf(k)'
<1>1. Settled(k) => Settled(k)'
  BY DEF Harmless, RowSound, RowRight, Settled
<1>2. disk'[k] = disk[k]
  BY DEF Harmless
<1> QED
  BY <1>1, <1>2 DEF WalkOf

LEMMA ReindexSound ==
    ASSUME IndInv, NEW k \in Keys, HitsOf(k), WalkOf(k), Reindex
    PROVE  /\ HitsOf(k)' /\ WalkOf(k)'
           /\ dropped \subseteq dropped'
           /\ RowRight(k) => RowRight(k)' \/ k \in dropped'
<1> USE DEF Flushers
<1> DEFINE Goal == /\ HitsOf(k)' /\ WalkOf(k)'
                   /\ dropped \subseteq dropped'
                   /\ RowRight(k) => RowRight(k)' \/ k \in dropped'
<1>1. /\ TypeOK /\ reindex \in ReindexStates
      /\ \A ok \in BOOLEAN : ReindexDone(ok).at = "done"
      /\ ReindexDone(FALSE) # ReindexDone(TRUE)
  BY DEF IndInv, Shapes, ReindexDone
\* Nothing but reindex and what it dropped changes.
<1>2. ASSUME UNCHANGED <<disk, indexVars, job>>, dropped \subseteq dropped'
      PROVE  /\ HitsOf(k)' /\ (Settled(k) => Settled(k)')
             /\ RowRight(k) => RowRight(k)' \/ k \in dropped'
  BY <1>2 DEF HitsOf, Sized, JobOf, RowRight, Settled, indexVars
<1>3. ASSUME reindex'.at \notin {"walk", "size", "upsert", "orphans", "dropHits"},
             reindex' # ReindexDone(TRUE)
      PROVE  WalkOf(k)'
  BY <1>3 DEF WalkOf
<1>4. CASE ReindexStart
  <2>1. WalkOf(k)'
    BY <1>1, <1>3, <1>4 DEF ReindexStart, ReindexDone
  <2>2. UNCHANGED <<disk, rows, job, dropped>>
    BY <1>4 DEF ReindexStart, marks
  <2>3. HitsOf(k)'
    BY <1>1, <1>2, <1>4, <2>2, FlushSized DEF ReindexStart, indexVars
  <2> QED
    BY <2>1, <2>2, <2>3 DEF RowRight
<1>5. CASE ReindexCommit \/ ReindexRequeue
  <2>1. WalkOf(k)'
    BY <1>1, <1>3, <1>5 DEF ReindexCommit, ReindexRequeue, ReindexDone
  <2>2. UNCHANGED <<disk, job, dropped>>
    BY <1>5 DEF ReindexCommit, ReindexRequeue, marks
  <2>3. HitsOf(k)'
    BY <1>1, <1>5, <2>2, FlushSized DEF ReindexCommit, ReindexRequeue
  <2>4. RowRight(k) => RowRight(k)'
    <3>1. CASE ReindexCommit
      BY <1>1, <2>2, <3>1, CommitSound DEF ReindexCommit, RowSound, RowRight
    <3>2. CASE ReindexRequeue
      BY <2>2, <3>2 DEF ReindexRequeue, requeue, RowRight
    <3> QED
      BY <1>5, <3>1, <3>2
  <2> QED
    BY <2>1, <2>2, <2>3, <2>4
<1>6. CASE ReindexList
  <2>1. /\ reindex' = [at |-> "walk", listed |-> StoredKeys, seen |-> {}]
        /\ UNCHANGED <<disk, indexVars, job, dropped>>
    BY <1>6 DEF ReindexList, marks
  <2>2. WalkOf(k)'
    BY <1>1, <2>1, StoredFacts DEF WalkOf, ReindexDone
  <2> QED
    BY <1>2, <2>1, <2>2
<1>7. ASSUME NEW i \in Keys, ReindexRead(i) \/ ReindexSkip(i) PROVE Goal
  <2>1. /\ reindex \in [at : {"walk"}, listed : SUBSET Keys, seen : SUBSET Keys]
        /\ k \in reindex.seen => disk[k] # Absent
        /\ disk[k] # Absent => k \in reindex.seen \cup reindex.listed \cup dropped
        /\ k \in reindex.seen => Settled(k)
    BY <1>7, ReindexFacts DEF IndInv, ReindexRead, ReindexSkip, WalkOf
  <2>2. UNCHANGED <<disk, indexVars, job>> /\ dropped \subseteq dropped'
    BY <1>7 DEF ReindexRead, ReindexSkip, marks
  <2>3. WalkOf(k)'
    <3>1. CASE ReindexRead(i)
      <4>1. /\ reindex' = [at |-> "size", listed |-> reindex.listed \ {i},
                           seen |-> reindex.seen \cup {i}, key |-> i]
            /\ disk[i] # Absent
        BY <3>1 DEF ReindexRead
      <4> QED
        BY <1>1, <1>2, <2>1, <2>2, <4>1 DEF WalkOf, ReindexDone
    <3>2. CASE ReindexSkip(i)
      <4>1. /\ reindex' = [at |-> "walk", listed |-> reindex.listed \ {i}, seen |-> reindex.seen]
            /\ disk[i] = Absent \/ i \in dropped'
        <5>1. reindex' = [reindex EXCEPT !.listed = reindex.listed \ {i}]
          BY <3>2 DEF ReindexSkip
        <5> QED
          BY <2>1, <3>2, <5>1 DEF ReindexSkip
      <4> QED
        BY <1>1, <1>2, <2>1, <2>2, <4>1 DEF WalkOf, ReindexDone
    <3> QED
      BY <1>7, <3>1, <3>2
  <2> QED
    BY <1>2, <2>2, <2>3
<1>8. CASE ReindexSize
  <2>1. /\ reindex \in [at : {"size"}, listed : SUBSET Keys, seen : SUBSET Keys, key : Keys]
        /\ k \in reindex.seen => disk[k] # Absent
        /\ disk[k] # Absent => k \in reindex.seen \cup reindex.listed \cup dropped
        /\ reindex.key \in reindex.seen
        /\ k \in reindex.seen \ {reindex.key} => Settled(k)
    BY <1>8, ReindexFacts DEF IndInv, ReindexSize, WalkOf
  <2>2. UNCHANGED <<disk, indexVars, job>> /\ dropped \subseteq dropped'
    BY <1>8 DEF ReindexSize
  <2>3. \E size :
            /\ reindex' = [at |-> "upsert", listed |-> reindex.listed, seen |-> reindex.seen,
                           key |-> reindex.key, size |-> size]
            /\ \/ size = disk[reindex.key]
               \/ disk[reindex.key] = Absent
               \/ reindex.key \in dropped' /\ size = 0
    BY <1>8 DEF ReindexSize
  <2>4. WalkOf(k)'
    BY <1>1, <1>2, <2>1, <2>2, <2>3 DEF WalkOf, ReindexDone
  <2> QED
    BY <1>2, <2>2, <2>4
<1>9. CASE ReindexUpsert
  <2>1. /\ reindex \in [at : {"upsert"}, listed : SUBSET Keys, seen : SUBSET Keys,
                        key : Keys, size : Sizes \cup {0}]
        /\ k \in reindex.seen => disk[k] # Absent
        /\ disk[k] # Absent => k \in reindex.seen \cup reindex.listed \cup dropped
        /\ k \in reindex.seen \ {reindex.key} => Settled(k)
        /\ reindex.key = k => reindex.size = disk[k] \/ (k \in dropped /\ reindex.size = 0)
    BY <1>9, ReindexFacts DEF IndInv, ReindexUpsert, WalkOf
  <2>2. /\ reindex' = [at |-> "walk", listed |-> reindex.listed, seen |-> reindex.seen]
        /\ rows' = [rows EXCEPT ![reindex.key] = Upsert(@, reindex.size, clock)]
        /\ UNCHANGED <<disk, dirty, pending, job, dropped>>
    BY <1>9 DEF ReindexUpsert, marks
  <2>3. HitsOf(k)'
    BY <2>2 DEF HitsOf, Sized, JobOf
  <2>4. reindex.key = k => rows'[k].size = reindex.size
    <3>1. rows[k] \in Rows \cup {NoRow}
      BY <1>1 DEF TypeOK
    <3>2. Upsert(rows[k], reindex.size, clock).size = reindex.size
      BY <3>1 DEF Upsert, Rows
    <3>3. reindex.key = k => rows'[k] = Upsert(rows[k], reindex.size, clock)
      BY <1>1, <2>2 DEF TypeOK
    <3> QED
      BY <3>2, <3>3
  <2>5. reindex.key # k => rows'[k] = rows[k]
    BY <1>1, <2>2 DEF TypeOK
  <2>6. /\ k \in reindex.seen => Settled(k)'
        /\ RowRight(k) => RowRight(k)' \/ k \in dropped'
    BY <2>1, <2>2, <2>4, <2>5 DEF Settled, RowRight
  <2>7. WalkOf(k)'
    BY <1>1, <2>1, <2>2, <2>6 DEF WalkOf, ReindexDone
  <2> QED
    BY <2>2, <2>3, <2>6, <2>7
<1>10. CASE ReindexAllKeys
  <2>1. /\ reindex.at = "walk" /\ reindex.listed = {}
        /\ reindex' = [at |-> "orphans", left |-> IndexedKeys \ reindex.seen]
        /\ UNCHANGED <<disk, indexVars, job, dropped>>
    BY <1>10 DEF ReindexAllKeys, Orphans, marks
  <2>2. /\ disk[k] # Absent => k \in reindex.seen \cup dropped
        /\ k \in reindex.seen => Settled(k)
    BY <2>1 DEF WalkOf
  <2>3. k \notin IndexedKeys => rows[k].size = Absent
    BY <1>1, StoredFacts
  <2>4. k \notin IndexedKeys \ reindex.seen => Settled(k)
    BY <2>2, <2>3 DEF Settled, RowRight
  <2>5. WalkOf(k)'
    BY <1>1, <1>2, <2>1, <2>2, <2>4 DEF WalkOf, ReindexDone, indexVars
  <2> QED
    BY <1>2, <2>1, <2>5
<1>11. ASSUME NEW i \in Keys, ReindexDeleteRow(i) PROVE Goal
  <2>1. /\ i \in reindex.left
        /\ k \in reindex.left => disk[k] = Absent \/ k \in dropped
        /\ k \notin reindex.left => Settled(k)
    BY <1>11 DEF ReindexDeleteRow, WalkOf
  <2>2. /\ rows' = [rows EXCEPT ![i] = NoRow]
        /\ reindex' = [at |-> "dropHits", left |-> reindex.left \ {i}, key |-> i]
        /\ UNCHANGED <<disk, dirty, pending, job, dropped>>
    BY <1>11 DEF ReindexDeleteRow, marks
  <2>3. HitsOf(k)'
    BY <2>2 DEF HitsOf, Sized, JobOf
  <2>4. /\ rows'[k] = IF k = i THEN NoRow ELSE rows[k]
        /\ NoRow.size = Absent
    BY <1>1, <2>2 DEF TypeOK, NoRow
  <2>5. /\ k \notin reindex.left \ {i} => Settled(k)'
        /\ RowRight(k) => RowRight(k)' \/ k \in dropped'
    BY <2>1, <2>2, <2>4 DEF Settled, RowRight
  <2>6. WalkOf(k)'
    BY <1>1, <2>1, <2>2, <2>5 DEF WalkOf, ReindexDone
  <2> QED
    BY <2>2, <2>3, <2>5, <2>6
<1>12. CASE ReindexDropHits
  <2>1. /\ reindex' = [at |-> "orphans", left |-> reindex.left]
        /\ reindex.at = "dropHits"
        /\ UNCHANGED <<disk, rows, pending, job, dropped>>
        /\ dirty'[k] \in {dirty[k], NoDelta}
    BY <1>1, <1>12 DEF ReindexDropHits, TypeOK, marks
  <2>2. HitsOf(k)'
    BY <2>1 DEF HitsOf, Sized, JobOf
  <2>3. WalkOf(k)'
    BY <1>1, <2>1 DEF WalkOf, ReindexDone, Settled, RowRight
  <2> QED
    BY <2>1, <2>2, <2>3 DEF RowRight
<1>13. CASE ReindexEnd
  <2>1. /\ Settled(k)
        /\ reindex' = ReindexDone(TRUE)
        /\ UNCHANGED <<disk, indexVars, job, dropped>>
    BY <1>13 DEF ReindexEnd, WalkOf, marks
  <2>2. WalkOf(k)'
    BY <1>1, <1>2, <2>1 DEF WalkOf
  <2> QED
    BY <1>2, <2>1, <2>2
<1>14. CASE ReindexFails
  <2>1. UNCHANGED <<disk, indexVars, job, dropped>>
    BY <1>14 DEF ReindexFails, marks
  <2> QED
    BY <1>1, <1>2, <1>3, <1>14, <2>1 DEF ReindexFails
<1> QED
  BY <1>4, <1>5, <1>6, <1>7, <1>8, <1>9, <1>10, <1>11, <1>12, <1>13, <1>14 DEF Reindex

LEMMA CrashSound ==
    ASSUME NEW k \in Keys, HitsOf(k), WalkOf(k), Crash
    PROVE  HitsOf(k)' /\ WalkOf(k)'
<1>1. HitsOf(k)'
  BY NothingTyped DEF Crash, HitsOf, Sized, JobOf, Idle
<1>2. reindex' \in {Idle, ReindexDone(FALSE), reindex}
  BY DEF Crash, AutoReindex
<1>3. CASE reindex' = reindex
  <2>1. UNCHANGED <<disk, rows, dropped>>
    BY DEF Crash, marks
  <2> QED
    BY <1>1, <1>3, <2>1 DEF WalkOf, Settled, RowRight
<1>4. CASE reindex' \in {Idle, ReindexDone(FALSE)}
  <2>1. /\ reindex'.at \in {"idle", "done"}
        /\ reindex' # ReindexDone(TRUE)
    BY <1>4 DEF Idle, ReindexDone
  <2> QED
    BY <1>1, <2>1 DEF WalkOf
<1> QED
  BY <1>1, <1>2, <1>3, <1>4

\* While the eviction has deleted nothing, none of its steps has changed anything.
LEMMA EvictWaits ==
    ASSUME IndInv, Evict, evict'.at \in Untouched
    PROVE  /\ evict.at \in Untouched
           /\ UNCHANGED <<disk, rows, dirty, pending, job, reindex, marks>>
<1> USE DEF Untouched
<1>1. "at" \in DOMAIN evict /\ Idle.at = "idle"
  BY DEF IndInv, Shapes, Idle
<1>2. CASE EvictTotal
  BY <1>1, <1>2 DEF EvictTotal, indexVars
<1>3. CASE EvictList \/ EvictListFails
  BY <1>1, <1>3 DEF EvictList, EvictListFails, indexVars
<1>4. CASE EvictDeleteRow \/ EvictDeleteRowFails \/ EvictEnd
  <2>1. evict'.at \in {"next", "done"}
    BY <1>1, <1>4 DEF EvictDeleteRow, EvictDeleteRowFails, EvictEnd
  <2> QED
    BY <2>1
<1>5. ASSUME NEW k \in Keys, EvictForecast(k) \/ EvictDelete(k) \/ EvictDeleteFails(k)
      PROVE  FALSE
  <2>1. evict'.at \in {"next", "deleteRow"}
    BY <1>1, <1>5 DEF EvictForecast, EvictDelete, EvictDeleteFails
  <2> QED
    BY <2>1
<1> QED
  BY <1>2, <1>3, <1>4, <1>5 DEF Evict

\* What the steps of all but the eviction leave alone, and what they never undo.
OnlyMarks ==
    /\ evict' = evict
    /\ written \subseteq written' /\ dropped \subseteq dropped'
    /\ written' = {} => disk' = disk

LEMMA OnlyEvict ==
    ASSUME [Next]_vars, ~ Evict
    PROVE  OnlyMarks
<1>1. CASE UNCHANGED vars
  BY <1>1 DEF vars, marks, OnlyMarks
<1>2. ASSUME NEW w \in Workers, Worker(w) PROVE OnlyMarks
  BY <1>2
  DEF Worker, PutStore, GetFound, NotFound, DeleteEntry, Insert, InsertFails, RecordHit,
      DeleteRow, DeleteRowFails, DropHits, marks, OnlyMarks
<1>3. ASSUME FlushLoop \/ Stop \/ Tick \/ Crash PROVE OnlyMarks
  BY <1>3
  DEF FlushLoop, LoopFlush, LoopCommit, LoopRequeue, LastFlush, Stop, Tick, Crash, marks,
      OnlyMarks
<1>4. ASSUME Reindex PROVE OnlyMarks
  BY <1>4
  DEF Reindex, ReindexStart, ReindexCommit, ReindexRequeue, ReindexList, ReindexRead,
      ReindexSkip, ReindexSize, ReindexUpsert, ReindexAllKeys, ReindexDeleteRow,
      ReindexDropHits, ReindexEnd, ReindexFails, marks, OnlyMarks
<1> QED
  BY <1>1, <1>2, <1>3, <1>4 DEF Next

LEMMA InitExact == Init => ExactInv
<1> SUFFICES ASSUME Init, NEW k \in Keys PROVE HitsOf(k) /\ WalkOf(k)
  BY DEF ExactInv
<1>1. HitsOf(k)
  BY NothingTyped DEF Init, HitsOf, Sized, JobOf, Idle, Flushers
<1>2. WalkOf(k)
  BY DEF Init, WalkOf, AutoReindex, ReindexDone, Idle
<1> QED
  BY <1>1, <1>2

LEMMA StepExact == IndInv /\ ExactInv /\ [Next]_vars => ExactInv'
<1> SUFFICES ASSUME IndInv, ExactInv, [Next]_vars, evict'.at \in Untouched,
                    NEW k \in Keys, k \notin written'
             PROVE  HitsOf(k)' /\ WalkOf(k)'
  BY DEF ExactInv
<1>1. TypeOK
  BY DEF IndInv
<1>2. ASSUME UNCHANGED <<disk, rows, dirty, pending, job, reindex, marks>>,
             evict.at \in Untouched
      PROVE  HitsOf(k)' /\ WalkOf(k)'
  <2>1. HitsOf(k) /\ WalkOf(k)
    BY <1>2 DEF ExactInv, marks
  <2> QED
    BY <1>2, <2>1 DEF HitsOf, Sized, JobOf, WalkOf, Settled, RowRight, marks
<1>3. CASE UNCHANGED vars
  BY <1>2, <1>3 DEF vars, indexVars
<1>4. CASE Evict
  BY <1>2, <1>4, EvictWaits
<1>5. ASSUME ~ Evict PROVE HitsOf(k) /\ WalkOf(k)
  BY <1>5, OnlyEvict DEF OnlyMarks, ExactInv
<1>6. CASE ~ Evict /\ ((\E w \in Workers : Worker(w)) \/ FlushLoop \/ Stop \/ Tick)
  <2>1. HitsOf(k) /\ WalkOf(k)
    BY <1>5, <1>6
  <2>2. Harmless(k) /\ UNCHANGED <<reindex, dropped>>
    BY <1>6, <2>1, WorkerHarmless, OthersHarmless
  <2> QED
    BY <1>1, <2>1, <2>2, WalkSurvives DEF Harmless
<1>7. CASE ~ Evict /\ Reindex
  BY <1>5, <1>7, ReindexSound
<1>8. CASE ~ Evict /\ Crash
  BY <1>5, <1>8, CrashSound
<1> QED
  BY <1>3, <1>4, <1>6, <1>7, <1>8 DEF Next

\* While the eviction has deleted nothing, what a reindex has dealt with stays settled for
\* every key that no worker writes (Cache.Reindex).
THEOREM ExactInvariance == Spec => []ExactInv
<1>1. Spec => []IndInv
  BY IndexInvariance
<1>2. Spec => Init /\ [][Next]_vars
  BY DEF Spec
<1> QED
  BY <1>1, <1>2, InitExact, StepExact, PTL

\* When nothing is evicted, a reindex that ends without an error has made the table exact
\* for every key that no worker wrote, but for a row or a size that a storage error it
\* dropped has cost; for any number of entries and workers, whatever drift there was and
\* whatever puts, deletes, hits and crashes there are (Cache.Walk, Cache.Reindex).
THEOREM ReindexIsExact == Spec => []ReindexExact
<1>1. ASSUME ExactInv, reindex = ReindexDone(TRUE), evict = Idle, NEW k \in Keys \ written
      PROVE  rows[k].size = disk[k] \/ (k \in dropped /\ rows[k].size \in {Absent, 0})
  <2>1. evict.at \in Untouched
    BY <1>1 DEF Idle, Untouched
  <2>2. WalkOf(k)
    BY <1>1, <2>1 DEF ExactInv
  <2>3. Settled(k)
    BY <1>1, <2>2 DEF WalkOf
  <2> QED
    BY <2>3 DEF Settled, RowRight
<1>2. ExactInv => ReindexExact
  BY <1>1 DEF ReindexExact
<1> QED
  BY <1>2, ExactInvariance, PTL
-----------------------------------------------------------------------------
(* Sums.  MapThenSumSet is a recursion over subsets; a set of as many units  *)
(* as the sum gives it meaning without one.                                  *)

\* f[x] units for each x of T, and their number.
Units(f, T) == UNION {{x} \X (1..f[x]) : x \in T}

Weight(f, T) == Cardinality(Units(f, T))

LEMMA UnitsFinite ==
    ASSUME NEW f, NEW T, IsFiniteSet(T), \A x \in T : f[x] \in Nat
    PROVE  IsFiniteSet(Units(f, T)) /\ Weight(f, T) \in Nat
<1> DEFINE g == [x \in T |-> {x} \X (1..f[x])]
<1> DEFINE G == {{x} \X (1..f[x]) : x \in T}
<1>1. g \in Surjection(T, G)
  BY DEF Surjection
<1>2. IsFiniteSet(G)
  BY <1>1, FS_Surjection
<1>3. ASSUME NEW u \in G PROVE IsFiniteSet(u)
  <2>1. PICK x \in T : u = {x} \X (1..f[x])
    BY <1>3
  <2>2. IsFiniteSet({x})
    BY FS_Singleton
  <2>3. f[x] \in Int /\ 1 \in Int
    OBVIOUS
  <2>4. IsFiniteSet(1..f[x])
    BY <2>3, FS_Interval
  <2> QED
    BY <2>1, <2>2, <2>4, FS_Product
<1>4. IsFiniteSet(UNION G)
  BY <1>2, <1>3, FS_UNION
<1> QED
  BY <1>4, FS_CardinalityType DEF Units, Weight

LEMMA WeightFacts ==
    ASSUME NEW f, NEW T, IsFiniteSet(T), \A x \in T : f[x] \in Nat
    PROVE  /\ Weight(f, {}) = 0
           /\ \A x \in T : Weight(f, T) = f[x] + Weight(f, T \ {x})
<1>1. Units(f, {}) = {}
  BY DEF Units
<1>2. Weight(f, {}) = 0
  BY <1>1, FS_EmptySet DEF Weight
<1>3. ASSUME NEW x \in T PROVE Weight(f, T) = f[x] + Weight(f, T \ {x})
  <2> DEFINE A == {x} \X (1..f[x])
  <2> DEFINE B == Units(f, T \ {x})
  <2>1. Units(f, T) = A \cup B
    BY DEF Units
  <2>2. A \cap B = {}
    BY DEF Units
  <2>3. IsFiniteSet(A) /\ Cardinality(A) = f[x]
    <3>1. IsFiniteSet({x}) /\ Cardinality({x}) = 1
      BY FS_Singleton
    <3>2. IsFiniteSet(1..f[x]) /\ Cardinality(1..f[x]) = f[x]
      BY FS_Interval
    <3>3. IsFiniteSet(A) /\ Cardinality(A) = 1 * f[x]
      BY <3>1, <3>2, FS_Product
    <3> QED
      BY <3>3
  <2>4. IsFiniteSet(T \ {x})
    BY FS_RemoveElement
  <2>5. IsFiniteSet(B) /\ Cardinality(B) \in Nat
    BY <2>4, UnitsFinite DEF Weight
  <2>6. Cardinality(A \cup B) = Cardinality(A) + Cardinality(B) - Cardinality(A \cap B)
    BY <2>3, <2>5, FS_Union
  <2>7. Cardinality(A \cap B) = 0
    BY <2>2, FS_EmptySet
  <2> QED
    BY <2>1, <2>3, <2>5, <2>6, <2>7 DEF Weight
<1> QED
  BY <1>2, <1>3

Fst(s) == CHOOSE x \in s : TRUE

\* h adds up f over the subsets of S, as MapThenSumSet does.
AddsUp(h, f, S) == h = [s \in SUBSET S |-> IF s = {} THEN 0 ELSE f[Fst(s)] + h[s \ {Fst(s)}]]

LEMMA AdderExists ==
    ASSUME NEW f, NEW S, IsFiniteSet(S), \A x \in S : f[x] \in Nat
    PROVE  \E h : AddsUp(h, f, S)
<1> DEFINE h == [s \in SUBSET S |-> Weight(f, s)]
<1>1. ASSUME NEW s \in SUBSET S
      PROVE  h[s] = IF s = {} THEN 0 ELSE f[Fst(s)] + h[s \ {Fst(s)}]
  <2>1. IsFiniteSet(s)
    BY FS_Subset
  <2>2. CASE s = {}
    BY <2>1, <2>2, WeightFacts
  <2>3. CASE s # {}
    <3>1. Fst(s) \in s
      BY <2>3 DEF Fst
    <3> QED
      BY <2>1, <2>3, <3>1, WeightFacts
  <2> QED
    BY <2>2, <2>3
<1>2. AddsUp(h, f, S)
  BY <1>1 DEF AddsUp
<1> QED
  BY <1>2

LEMMA AdderIsWeight ==
    ASSUME NEW f, NEW S, IsFiniteSet(S), \A x \in S : f[x] \in Nat,
           NEW h, AddsUp(h, f, S)
    PROVE  h[S] = Weight(f, S)
<1> DEFINE Wrong == {n \in Nat : \E s \in SUBSET S : Cardinality(s) = n /\ h[s] # Weight(f, s)}
<1>1. ASSUME Wrong # {} PROVE FALSE
  <2>1. PICK n \in Wrong : \A m \in Wrong : ~(<<m, n>> \in OpToRel(<, Nat))
    BY <1>1, NatLessThanWellFounded, WFMin
  <2>2. \A m \in Wrong : ~(m < n)
    BY <2>1 DEF OpToRel
  <2>3. PICK s \in SUBSET S : Cardinality(s) = n /\ h[s] # Weight(f, s)
    BY <2>1
  <2>4. IsFiniteSet(s) /\ \A x \in s : f[x] \in Nat
    BY FS_Subset
  <2>5. h[s] = IF s = {} THEN 0 ELSE f[Fst(s)] + h[s \ {Fst(s)}]
    BY DEF AddsUp
  <2>6. s # {}
    BY <2>3, <2>4, <2>5, WeightFacts
  <2> DEFINE r == s \ {Fst(s)}
  <2>7. Fst(s) \in s
    BY <2>6 DEF Fst
  <2>8. Cardinality(r) = n - 1 /\ Cardinality(r) \in Nat
    BY <2>3, <2>4, <2>7, FS_RemoveElement, FS_CardinalityType
  <2>9. n - 1 \notin Wrong
    BY <2>2, <2>8
  <2>10. h[r] = Weight(f, r)
    BY <2>8, <2>9
  <2>11. Weight(f, s) = f[Fst(s)] + Weight(f, r)
    BY <2>4, <2>7, WeightFacts
  <2> QED
    BY <2>3, <2>5, <2>6, <2>10, <2>11
<1>2. Cardinality(S) \in Nat
  BY FS_CardinalityType
<1> QED
  BY <1>1, <1>2

LEMMA SumIsWeight ==
    ASSUME NEW f, NEW S, IsFiniteSet(S), \A x \in S : f[x] \in Nat
    PROVE  MapThenSumSet(LAMBDA k : f[k], S) = Weight(f, S)
<1> DEFINE c == CHOOSE h : AddsUp(h, f, S)
<1>1. MapThenSumSet(LAMBDA k : f[k], S) = c[S]
  BY DEF MapThenSumSet, MapThenFoldSet, AddsUp, Fst
<1>2. AddsUp(c, f, S)
  BY AdderExists
<1> QED
  BY <1>1, <1>2, AdderIsWeight
-----------------------------------------------------------------------------
(* What an eviction takes, while no request writes.  The two sums of the     *)
(* command and of its property are weights of the same sizes: those that the *)
(* directory had when the eviction began and the index agreed with it.       *)

\* The local variables of the eviction, at each place.
Plans   == [at : {"nothing"}, start : States, dry : BOOLEAN, taken : {{}}]
Needs   == [at : {"list", "failed"}, start : States, dry : BOOLEAN, taken : {{}}, need : Nat]
Takings ==
    [at : {"next", "deleteRow", "done"}, start : States, dry : BOOLEAN,
     taken : SUBSET Keys, need : Nat, freed : Nat, failed : BOOLEAN, left : SUBSET Keys,
     listed : UNION {[S -> Rows] : S \in SUBSET Keys}, now : Nat,
     key : Keys \cup {CHOOSE k \in Keys : TRUE}]

EvictStates == {Idle} \cup Plans \cup Needs \cup Takings

\* The index agreed with the directory when the eviction began.
Matched == \A k \in Keys : evict.start.rows[k].size = evict.start.disk[k]

\* The entries that there were then, and the weight of their bodies.
StoredAtStart == {k \in Keys : evict.start.disk[k] # Absent}

StartWeight == Weight(evict.start.disk, StoredAtStart)

\* Before the candidates are listed nothing has changed, but for newer hits.
Waiting ==
    /\ evict.at \in {"nothing", "list"} => disk = evict.start.disk
    /\ evict.at = "nothing" => StartWeight <= TargetSize
    /\ evict.at = "list" =>
        /\ \A k \in Keys : RowRight(k)
        /\ StartWeight > TargetSize
        /\ evict.need = StartWeight - TargetSize

\* A candidate was an entry of the listed size, and is old enough.
Candidates == \A k \in DOMAIN evict.listed :
    /\ k \in StoredAtStart
    /\ evict.listed[k].size = evict.start.disk[k]
    /\ MinAge > 0 => evict.listed[k].last < evict.now - MinAge

\* Entries go one by one from the candidates, and only from them.
Progress ==
    /\ \A k \in Keys : disk[k] \in {evict.start.disk[k], Absent}
    /\ IF evict.dry THEN disk = evict.start.disk ELSE evict.taken = {}
    /\ evict.left \subseteq DOMAIN evict.listed /\ evict.left \subseteq Left
    /\ Evicted \subseteq DOMAIN evict.listed
    /\ ~evict.failed => DOMAIN evict.listed \subseteq evict.left \cup Evicted

\* What is freed is what is gone, and the entry that went last was needed.
Account ==
    /\ StartWeight > TargetSize
    /\ evict.need = StartWeight - TargetSize
    /\ evict.freed = Weight(evict.start.disk, Evicted)
    /\ Evicted # {} => \E k \in Evicted : evict.freed - evict.start.disk[k] < evict.need
    /\ evict.at = "done" => Enough \/ evict.left = {}

\* Those gone were used no later than those left.
InOrder == ~evict.failed =>
    \A k \in Evicted, j \in evict.left : evict.listed[k].last <= evict.listed[j].last

Taking == evict.at \in {"next", "deleteRow", "done"} =>
    Candidates /\ Progress /\ Account /\ InOrder

\* No request wrote, and no reindex dropped a storage error.
Undisturbed == written = {} /\ dropped = {}

\* The cutoff of --min-age is a time after the epoch.
AgeSensible == MinAge < StartClock

EvictInv ==
    /\ evict \in EvictStates
    /\ evict.at \in {"next", "deleteRow"} => evict.left \subseteq DOMAIN evict.listed
    /\ clock >= StartClock
    /\ Undisturbed /\ AgeSensible /\ evict.at # "idle" /\ Matched => Waiting /\ Taking

-----------------------------------------------------------------------------
LEMMA EvictPlaces ==
    ASSUME evict \in EvictStates
    PROVE  /\ evict.at = "idle" <=> evict = Idle
           /\ evict.at = "nothing" <=> evict \in Plans
           /\ evict.at \in {"list", "failed"} <=> evict \in Needs
           /\ evict.at \in {"next", "deleteRow", "done"} <=> evict \in Takings
           /\ evict.at \in {"idle", "nothing", "list", "failed", "next", "deleteRow", "done"}
<1>1. Idle.at = "idle" /\ (\A e \in Plans : e.at = "nothing")
  BY DEF Idle, Plans
<1>2. \A e \in Needs : e.at \in {"list", "failed"}
  BY DEF Needs
<1>3. \A e \in Takings : e.at \in {"next", "deleteRow", "done"}
  BY DEF Takings
<1> QED
  BY <1>1, <1>2, <1>3 DEF EvictStates

LEMMA EvictMarks ==
    ASSUME Evict
    PROVE  UNCHANGED marks
  BY DEF Evict, EvictTotal, EvictList, EvictListFails, EvictForecast, EvictDelete,
         EvictDeleteFails, EvictDeleteRow, EvictDeleteRowFails, EvictEnd

LEMMA ClockGrows ==
    ASSUME TypeOK, [Next]_vars
    PROVE  clock' >= clock
<1>1. clock \in Nat
  BY DEF TypeOK
<1>2. CASE Tick
  BY <1>1, <1>2 DEF Tick
<1>3. CASE UNCHANGED clock
  BY <1>1, <1>3
<1>4. ASSUME Next, ~ Tick PROVE UNCHANGED clock
  <2>1. ASSUME NEW w \in Workers, Worker(w) PROVE UNCHANGED clock
    BY <2>1
    DEF Worker, PutStore, GetFound, NotFound, DeleteEntry, Insert, InsertFails, RecordHit,
        DeleteRow, DeleteRowFails, DropHits
  <2>2. ASSUME FlushLoop \/ Stop \/ Crash PROVE UNCHANGED clock
    BY <2>2 DEF FlushLoop, LoopFlush, LoopCommit, LoopRequeue, LastFlush, Stop, Crash
  <2>3. ASSUME Reindex PROVE UNCHANGED clock
    BY <2>3
    DEF Reindex, ReindexStart, ReindexCommit, ReindexRequeue, ReindexList, ReindexRead,
        ReindexSkip, ReindexSize, ReindexUpsert, ReindexAllKeys, ReindexDeleteRow,
        ReindexDropHits, ReindexEnd, ReindexFails
  <2>4. ASSUME Evict PROVE UNCHANGED clock
    BY <2>4
    DEF Evict, EvictTotal, EvictList, EvictListFails, EvictForecast, EvictDelete, EvictDeleteFails,
        EvictDeleteRow, EvictDeleteRowFails, EvictEnd
  <2> QED
    BY <1>4, <2>1, <2>2, <2>3, <2>4 DEF Next
<1> QED
  BY <1>2, <1>3, <1>4 DEF vars

\* The sum of --target-size is a weight.
LEMMA TotalIsWeight ==
    ASSUME TypeOK, NEW f, \A k \in IndexedKeys : f[k] = rows[k].size
    PROVE  /\ TotalBodySize = Weight(f, IndexedKeys)
           /\ TotalBodySize \in Nat
<1>1. IsFiniteSet(IndexedKeys)
  BY BoundsAssumption, FS_Subset DEF IndexedKeys
<1>2. \A k \in IndexedKeys : f[k] \in Nat
  BY DEF TypeOK, IndexedKeys, Rows
<1> DEFINE P(h) == h = [s \in SUBSET IndexedKeys |->
                          IF s = {} THEN 0 ELSE rows[Fst(s)].size + h[s \ {Fst(s)}]]
<1> DEFINE c == CHOOSE h : P(h)
<1>3. TotalBodySize = c[IndexedKeys]
  BY DEF TotalBodySize, MapThenSumSet, MapThenFoldSet, Fst
<1>4. ASSUME NEW h PROVE P(h) <=> AddsUp(h, f, IndexedKeys)
  <2>1. \A s \in SUBSET IndexedKeys : s # {} => f[Fst(s)] = rows[Fst(s)].size
    BY DEF Fst
  <2> QED
    BY <2>1 DEF AddsUp
<1>5. \E h : P(h)
  BY <1>1, <1>2, <1>4, AdderExists
<1>6. P(c)
  BY <1>5
<1>7. AddsUp(c, f, IndexedKeys)
  BY <1>4, <1>6
<1>8. c[IndexedKeys] = Weight(f, IndexedKeys)
  BY <1>1, <1>2, <1>7, AdderIsWeight
<1>9. Weight(f, IndexedKeys) \in Nat
  BY <1>1, <1>2, UnitsFinite
<1> QED
  BY <1>3, <1>8, <1>9

LEMMA IndexedAreRows ==
    ASSUME TypeOK, NEW k \in IndexedKeys
    PROVE  k \in Keys /\ rows[k] \in Rows
  BY DEF TypeOK, IndexedKeys

\* The local variables of the eviction keep their shape.
LEMMA EvictTypes ==
    ASSUME IndInv, EvictInv, Evict
    PROVE  /\ evict' \in EvictStates
           /\ evict'.at \in {"next", "deleteRow"} => evict'.left \subseteq DOMAIN evict'.listed
<1> USE DEF EvictStates
<1>1. TypeOK /\ evict \in EvictStates
  BY DEF IndInv, EvictInv
<1>2. /\ evict.at = "list" => evict \in Needs
      /\ evict.at \in {"next", "deleteRow"} =>
            /\ evict \in Takings
            /\ evict.left \subseteq DOMAIN evict.listed
            /\ \A k \in evict.left : evict.listed[k].size \in Nat
  <2>1. evict \in Takings => \A k \in DOMAIN evict.listed : evict.listed[k] \in Rows
    BY DEF Takings
  <2> QED
    BY <1>1, <2>1, EvictPlaces DEF EvictInv, Rows
<1>3. CASE EvictTotal
  <2>1. [disk |-> disk, rows |-> rows] \in States
    BY <1>1 DEF TypeOK, States
  <2>2. PICK dry \in BOOLEAN :
           evict' = IF TotalBodySize <= TargetSize
                    THEN [at |-> "nothing", start |-> [disk |-> disk, rows |-> rows],
                          dry |-> dry, taken |-> {}]
                    ELSE [at |-> "list", start |-> [disk |-> disk, rows |-> rows], dry |-> dry,
                          taken |-> {}, need |-> TotalBodySize - TargetSize]
    BY <1>3 DEF EvictTotal
  <2>3. TotalBodySize \in Nat /\ TargetSize \in Nat
    <3> DEFINE f == [k \in IndexedKeys |-> rows[k].size]
    <3>1. \A k \in IndexedKeys : f[k] = rows[k].size
      OBVIOUS
    <3> HIDE DEF f
    <3> QED
      BY <1>1, <3>1, TotalIsWeight, BoundsAssumption
  <2>4. CASE TotalBodySize <= TargetSize
    BY <2>1, <2>2, <2>4 DEF Plans
  <2>5. CASE ~(TotalBodySize <= TargetSize)
    <3>1. TotalBodySize - TargetSize \in Nat
      BY <2>3, <2>5
    <3> QED
      BY <2>1, <2>2, <2>5, <3>1 DEF Needs
  <2> QED
    BY <2>4, <2>5
<1>4. CASE EvictList
  <2> DEFINE old == {k \in IndexedKeys : OldEnough(k)}
  <2>1. evict \in Needs
    BY <1>2, <1>4 DEF EvictList
  <2>2. [k \in old |-> rows[k]] \in UNION {[S -> Rows] : S \in SUBSET Keys}
    <3>1. [k \in old |-> rows[k]] \in [old -> Rows]
      BY <1>1, IndexedAreRows
    <3>2. old \in SUBSET Keys
      BY <1>1, IndexedAreRows
    <3> QED
      BY <3>1, <3>2
  <2>3. evict' = [at |-> "next", start |-> evict.start, dry |-> evict.dry, taken |-> {},
                  need |-> evict.need, freed |-> 0, failed |-> FALSE,
                  left |-> old, listed |-> [k \in old |-> rows[k]], now |-> clock,
                  key |-> CHOOSE k \in Keys : TRUE]
    BY <1>4 DEF EvictList
  <2>4. old \in SUBSET Keys /\ clock \in Nat
    BY <1>1, IndexedAreRows DEF TypeOK
  <2> HIDE DEF old
  <2>5. evict.start \in States /\ evict.dry \in BOOLEAN /\ evict.need \in Nat
    BY <2>1 DEF Needs
  <2> QED
    BY <2>2, <2>3, <2>4, <2>5 DEF Takings
<1>5. CASE EvictListFails
  BY <1>2, <1>5 DEF EvictListFails, Needs
<1>6. ASSUME NEW k \in Keys, EvictForecast(k)
      PROVE  evict' \in Takings /\ evict'.left \subseteq DOMAIN evict'.listed
  <2>1. /\ evict \in Takings /\ evict.left \subseteq DOMAIN evict.listed
        /\ evict.freed + evict.listed[k].size \in Nat
    BY <1>2, <1>6 DEF EvictForecast, Takings
  <2>2. evict' = [evict EXCEPT !.left = evict.left \ {k}, !.taken = evict.taken \cup {k},
                               !.freed = evict.freed + evict.listed[k].size]
    BY <1>6 DEF EvictForecast
  <2> QED
    BY <2>1, <2>2 DEF Takings
<1>7. ASSUME NEW k \in Keys, EvictDelete(k)
      PROVE  evict' \in Takings /\ evict'.left \subseteq DOMAIN evict'.listed
  <2> DEFINE freed == IF disk[k] = Absent THEN evict.freed
                      ELSE evict.freed + evict.listed[k].size
  <2>1. /\ evict \in Takings /\ evict.left \subseteq DOMAIN evict.listed
        /\ freed \in Nat
    BY <1>2, <1>7 DEF EvictDelete, Takings
  <2>2. evict' = [evict EXCEPT !.at = "deleteRow", !.left = evict.left \ {k}, !.key = k,
                               !.freed = freed]
    BY <1>7 DEF EvictDelete
  <2> HIDE DEF freed
  <2> QED
    BY <2>1, <2>2 DEF Takings
<1>8. ASSUME NEW k \in Keys, EvictDeleteFails(k)
      PROVE  evict' \in Takings /\ evict'.left \subseteq DOMAIN evict'.listed
  BY <1>2, <1>8 DEF EvictDeleteFails, Takings
<1>9. CASE EvictDeleteRow \/ EvictDeleteRowFails
  BY <1>2, <1>9 DEF EvictDeleteRow, EvictDeleteRowFails, Takings
<1>10. CASE EvictEnd
  BY <1>2, <1>10 DEF EvictEnd, Takings
<1> QED
  BY <1>3, <1>4, <1>5, <1>6, <1>7, <1>8, <1>9, <1>10 DEF Evict

-----------------------------------------------------------------------------
LEMMA StartFacts ==
    ASSUME evict.start \in States
    PROVE  /\ StoredAtStart \subseteq Keys /\ IsFiniteSet(StoredAtStart)
           /\ \A k \in StoredAtStart : evict.start.disk[k] \in Nat
           /\ StartWeight \in Nat
<1>1. StoredAtStart \subseteq Keys
  BY DEF StoredAtStart
<1>2. IsFiniteSet(StoredAtStart)
  BY <1>1, BoundsAssumption, FS_Subset
<1>3. \A k \in StoredAtStart : evict.start.disk[k] \in Nat
  BY BoundsAssumption DEF StoredAtStart, States
<1> QED
  BY <1>1, <1>2, <1>3, UnitsFinite DEF StartWeight

\* The plan is made from what the directory holds.
LEMMA TotalPlans ==
    ASSUME IndInv, EvictTotal, Matched'
    PROVE  Waiting' /\ Taking'
<1>1. TypeOK
  BY DEF IndInv
<1>2. evict'.start = [disk |-> disk, rows |-> rows] /\ UNCHANGED <<disk, rows>>
  BY DEF EvictTotal, indexVars
<1>3. \A k \in Keys : rows[k].size = disk[k]
  BY <1>2 DEF Matched
<1>4. StoredAtStart' = IndexedKeys
  BY <1>1, <1>2, <1>3, StoredFacts DEF StoredAtStart, StoredKeys, IndexedKeys
<1>5. TotalBodySize = Weight(disk, IndexedKeys)
  BY <1>1, <1>3, TotalIsWeight DEF IndexedKeys
<1>6. StartWeight' = TotalBodySize
  BY <1>2, <1>4, <1>5 DEF StartWeight, Weight, Units
<1>7. \/ evict'.at = "nothing" /\ TotalBodySize <= TargetSize
      \/ /\ evict'.at = "list" /\ ~(TotalBodySize <= TargetSize)
         /\ evict'.need = TotalBodySize - TargetSize
  BY DEF EvictTotal
<1>8. TotalBodySize \in Nat /\ TargetSize \in Nat
  BY <1>1, <1>3, TotalIsWeight, BoundsAssumption DEF IndexedKeys
<1>9. Waiting'
  BY <1>2, <1>3, <1>6, <1>7, <1>8 DEF Waiting, RowRight
<1>10. Taking'
  BY <1>7 DEF Taking
<1> QED
  BY <1>9, <1>10

\* The candidates are entries, and nothing is gone yet.
LEMMA ListChooses ==
    ASSUME IndInv, EvictInv, EvictList, AgeSensible, Waiting
    PROVE  Waiting' /\ Taking'
<1> DEFINE old == {k \in IndexedKeys : OldEnough(k)}
<1>1. TypeOK /\ evict \in Needs
  BY EvictPlaces DEF IndInv, EvictInv, EvictList
<1>2. /\ evict'.at = "next" /\ evict'.start = evict.start /\ evict'.taken = {}
      /\ evict'.need = evict.need /\ evict'.freed = 0 /\ evict'.failed = FALSE
      /\ evict'.left = old /\ evict'.listed = [k \in old |-> rows[k]] /\ evict'.now = clock
      /\ evict'.dry = evict.dry
      /\ UNCHANGED <<disk, rows>>
  BY DEF EvictList, indexVars
<1>3. /\ disk = evict.start.disk /\ StartWeight > TargetSize
      /\ evict.need = StartWeight - TargetSize
      /\ \A k \in Keys : rows[k].size = disk[k]
  BY DEF Waiting, EvictList, RowRight
<1>4. /\ StoredAtStart' = StoredKeys /\ StoredKeys = IndexedKeys
      /\ StartWeight' = StartWeight
  <2>1. StoredAtStart' = StoredAtStart
    BY <1>2 DEF StoredAtStart
  <2>2. StoredAtStart = StoredKeys
    BY <1>3 DEF StoredAtStart, StoredKeys
  <2>3. StoredKeys = IndexedKeys
    BY <1>1, <1>3, StoredFacts DEF StoredKeys, IndexedKeys
  <2> QED
    BY <1>2, <2>1, <2>2, <2>3 DEF StartWeight, Weight, Units
<1>5. Left' = StoredKeys /\ Evicted' = {}
  BY <1>2, <1>3 DEF Left, Evicted, StoredKeys
<1>6. old \subseteq IndexedKeys /\ IndexedKeys \subseteq Keys
  BY DEF IndexedKeys
<1>7. ASSUME NEW k \in old, MinAge > 0 PROVE rows[k].last < clock - MinAge
  <2>1. clock - MinAge > 0
    BY <1>1, BoundsAssumption DEF EvictInv, AgeSensible, TypeOK
  <2>2. OldEnough(k)
    OBVIOUS
  <2> QED
    BY <1>7, <2>1, <2>2 DEF OldEnough
<1>8. Candidates'
  BY <1>2, <1>3, <1>4, <1>6, <1>7 DEF Candidates
<1>9. Progress'
  BY <1>2, <1>3, <1>4, <1>5, <1>6 DEF Progress
<1>10. Account'
  <2>1. evict'.freed = Weight(evict'.start.disk, Evicted')
    <3>1. Weight(evict.start.disk, {}) = 0
      BY FS_EmptySet, WeightFacts
    <3> QED
      BY <1>2, <1>5, <3>1
  <2>2. StartWeight' > TargetSize /\ evict'.need = StartWeight' - TargetSize
    BY <1>2, <1>3, <1>4
  <2>3. evict'.freed = Weight(evict.start.disk, Evicted)'
    BY <2>1 DEF Weight, Units
  <2> QED
    BY <1>2, <1>5, <2>2, <2>3 DEF Account
<1>11. InOrder'
  BY <1>5 DEF InOrder
<1>12. Waiting'
  BY <1>2 DEF Waiting
<1> QED
  BY <1>8, <1>9, <1>10, <1>11, <1>12 DEF Taking

-----------------------------------------------------------------------------
(* Candidates go one by one. *)

\* What never changes once the candidates are listed.
SamePlan ==
    /\ evict'.start = evict.start /\ evict'.dry = evict.dry /\ evict'.need = evict.need
    /\ evict'.listed = evict.listed /\ evict'.now = evict.now

LEMMA PlanStays ==
    ASSUME SamePlan
    PROVE  /\ StoredAtStart' = StoredAtStart /\ StartWeight' = StartWeight
           /\ Candidates => Candidates'
<1>1. StoredAtStart' = StoredAtStart
  BY DEF SamePlan, StoredAtStart
<1>2. StartWeight' = StartWeight
  BY <1>1 DEF SamePlan, StartWeight, Weight, Units
<1> QED
  BY <1>1, <1>2 DEF SamePlan, Candidates

\* A step that takes nothing: at most a candidate is passed over, after an error.
LEMMA NothingGoes ==
    ASSUME evict \in Takings, Candidates, Progress, Account, InOrder, SamePlan,
           disk' = disk, evict'.taken = evict.taken, evict'.freed = evict.freed,
           evict'.left \subseteq evict.left,
           evict'.failed \/ (evict'.failed = evict.failed /\ evict'.left = evict.left),
           evict'.at = "done" => Enough \/ evict.left = {}
    PROVE  Candidates' /\ Progress' /\ Account' /\ InOrder'
<1>1. /\ StoredAtStart' = StoredAtStart /\ StartWeight' = StartWeight
      /\ Candidates'
  BY PlanStays
<1>2. Left' = Left /\ Evicted' = Evicted
  BY DEF SamePlan, Left, Evicted, StoredKeys
<1>3. Progress'
  BY <1>2 DEF Progress, SamePlan
<1>4. Weight(evict.start.disk, Evicted)' = Weight(evict.start.disk, Evicted)
  BY <1>2 DEF SamePlan, Weight, Units
<1>5. Account'
  BY <1>1, <1>2, <1>4 DEF Account, SamePlan, Enough
<1>6. InOrder'
  BY <1>2 DEF InOrder, SamePlan
<1> QED
  BY <1>1, <1>3, <1>5, <1>6

\* A step that takes the least recently used of the candidates left.
LEMMA OneGoes ==
    ASSUME evict \in Takings, evict' \in Takings, Candidates, Progress, Account, InOrder, SamePlan,
           ~ Enough, NEW k \in evict.left, LeastRecent(k),
           \A j \in Keys : disk'[j] \in {evict.start.disk[j], Absent},
           IF evict.dry THEN disk' = evict.start.disk ELSE evict'.taken = {},
           Left' = Left \ {k}, Evicted' = Evicted \cup {k},
           evict'.left = evict.left \ {k}, evict'.failed = evict.failed,
           evict'.freed = evict.freed + evict.listed[k].size,
           evict'.at # "done"
    PROVE  Candidates' /\ Progress' /\ Account' /\ InOrder'
<1>1. /\ StoredAtStart' = StoredAtStart /\ StartWeight' = StartWeight
      /\ Candidates'
  BY PlanStays
<1>2. /\ evict.start \in States /\ evict.freed \in Nat /\ evict.need \in Nat
      /\ evict.left \subseteq Keys
      /\ \A j \in DOMAIN evict.listed : evict.listed[j].last \in Nat
  <2>1. \A j \in DOMAIN evict.listed : evict.listed[j] \in Rows
    BY DEF Takings
  <2> QED
    BY <2>1 DEF Takings, Rows
<1>3. /\ k \in DOMAIN evict.listed /\ k \in StoredAtStart
      /\ evict.listed[k].size = evict.start.disk[k]
      /\ evict.start.disk[k] \in Nat
  BY <1>2, StartFacts DEF Candidates, Progress
<1>4. k \notin Evicted /\ Evicted \subseteq StoredAtStart
  BY DEF Progress, Evicted, StoredAtStart
<1>5. Progress'
  BY <1>3 DEF Progress, SamePlan
<1>6. Account'
  <2>1. IsFiniteSet(Evicted') /\ \A j \in Evicted' : evict.start.disk[j] \in Nat
    BY <1>2, <1>3, <1>4, StartFacts, FS_Subset
  <2>2. Weight(evict.start.disk, Evicted') =
            evict.start.disk[k] + Weight(evict.start.disk, Evicted' \ {k})
    BY <2>1, WeightFacts
  <2>3. Evicted' \ {k} = Evicted
    BY <1>4
  <2>4. evict'.freed = Weight(evict.start.disk, Evicted')
    <3>1. Weight(evict.start.disk, Evicted') = evict.start.disk[k] + evict.freed
      BY <2>2, <2>3 DEF Account
    <3>2. evict'.freed = evict.freed + evict.start.disk[k]
      BY <1>3
    <3> QED
      BY <1>2, <1>3, <3>1, <3>2
  <2>5. evict'.freed = Weight(evict.start.disk, Evicted)'
    BY <2>4 DEF SamePlan, Weight, Units
  <2>6. evict.freed < evict.need
    BY <1>2 DEF Enough
  <2>7. evict'.freed - evict'.start.disk[k] < evict'.need
    BY <1>2, <1>3, <2>6 DEF SamePlan
  <2>8. k \in Evicted'
    OBVIOUS
  <2>9. StartWeight' > TargetSize /\ evict'.need = StartWeight' - TargetSize
    BY <1>1 DEF Account, SamePlan
  <2> QED
    BY <2>5, <2>7, <2>8, <2>9 DEF Account
<1>7. InOrder'
  <2> SUFFICES ASSUME ~ evict.failed, NEW i \in Evicted \cup {k}, NEW j \in evict.left \ {k}
               PROVE  evict.listed[i].last <= evict.listed[j].last
    BY DEF InOrder, SamePlan
  <2> QED
    BY DEF InOrder, LeastRecent
<1> QED
  BY <1>1, <1>5, <1>6, <1>7

LEMMA TakingStep ==
    ASSUME IndInv, EvictInv, Evict, evict' \in EvictStates,
           evict.at \in {"next", "deleteRow", "done"}, Matched, Taking
    PROVE  /\ evict'.at \in {"next", "deleteRow", "done"}
           /\ Candidates' /\ Progress' /\ Account' /\ InOrder'
<1>1. evict \in Takings /\ Candidates /\ Progress /\ Account /\ InOrder
  BY EvictPlaces DEF EvictInv, Taking
<1>2. {"at", "start", "dry", "need", "listed", "now", "taken", "freed", "left", "failed", "key"}
          = DOMAIN evict
  BY <1>1 DEF Takings
<1>3. ~ EvictTotal /\ ~ EvictList /\ ~ EvictListFails
  BY DEF EvictTotal, EvictList, EvictListFails, Idle
<1>4. ASSUME NEW k \in Keys, EvictForecast(k)
      PROVE  /\ evict'.at = "next"
             /\ Candidates' /\ Progress' /\ Account' /\ InOrder'
  <2>1. /\ evict.at = "next" /\ evict.dry /\ ~ Enough /\ k \in evict.left /\ LeastRecent(k)
        /\ disk' = disk
    BY <1>4 DEF EvictForecast
  <2>2. /\ SamePlan /\ evict'.at = "next" /\ evict'.failed = evict.failed
        /\ evict'.left = evict.left \ {k} /\ evict'.taken = evict.taken \cup {k}
        /\ evict'.freed = evict.freed + evict.listed[k].size
    BY <1>2, <1>4 DEF EvictForecast, SamePlan
  <2>3. disk = evict.start.disk /\ k \in StoredAtStart /\ k \in Left
    BY <1>1, <2>1 DEF Progress, Candidates
  <2>4. Left' = Left \ {k}
    BY <2>1, <2>2 DEF Left, StoredKeys
  <2>5. Evicted' = Evicted \cup {k}
    BY <2>2, <2>3, <2>4 DEF Evicted, SamePlan, StoredAtStart
  <2>6. evict' \in Takings
    <3>1. \A e \in EvictStates : e.at = "next" => e \in Takings
      BY DEF EvictStates, Idle, Plans, Needs
    <3> QED
      BY <2>2, <3>1
  <2> QED
    BY <1>1, <2>1, <2>2, <2>3, <2>4, <2>5, <2>6, OneGoes
<1>5. ASSUME NEW k \in Keys, EvictDelete(k)
      PROVE  /\ evict'.at = "deleteRow"
             /\ Candidates' /\ Progress' /\ Account' /\ InOrder'
  <2>1. /\ evict.at = "next" /\ ~ evict.dry /\ ~ Enough /\ k \in evict.left /\ LeastRecent(k)
        /\ disk' = [disk EXCEPT ![k] = Absent]
    BY <1>5 DEF EvictDelete
  <2>2. evict.taken = {} /\ k \in StoredAtStart /\ k \in Left
    BY <1>1, <2>1 DEF Progress, Candidates
  <2>3. disk[k] # Absent /\ Left = StoredKeys
    BY <2>2 DEF Left, StoredKeys
  <2>4. /\ SamePlan /\ evict'.at = "deleteRow" /\ evict'.failed = evict.failed
        /\ evict'.left = evict.left \ {k} /\ evict'.taken = {}
        /\ evict'.freed = evict.freed + evict.listed[k].size
    BY <1>2, <1>5, <2>2, <2>3 DEF EvictDelete, SamePlan
  <2>5. \A j \in Keys : disk'[j] = IF j = k THEN Absent ELSE disk[j]
    BY <2>1 DEF IndInv, TypeOK
  <2>6. Left' = Left \ {k}
    BY <2>3, <2>4, <2>5 DEF Left, StoredKeys
  <2>7. Evicted' = Evicted \cup {k}
    BY <2>2, <2>4, <2>6 DEF Evicted, SamePlan, StoredAtStart
  <2>8. evict' \in Takings
    <3>1. \A e \in EvictStates : e.at = "deleteRow" => e \in Takings
      BY DEF EvictStates, Idle, Plans, Needs
    <3> QED
      BY <2>4, <3>1
  <2>9. \A j \in Keys : disk'[j] \in {evict.start.disk[j], Absent}
    BY <1>1, <2>5 DEF Progress
  <2> QED
    BY <1>1, <2>1, <2>4, <2>6, <2>7, <2>8, <2>9, OneGoes
<1>6. ASSUME NEW k \in Keys, EvictDeleteFails(k)
      PROVE  /\ evict'.at = "next"
             /\ Candidates' /\ Progress' /\ Account' /\ InOrder'
  <2>1. /\ SamePlan /\ evict'.at = "next" /\ disk' = disk /\ evict'.taken = evict.taken
        /\ evict'.freed = evict.freed /\ evict'.left = evict.left \ {k} /\ evict'.failed = TRUE
    BY <1>2, <1>6 DEF EvictDeleteFails, SamePlan
  <2> QED
    BY <1>1, <2>1, NothingGoes
<1>7. CASE EvictDeleteRow \/ EvictDeleteRowFails
  <2>1. /\ SamePlan /\ evict'.at = "next" /\ disk' = disk /\ evict'.taken = evict.taken
        /\ evict'.freed = evict.freed /\ evict'.left = evict.left /\ evict'.failed = evict.failed
    BY <1>2, <1>7 DEF EvictDeleteRow, EvictDeleteRowFails, SamePlan
  <2> QED
    BY <1>1, <2>1, NothingGoes
<1>8. CASE EvictEnd
  <2>1. /\ SamePlan /\ evict'.at = "done" /\ disk' = disk /\ evict'.taken = evict.taken
        /\ evict'.freed = evict.freed /\ evict'.left = evict.left /\ evict'.failed = evict.failed
        /\ Enough \/ evict.left = {}
    BY <1>2, <1>8 DEF EvictEnd, SamePlan
  <2> QED
    BY <1>1, <2>1, NothingGoes
<1> QED
  BY <1>3, <1>4, <1>5, <1>6, <1>7, <1>8 DEF Evict

-----------------------------------------------------------------------------
(* The steps of the others. *)

LEMMA RowsStayRight ==
    ASSUME IndInv, NEW k \in Keys, HitsOf(k), WalkOf(k), RowRight(k), Undisturbed',
           [Next]_vars, ~ Evict
    PROVE  RowRight(k)'
<1>1. disk' = disk
  BY OnlyEvict DEF OnlyMarks, Undisturbed
<1>2. ASSUME UNCHANGED rows PROVE RowRight(k)'
  BY <1>1, <1>2 DEF RowRight
<1>3. CASE (\E w \in Workers : Worker(w)) \/ FlushLoop \/ Stop \/ Tick
  <2>1. RowSound(k)
    BY <1>3, WorkerHarmless, OthersHarmless DEF Harmless, Undisturbed
  <2> QED
    BY <1>1, <2>1 DEF RowSound, RowRight
<1>4. CASE Crash \/ UNCHANGED vars
  BY <1>2, <1>4 DEF Crash, vars, indexVars
<1>5. CASE Reindex
  BY <1>5, ReindexSound DEF Undisturbed
<1> QED
  BY <1>3, <1>4, <1>5 DEF Next

LEMMA OthersKeep ==
    ASSUME IndInv, EvictInv, ExactInv, Undisturbed, Undisturbed', evict.at # "idle",
           Waiting, Taking, [Next]_vars, ~ Evict
    PROVE  Waiting' /\ Taking'
<1>1. evict' = evict /\ disk' = disk
  BY OnlyEvict DEF OnlyMarks, Undisturbed
<1>2. SamePlan
  BY <1>1 DEF SamePlan
<1>3. StartWeight' = StartWeight
  BY <1>2, PlanStays
<1>4. Waiting'
  <2>1. ASSUME evict.at = "list" PROVE \A k \in Keys : RowRight(k)'
    <3>1. \A k \in Keys : RowRight(k)
      BY <2>1 DEF Waiting
    <3>2. \A k \in Keys : HitsOf(k) /\ WalkOf(k)
      BY <2>1 DEF ExactInv, Untouched, Undisturbed
    <3> QED
      BY <3>1, <3>2, RowsStayRight
  <2> QED
    BY <1>1, <1>3, <2>1 DEF Waiting
<1>5. Taking'
  <2> SUFFICES ASSUME evict.at \in {"next", "deleteRow", "done"}
               PROVE  Candidates' /\ Progress' /\ Account' /\ InOrder'
    BY <1>1 DEF Taking
  <2>1. evict \in Takings /\ Candidates /\ Progress /\ Account /\ InOrder
    BY EvictPlaces DEF EvictInv, Taking
  <2>2. evict'.at = "done" => Enough \/ evict.left = {}
    BY <1>1, <2>1 DEF Account
  <2> QED
    BY <1>1, <1>2, <2>1, <2>2, NothingGoes
<1> QED
  BY <1>4, <1>5

-----------------------------------------------------------------------------
LEMMA InitEvict == Init => EvictInv
<1> SUFFICES ASSUME Init PROVE EvictInv
  OBVIOUS
<1>1. evict = Idle /\ Idle.at = "idle" /\ clock >= StartClock
  BY BoundsAssumption DEF Init, Idle
<1> QED
  BY <1>1 DEF EvictInv, EvictStates

LEMMA StepEvict == IndInv /\ IndInv' /\ ExactInv /\ EvictInv /\ [Next]_vars => EvictInv'
<1> SUFFICES ASSUME IndInv, IndInv', ExactInv, EvictInv, [Next]_vars PROVE EvictInv'
  OBVIOUS
<1>1. /\ evict' \in EvictStates
      /\ evict'.at \in {"next", "deleteRow"} => evict'.left \subseteq DOMAIN evict'.listed
  BY EvictTypes, OnlyEvict DEF EvictInv, OnlyMarks
<1>2. clock' >= StartClock
  BY ClockGrows, BoundsAssumption DEF EvictInv, IndInv, TypeOK
<1>3. ASSUME Undisturbed', AgeSensible, evict'.at # "idle", Matched'
      PROVE  Waiting' /\ Taking'
  <2>0. Undisturbed
    BY <1>3, EvictMarks, OnlyEvict DEF OnlyMarks, Undisturbed, marks
  <2>1. CASE ~ Evict
    <3>1. evict' = evict
      BY <2>1, OnlyEvict DEF OnlyMarks
    <3>2. Waiting /\ Taking
      BY <1>3, <2>0, <3>1 DEF EvictInv, Matched
    <3> QED
      BY <1>3, <2>0, <2>1, <3>1, <3>2, OthersKeep
  <2>2. CASE EvictTotal
    BY <1>3, <2>2, TotalPlans
  <2>3. ASSUME Evict, ~ EvictTotal PROVE Matched /\ Waiting /\ Taking
    <3>1. evict.at \in {"list", "next", "deleteRow"}
      BY <2>3
      DEF Evict, EvictList, EvictListFails, EvictForecast, EvictDelete, EvictDeleteFails,
          EvictDeleteRow, EvictDeleteRowFails, EvictEnd
    <3>2. evict \in Needs \/ evict \in Takings
      BY <3>1, EvictPlaces DEF EvictInv
    <3>3. "start" \in DOMAIN evict
      BY <3>2 DEF Needs, Takings
    <3>4. evict'.start = evict.start
      <4>1. CASE EvictList \/ EvictListFails
        BY <3>3, <4>1 DEF EvictList, EvictListFails
      <4>2. CASE EvictDeleteRow \/ EvictDeleteRowFails \/ EvictEnd
        BY <3>3, <4>2 DEF EvictDeleteRow, EvictDeleteRowFails, EvictEnd
      <4>3. ASSUME NEW k \in Keys, EvictForecast(k) \/ EvictDelete(k) \/ EvictDeleteFails(k)
            PROVE  evict'.start = evict.start
        BY <3>3, <4>3 DEF EvictForecast, EvictDelete, EvictDeleteFails
      <4> QED
        BY <2>3, <4>1, <4>2, <4>3 DEF Evict
    <3>5. Matched
      BY <1>3, <3>4 DEF Matched
    <3> QED
      BY <1>3, <2>0, <3>1, <3>5 DEF EvictInv
  <2>4. CASE EvictList
    <3>1. ~ EvictTotal
      <4>1. evict.at = "list"
        BY <2>4 DEF EvictList
      <4> QED
        BY <4>1 DEF EvictTotal, Idle
    <3>2. Waiting
      BY <2>3, <2>4, <3>1 DEF Evict
    <3> QED
      BY <1>3, <2>4, <3>2, ListChooses
  <2>5. CASE EvictListFails
    <3>1. evict'.at = "failed"
      BY <2>5, EvictPlaces DEF EvictListFails, EvictInv, Needs
    <3> QED
      BY <3>1 DEF Waiting, Taking
  <2>6. CASE Evict /\ evict.at \in {"next", "deleteRow", "done"}
    <3>1. ~ EvictTotal
      BY <2>6 DEF EvictTotal, Idle
    <3>2. Matched /\ Taking
      BY <2>3, <2>6, <3>1
    <3> QED
      BY <1>1, <2>6, <3>2, TakingStep DEF Waiting, Taking
  <2> QED
    BY <2>1, <2>2, <2>4, <2>5, <2>6
    DEF Evict, EvictForecast, EvictDelete, EvictDeleteFails, EvictDeleteRow, EvictDeleteRowFails,
        EvictEnd
<1> QED
  BY <1>1, <1>2, <1>3 DEF EvictInv

-----------------------------------------------------------------------------
LEMMA LeftIsWeight ==
    ASSUME TypeOK
    PROVE  LeftTotal = Weight(disk, Left)
<1>1. Left \subseteq Keys /\ IsFiniteSet(Left)
  BY BoundsAssumption, FS_Subset DEF Left, StoredKeys
<1>2. \A k \in Left : disk[k] \in Nat
  BY StoredFacts DEF Left, StoredKeys
<1> QED
  BY <1>1, <1>2, SumIsWeight DEF LeftTotal

\* What there was is what is left and what is gone.
LEMMA WeightSplits ==
    ASSUME IndInv, evict.start \in States, Evicted \subseteq StoredAtStart,
           \A k \in Left : k \in StoredAtStart /\ disk[k] = evict.start.disk[k]
    PROVE  /\ StartWeight = LeftTotal + Weight(evict.start.disk, Evicted)
           /\ LeftTotal \in Nat
<1> DEFINE D == evict.start.disk
<1>1. LeftTotal = Weight(D, Left)
  <2>1. Units(disk, Left) = Units(D, Left)
    BY DEF Units
  <2> QED
    BY <2>1, LeftIsWeight DEF IndInv, Weight
<1>2. StoredAtStart = Left \cup Evicted /\ Left \cap Evicted = {}
  BY DEF Evicted, StoredAtStart
<1>3. /\ IsFiniteSet(Left) /\ IsFiniteSet(Evicted)
      /\ \A k \in StoredAtStart : D[k] \in Nat
  BY <1>2, StartFacts, FS_Subset
<1>4. Units(D, StoredAtStart) = Units(D, Left) \cup Units(D, Evicted)
  BY <1>2 DEF Units
<1>5. Units(D, Left) \cap Units(D, Evicted) = {}
  BY <1>2 DEF Units
<1>6. /\ IsFiniteSet(Units(D, Left)) /\ Cardinality(Units(D, Left)) \in Nat
      /\ IsFiniteSet(Units(D, Evicted)) /\ Cardinality(Units(D, Evicted)) \in Nat
  BY <1>2, <1>3, UnitsFinite DEF Weight
<1>7. Cardinality(Units(D, StoredAtStart)) =
        Cardinality(Units(D, Left)) + Cardinality(Units(D, Evicted)) - 0
  <2>1. Cardinality(Units(D, Left) \cap Units(D, Evicted)) = 0
    BY <1>5, FS_EmptySet
  <2> QED
    BY <1>4, <1>6, <2>1, FS_Union
<1> QED
  BY <1>1, <1>6, <1>7 DEF Weight, StartWeight

LEMMA ExactMeans ==
    ASSUME IndInv, EvictInv, AgeSensible
    PROVE  EvictExact
<1> SUFFICES ASSUME evict.at \in {"done", "nothing"}, Undisturbed, Matched
             PROVE  /\ \/ LeftTotal <= TargetSize
                       \/ evict.at = "done" /\ (evict.failed \/ DOMAIN evict.listed \cap Left = {})
                    /\ Evicted # {} =>
                        /\ \E k \in Evicted : LeftTotal + evict.start.disk[k] > TargetSize
                        /\ \A k \in Evicted :
                            /\ MinAge > 0 => evict.listed[k].last < evict.now - MinAge
                            /\ ~evict.failed => \A j \in Left \cap DOMAIN evict.listed :
                                   evict.listed[k].last <= evict.listed[j].last
  BY DEF EvictExact, Matched, Undisturbed
<1>1. Waiting /\ Taking /\ TargetSize \in Nat
  BY BoundsAssumption DEF EvictInv
<1>2. CASE evict.at = "nothing"
  <2>1. evict.start \in States /\ evict.taken = {} /\ disk = evict.start.disk
    BY <1>1, <1>2, EvictPlaces DEF EvictInv, Plans, Waiting
  <2>2. Left = StoredAtStart /\ Evicted = {}
    BY <2>1 DEF Left, StoredKeys, StoredAtStart, Evicted
  <2>3. Weight(evict.start.disk, {}) = 0
    BY FS_EmptySet, WeightFacts
  <2>4. StartWeight = LeftTotal + 0 /\ LeftTotal \in Nat
    BY <2>1, <2>2, <2>3, WeightSplits
  <2>5. StartWeight <= TargetSize
    BY <1>1, <1>2 DEF Waiting
  <2> QED
    BY <2>2, <2>4, <2>5
<1>3. CASE evict.at = "done"
  <2>1. evict \in Takings /\ Candidates /\ Progress /\ Account /\ InOrder
    BY <1>1, <1>3, EvictPlaces DEF EvictInv, Taking
  <2>2. /\ evict.start \in States /\ evict.need \in Nat /\ evict.freed \in Nat
        /\ evict.start.disk \in [Keys -> Sizes \cup {Absent}]
    BY <2>1 DEF Takings, States
  <2>3. \A k \in Left : k \in StoredAtStart /\ disk[k] = evict.start.disk[k]
    BY <2>1 DEF Progress, Left, StoredKeys, StoredAtStart
  <2>4. Evicted \subseteq StoredAtStart
    BY DEF Evicted, StoredAtStart
  <2>5. /\ StartWeight = LeftTotal + evict.freed /\ LeftTotal \in Nat
        /\ evict.need = StartWeight - TargetSize
    BY <2>1, <2>2, <2>3, <2>4, WeightSplits DEF Account
  <2>6. \/ LeftTotal <= TargetSize
        \/ evict.failed
        \/ DOMAIN evict.listed \cap Left = {}
    <3>1. CASE Enough
      BY <1>1, <2>2, <2>5, <3>1 DEF Enough
    <3>2. CASE evict.left = {} /\ ~ evict.failed
      BY <2>1, <3>2 DEF Progress, Evicted
    <3> QED
      BY <1>3, <2>1, <3>1, <3>2 DEF Account
  <2>7. ASSUME Evicted # {}
        PROVE  \E k \in Evicted : LeftTotal + evict.start.disk[k] > TargetSize
    <3>1. PICK k \in Evicted : evict.freed - evict.start.disk[k] < evict.need
      BY <2>1, <2>7 DEF Account
    <3>2. evict.start.disk[k] \in Nat
      BY <2>2, <2>4, <3>1, StartFacts
    <3>3. LeftTotal + evict.start.disk[k] > TargetSize
      BY <1>1, <2>2, <2>5, <3>1, <3>2
    <3> QED
      BY <3>1, <3>3
  <2>8. ASSUME NEW k \in Evicted
        PROVE  /\ MinAge > 0 => evict.listed[k].last < evict.now - MinAge
               /\ ~evict.failed => \A j \in Left \cap DOMAIN evict.listed :
                      evict.listed[k].last <= evict.listed[j].last
    <3>1. k \in DOMAIN evict.listed
      BY <2>1, <2>8 DEF Progress
    <3>2. ~evict.failed => Left \cap DOMAIN evict.listed \subseteq evict.left
      BY <2>1 DEF Progress, Evicted
    <3> QED
      BY <2>1, <3>1, <3>2 DEF Candidates, InOrder
  <2> QED
    BY <1>3, <2>6, <2>7, <2>8
<1> QED
  BY <1>2, <1>3

\* While no request writes and no reindex drops an error, the local variables of the
\* eviction account for every entry that is gone, whatever hits, flushes, a reindex,
\* errors and crashes do meanwhile (runEvict).
THEOREM EvictInvariance == Spec => []EvictInv
<1>1. Spec => []IndInv
  BY IndexInvariance
<1>2. Spec => []ExactInv
  BY ExactInvariance
<1>3. Spec => Init /\ [][Next]_vars
  BY DEF Spec
<1> QED
  BY <1>1, <1>2, <1>3, InitEvict, StepEvict, PTL

\* When --min-age reaches back to after the epoch, and while no request writes and no
\* reindex drops an error, an eviction over an index that agreed with the directory frees what it must and no more, least
\* recently used first, and a dry run tells the same; for any entries, sizes and target
\* (runEvict, LRUEntries).
THEOREM EvictIsExact == Spec => [](AgeSensible => EvictExact)
<1>1. IndInv /\ EvictInv => (AgeSensible => EvictExact)
  BY ExactMeans
<1> QED
  BY <1>1, IndexInvariance, EvictInvariance, PTL

=============================================================================
