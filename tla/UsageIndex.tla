------------------------------ MODULE UsageIndex ------------------------------
(***************************************************************************)
(* The SQLite index of cache entries and everything that keeps it: the     *)
(* buffered hits and their flushes (internal/index), the index half of     *)
(* Cache.Put, Get, Delete and Reindex (internal/cache/cache.go), the       *)
(* eviction command (runEvict in cmd/escrow-proxy/cache.go) and the        *)
(* shutdown of the serve command (main.go).                                *)
(*                                                                         *)
(* The serve process runs request workers, the flush loop and possibly the *)
(* automatic reindex; the evict and reindex commands are processes of      *)
(* their own that share the database and the directory but not the buffer. *)
(* Each SQL statement or transaction is atomic, since SQLite serialises    *)
(* them; so is each critical section of Index.mu.  The two files of an     *)
(* entry are one object here: module EntryStore takes them apart.          *)
(***************************************************************************)
EXTENDS Integers, FiniteSets, FiniteSetsExt

CONSTANTS
    Keys,
    Sizes,          \* the body sizes of entries
    Workers,        \* the goroutines that serve requests
    Operations,     \* the cache operations workers perform: "put", "get", "delete"
    Jobs,           \* what runs beside them: see JobsAssumption
    Faults,         \* BOOLEAN: a statement or a file operation may fail
    TargetSize,     \* --target-size
    MinAge,         \* --min-age
    StartClock,     \* the time at which the model starts
    MaxClock,       \* bound on the clock
    MaxHits,        \* bound on the number of hits recorded for a key
    InitialStates   \* the contents of directory and database at the start

VARIABLES
    clock,
    disk,       \* key -> body size of the entry in the directory, or Absent
    rows,       \* key -> row of the table entries, or NoRow
    dirty,      \* Index.dirty: key -> hitDelta, NoDelta when the map has none
    pending,    \* flusher -> the batch of its transaction
    job,        \* worker -> the operation it is in
    phase,      \* the flush goroutine: "running", "stopping", "flushing", "closed"
    reindex,    \* Cache.Reindex: where it is, and its local variables
    evict,      \* runEvict: where it is, and its local variables
    recorded,   \* history: the hits recorded for a key since the process started,
                \*   and what its row had counted before that
    discarded,  \* history: the keys whose statistics were meant to be reset
    lastHit,    \* history: when the key was last recorded as hit, or its row's time
    written,    \* history: the keys of the entries that workers put or deleted
    dropped     \* history: the keys for which a reindex dropped a storage error

indexVars == <<rows, dirty, pending>>
history   == <<recorded, discarded, lastHit>>
marks     == <<written, dropped>>
vars      == <<clock, disk, indexVars, job, phase, reindex, evict, history, marks>>

Absent  == -1
NoRow   == [size |-> Absent, last |-> 0, hits |-> 0]
NoDelta == [size |-> 0, last |-> 0, hits |-> 0]
NoBatch == [k \in Keys |-> NoDelta]

\* The goroutines that call Flush on the shared buffer.
Flushers == {"loop", "reindex"}

Later(a, b) == IF a >= b THEN a ELSE b

IndexedKeys == {k \in Keys : rows[k] # NoRow}
StoredKeys  == {k \in Keys : disk[k] # Absent}

Rows   == [size : Nat, last : Nat, hits : Nat]
Deltas == [size : Nat, last : Nat, hits : Nat]
States == [disk : [Keys -> Sizes \cup {Absent}], rows : [Keys -> Rows \cup {NoRow}]]

ASSUME BoundsAssumption ==
    /\ Sizes \subseteq Nat
    /\ StartClock \in Nat /\ MaxClock \in Nat /\ MaxHits \in Nat
    /\ TargetSize \in Nat /\ MinAge \in Nat
    /\ Faults \in BOOLEAN
    /\ IsFiniteSet(Keys)
ASSUME JobsAssumption ==
    /\ Operations \subseteq {"put", "get", "delete"}
    /\ Jobs \subseteq {"reindex",      \* the cache reindex command
                     "autoreindex",  \* Reindex in the serve process, on an empty index
                     "evict",        \* the cache evict command
                     "stop",         \* the serve process is told to stop
                     "crash"}        \* the serve process is killed and started again
    /\ ~({"reindex", "autoreindex"} \subseteq Jobs)
ASSUME InitialStatesAssumption ==
    InitialStates \subseteq States

Idle == [at |-> "idle"]

ReindexDone(ok) == [at |-> "done", ok |-> ok]

InServe == "autoreindex" \in Jobs

\* serve starts a reindex when the index is empty but the cache is not.
AutoReindex == IF IndexedKeys = {} /\ StoredKeys # {} THEN Idle ELSE ReindexDone(FALSE)

Init ==
    /\ clock = StartClock
    /\ \E s \in InitialStates : disk = s.disk /\ rows = s.rows
    /\ dirty = NoBatch
    /\ pending = [f \in Flushers |-> NoBatch]
    /\ job = [w \in Workers |-> Idle]
    /\ phase = "running"
    /\ reindex = IF InServe THEN AutoReindex ELSE Idle
    /\ evict = Idle
    /\ recorded = [k \in Keys |-> rows[k].hits]
    /\ discarded = {}
    /\ lastHit = [k \in Keys |-> rows[k].last]
    /\ written = {} /\ dropped = {}

\* Once Close has closed the database every statement of the process fails.
SqlWorks   == phase # "closed"
SqlMayFail == Faults \/ phase = "closed"

-----------------------------------------------------------------------------
(* Workers: Cache.Put, Get and Delete. *)

Goto(w, j) == job' = [job EXCEPT ![w] = j]

\* The entry is stored; Size and time.Now give the row that Insert will write.
PutStore(w, k) == \E size \in Sizes :
    /\ "put" \in Operations
    /\ job[w] = Idle
    /\ disk' = [disk EXCEPT ![k] = size]
    /\ Goto(w, [at |-> "insert", key |-> k,
                row |-> [size |-> size, last |-> clock, hits |-> 0]])
    /\ written' = written \cup {k}
    /\ UNCHANGED <<dropped, clock, indexVars, phase, reindex, evict, history>>

\* Index.Insert replaces the row, its statistics included.
Insert(w) ==
    /\ job[w].at = "insert"
    /\ SqlWorks
    /\ rows' = [rows EXCEPT ![job[w].key] = job[w].row]
    /\ discarded' = discarded \cup {job[w].key}
    /\ Goto(w, Idle)
    /\ UNCHANGED <<marks, clock, disk, dirty, pending, phase, reindex, evict, recorded, lastHit>>

\* The error of Insert is dropped: the entry stays without its row.
InsertFails(w) ==
    /\ job[w].at = "insert"
    /\ SqlMayFail
    /\ Goto(w, Idle)
    /\ UNCHANGED <<marks, clock, disk, indexVars, phase, reindex, evict, history>>

\* Get finds the entry.
GetFound(w, k) ==
    /\ "get" \in Operations
    /\ job[w] = Idle
    /\ disk[k] # Absent
    /\ recorded[k] < MaxHits
    /\ Goto(w, [at |-> "recordHit", key |-> k, size |-> disk[k], now |-> clock])
    /\ UNCHANGED <<marks, clock, disk, indexVars, phase, reindex, evict, history>>

\* The delta of a key with one more hit.
Bumped(d, size, now) == [size |-> size, last |-> Later(d.last, now), hits |-> d.hits + 1]

\* bufferHit, under Index.mu.
RecordHit(w) ==
    /\ job[w].at = "recordHit"
    /\ LET k == job[w].key
       IN /\ dirty' = [dirty EXCEPT ![k] = Bumped(@, job[w].size, job[w].now)]
          /\ recorded' = [recorded EXCEPT ![k] = @ + 1]
          /\ lastHit' = [lastHit EXCEPT ![k] = Later(@, job[w].now)]
    /\ Goto(w, Idle)
    /\ UNCHANGED <<marks, clock, disk, rows, pending, phase, reindex, evict, discarded>>

\* Get does not find the entry, or Delete finds none: the row is an orphan.
NotFound(w, k) ==
    /\ Operations \cap {"get", "delete"} # {}
    /\ job[w] = Idle
    /\ disk[k] = Absent
    /\ Goto(w, [at |-> "deleteRow", key |-> k])
    /\ UNCHANGED <<marks, clock, disk, indexVars, phase, reindex, evict, history>>

DeleteEntry(w, k) ==
    /\ "delete" \in Operations
    /\ job[w] = Idle
    /\ disk[k] # Absent
    /\ disk' = [disk EXCEPT ![k] = Absent]
    /\ Goto(w, [at |-> "deleteRow", key |-> k])
    /\ written' = written \cup {k}
    /\ UNCHANGED <<dropped, clock, indexVars, phase, reindex, evict, history>>

\* Index.Delete: first the row,
DeleteRow(w) ==
    /\ job[w].at = "deleteRow"
    /\ SqlWorks
    /\ rows' = [rows EXCEPT ![job[w].key] = NoRow]
    /\ discarded' = discarded \cup {job[w].key}
    /\ Goto(w, [job[w] EXCEPT !.at = "dropHits"])
    /\ UNCHANGED <<marks, clock, disk, dirty, pending, phase, reindex, evict, recorded, lastHit>>

DeleteRowFails(w) ==
    /\ job[w].at = "deleteRow"
    /\ SqlMayFail
    /\ Goto(w, Idle)
    /\ UNCHANGED <<marks, clock, disk, indexVars, phase, reindex, evict, history>>

\* then the buffered hits.
DropHits(w) ==
    /\ job[w].at = "dropHits"
    /\ dirty' = [dirty EXCEPT ![job[w].key] = NoDelta]
    /\ Goto(w, Idle)
    /\ UNCHANGED <<marks, clock, disk, rows, pending, phase, reindex, evict, history>>

Worker(w) ==
    \/ \E k \in Keys : PutStore(w, k) \/ GetFound(w, k) \/ NotFound(w, k) \/ DeleteEntry(w, k)
    \/ Insert(w) \/ InsertFails(w) \/ RecordHit(w)
    \/ DeleteRow(w) \/ DeleteRowFails(w) \/ DropHits(w)

-----------------------------------------------------------------------------
(* Index.Flush.  The buffer is swapped for an empty one under Index.mu and   *)
(* the batch goes into the table in one transaction, or back into the buffer.*)

\* Mutant: the batch is copied but the buffer not replaced.
CopyOut(f) ==
    /\ pending' = [pending EXCEPT ![f] = dirty]
    /\ UNCHANGED dirty

Swap(f) ==
    /\ pending' = [pending EXCEPT ![f] = dirty]
    /\ dirty' = NoBatch

\* Mutant: a missing row is updated as if it were there.
UpdateOnly(row, d) == [row EXCEPT !.last = Later(@, d.last), !.hits = @ + d.hits]

\* Mutant: DO UPDATE SET hits = excluded.hits.
ReplacesHits(row, d) ==
    CASE d = NoDelta -> row
      [] d # NoDelta -> [size |-> d.size, last |-> d.last, hits |-> d.hits]

\* INSERT ... ON CONFLICT DO UPDATE for one key of the batch.
Upserted(row, d) ==
    CASE d = NoDelta -> row
      [] d # NoDelta /\ row = NoRow -> [size |-> d.size, last |-> d.last, hits |-> d.hits]
      [] d # NoDelta /\ row # NoRow ->
             [row EXCEPT !.last = Later(@, d.last), !.hits = @ + d.hits]

Commit(f) ==
    /\ pending[f] # NoBatch
    /\ rows' = [k \in Keys |-> Upserted(rows[k], pending[f][k])]
    /\ pending' = [pending EXCEPT ![f] = NoBatch]
    /\ UNCHANGED dirty

\* Mutant: newer hits of the key replace the ones that are put back.
KeepNewer(old, d) == IF old = NoDelta THEN d ELSE old

\* A delta put back into the buffer, where newer hits may have arrived.
Requeued(old, d) ==
    CASE d = NoDelta -> old
      [] d # NoDelta /\ old = NoDelta -> d
      [] d # NoDelta /\ old # NoDelta ->
             [old EXCEPT !.hits = @ + d.hits, !.last = Later(@, d.last)]

requeue(f) ==
    /\ pending[f] # NoBatch
    /\ dirty' = [k \in Keys |-> Requeued(dirty[k], pending[f][k])]
    /\ pending' = [pending EXCEPT ![f] = NoBatch]
    /\ UNCHANGED rows

\* Mutant: the timer is not armed again; only many buffered hits start a flush.
FlushAtThreshold ==
    /\ phase = "running"
    /\ pending["loop"] = NoBatch
    /\ \E k \in Keys : dirty[k].hits > 1
    /\ Swap("loop")
    /\ UNCHANGED <<marks, clock, disk, rows, job, phase, reindex, evict, history>>

\* flushLoop: the timer fires or the threshold was reached.
LoopFlush ==
    /\ phase = "running"
    /\ pending["loop"] = NoBatch
    /\ dirty # NoBatch
    /\ Swap("loop")
    /\ UNCHANGED <<marks, clock, disk, rows, job, phase, reindex, evict, history>>

\* After the last flush the goroutine ends and Close closes the database.
Flushed == phase' = IF phase = "flushing" THEN "closed" ELSE phase

LoopCommit ==
    /\ SqlWorks
    /\ Commit("loop")
    /\ Flushed
    /\ UNCHANGED <<marks, clock, disk, job, reindex, evict, history>>

LoopRequeue ==
    /\ SqlMayFail
    /\ requeue("loop")
    /\ Flushed
    /\ UNCHANGED <<marks, clock, disk, job, reindex, evict, history>>

\* startProxy returns as soon as the listener is closed, whatever requests are
\* still being served, and onShutdown calls Index.Close.
Stop ==
    /\ "stop" \in Jobs
    /\ phase = "running"
    /\ phase' = "stopping"
    /\ UNCHANGED <<marks, clock, disk, indexVars, job, reindex, evict, history>>

LastFlush ==
    /\ phase = "stopping"
    /\ pending["loop"] = NoBatch
    /\ IF dirty = NoBatch
       THEN phase' = "closed" /\ UNCHANGED <<dirty, pending>>
       ELSE phase' = "flushing" /\ Swap("loop")
    /\ UNCHANGED <<marks, clock, disk, rows, job, reindex, evict, history>>

FlushLoop == LoopFlush \/ LoopCommit \/ LoopRequeue \/ LastFlush

-----------------------------------------------------------------------------
(* Cache.Reindex, by the serve process at its first start or by the command. *)

ReindexWorks   == ~InServe \/ SqlWorks
ReindexMayFail == Faults \/ (InServe /\ ~SqlWorks)

\* Flush: the command's own buffer is empty.
ReindexStart ==
    /\ {"reindex", "autoreindex"} \cap Jobs # {}
    /\ reindex = Idle
    /\ IF InServe /\ dirty # NoBatch
       THEN reindex' = [at |-> "flush"] /\ Swap("reindex")
       ELSE reindex' = [at |-> "list"] /\ UNCHANGED <<dirty, pending>>
    /\ UNCHANGED <<marks, clock, disk, rows, job, phase, evict, history>>

ReindexCommit ==
    /\ reindex.at = "flush"
    /\ ReindexWorks
    /\ Commit("reindex")
    /\ reindex' = [at |-> "list"]
    /\ UNCHANGED <<marks, clock, disk, job, phase, evict, history>>

ReindexRequeue ==
    /\ reindex.at = "flush"
    /\ ReindexMayFail
    /\ requeue("reindex")
    /\ reindex' = ReindexDone(FALSE)
    /\ UNCHANGED <<marks, clock, disk, job, phase, evict, history>>

\* Walk lists the directory once and then reads the listed entries.
ReindexList ==
    /\ reindex.at = "list"
    /\ reindex' = [at |-> "walk", listed |-> StoredKeys, seen |-> {}]
    /\ UNCHANGED <<marks, clock, disk, indexVars, job, phase, evict, history>>

\* The next listed entry is read.
ReindexRead(k) ==
    /\ reindex.at = "walk"
    /\ k \in reindex.listed
    /\ disk[k] # Absent
    /\ reindex' = [at |-> "size", listed |-> reindex.listed \ {k},
                   seen |-> reindex.seen \cup {k}, key |-> k]
    /\ UNCHANGED <<marks, clock, disk, indexVars, job, phase, evict, history>>

\* One that is gone by now is skipped, and so, without a word, is one that is
\* there and cannot be read or parsed.
ReindexSkip(k) ==
    /\ reindex.at = "walk"
    /\ k \in reindex.listed
    /\ \/ disk[k] = Absent /\ UNCHANGED dropped
       \/ disk[k] # Absent /\ Faults /\ dropped' = dropped \cup {k}
    /\ reindex' = [reindex EXCEPT !.listed = @ \ {k}]
    /\ UNCHANGED <<written, clock, disk, indexVars, job, phase, evict, history>>

\* Size; an error of it counts as a body of no bytes.
ReindexSize ==
    /\ reindex.at = "size"
    /\ LET k == reindex.key
           Sized(size) == reindex' = [at |-> "upsert", listed |-> reindex.listed,
                                      seen |-> reindex.seen, key |-> k, size |-> size]
       IN \/ disk[k] # Absent /\ Sized(disk[k]) /\ UNCHANGED dropped
          \/ disk[k] = Absent /\ Sized(0) /\ UNCHANGED dropped
          \/ disk[k] # Absent /\ Faults /\ Sized(0) /\ dropped' = dropped \cup {k}
    /\ UNCHANGED <<written, clock, disk, indexVars, job, phase, evict, history>>

\* Index.Upsert keeps the statistics of an existing row.
Upsert(row, size, now) ==
    IF row = NoRow THEN [size |-> size, last |-> now, hits |-> 0]
    ELSE [row EXCEPT !.size = size]

ReindexUpsert ==
    /\ reindex.at = "upsert"
    /\ ReindexWorks
    /\ rows' = [rows EXCEPT ![reindex.key] = Upsert(@, reindex.size, clock)]
    /\ reindex' = [at |-> "walk", listed |-> reindex.listed, seen |-> reindex.seen]
    /\ UNCHANGED <<marks, clock, disk, dirty, pending, job, phase, evict, history>>

\* Mutant: rows of entries that are gone stay.
NoOrphans == {}

\* AllKeys, without those that the walk saw.
Orphans == IndexedKeys \ reindex.seen

ReindexAllKeys ==
    /\ reindex.at = "walk"
    /\ reindex.listed = {}
    /\ ReindexWorks
    /\ reindex' = [at |-> "orphans", left |-> Orphans]
    /\ UNCHANGED <<marks, clock, disk, indexVars, job, phase, evict, history>>

ReindexDeleteRow(k) ==
    /\ reindex.at = "orphans"
    /\ k \in reindex.left
    /\ ReindexWorks
    /\ rows' = [rows EXCEPT ![k] = NoRow]
    /\ discarded' = discarded \cup {k}
    /\ reindex' = [at |-> "dropHits", left |-> reindex.left \ {k}, key |-> k]
    /\ UNCHANGED <<marks, clock, disk, dirty, pending, job, phase, evict, recorded, lastHit>>

ReindexDropHits ==
    /\ reindex.at = "dropHits"
    /\ dirty' = IF InServe THEN [dirty EXCEPT ![reindex.key] = NoDelta] ELSE dirty
    /\ reindex' = [at |-> "orphans", left |-> reindex.left]
    /\ UNCHANGED <<marks, clock, disk, rows, pending, job, phase, evict, history>>

ReindexEnd ==
    /\ reindex.at = "orphans"
    /\ reindex.left = {}
    /\ reindex' = ReindexDone(TRUE)
    /\ UNCHANGED <<marks, clock, disk, indexVars, job, phase, evict, history>>

\* An error of List or of any statement ends it.
ReindexFails ==
    /\ reindex.at \in {"list", "walk", "upsert", "orphans"}
    /\ ReindexMayFail
    /\ reindex' = ReindexDone(FALSE)
    /\ UNCHANGED <<marks, clock, disk, indexVars, job, phase, evict, history>>

Reindex ==
    \/ ReindexStart \/ ReindexCommit \/ ReindexRequeue \/ ReindexList \/ ReindexSize
    \/ ReindexUpsert \/ ReindexAllKeys \/ ReindexDropHits \/ ReindexEnd \/ ReindexFails
    \/ \E k \in Keys : ReindexRead(k) \/ ReindexSkip(k) \/ ReindexDeleteRow(k)

-----------------------------------------------------------------------------
(* runEvict.  The command's process has a buffer of its own, always empty.   *)

TotalBodySize == MapThenSumSet(LAMBDA k : rows[k].size, IndexedKeys)

\* How much must go.  The field start is history, for the properties.
EvictTotal == \E dry \in BOOLEAN :
    /\ "evict" \in Jobs
    /\ evict = Idle
    /\ LET start == [disk |-> disk, rows |-> rows]
       IN evict' = IF TotalBodySize <= TargetSize
                   THEN [at |-> "nothing", start |-> start, dry |-> dry, taken |-> {}]
                   ELSE [at |-> "list", start |-> start, dry |-> dry, taken |-> {},
                         need |-> TotalBodySize - TargetSize]
    /\ UNCHANGED <<marks, clock, disk, indexVars, job, phase, reindex, history>>

\* WHERE last_accessed_at < cutoff, left out unless the cutoff is positive.
OldEnough(k) ==
    LET cutoff == IF MinAge > 0 THEN clock - MinAge ELSE 0
    IN cutoff > 0 => rows[k].last < cutoff

\* LRUEntries: the candidates, with their columns.  History: now and failed.
EvictList ==
    /\ evict.at = "list"
    /\ LET old == {k \in IndexedKeys : OldEnough(k)}
       IN evict' = [at |-> "next", start |-> evict.start, dry |-> evict.dry, taken |-> {},
                    need |-> evict.need, freed |-> 0, failed |-> FALSE,
                    left |-> old, listed |-> [k \in old |-> rows[k]], now |-> clock,
                    key |-> CHOOSE k \in Keys : TRUE]   \* not yet read
    /\ UNCHANGED <<marks, clock, disk, indexVars, job, phase, reindex, history>>

EvictListFails ==
    /\ evict.at = "list"
    /\ Faults
    /\ evict' = [evict EXCEPT !.at = "failed"]
    /\ UNCHANGED <<marks, clock, disk, indexVars, job, phase, reindex, history>>

\* Mutant: most recently used first.
MostRecent(k) == \A j \in evict.left : evict.listed[j].last <= evict.listed[k].last

\* ORDER BY last_accessed_at ASC; rows of one time come in any order.
LeastRecent(k) == \A j \in evict.left : evict.listed[k].last <= evict.listed[j].last

\* freed >= need.
Enough == evict.freed >= evict.need

\* --dry-run: the next candidate is printed and counted, be it there or not.
EvictForecast(k) ==
    /\ evict.at = "next" /\ evict.dry
    /\ ~Enough
    /\ k \in evict.left
    /\ LeastRecent(k)
    /\ evict' = [evict EXCEPT !.left = @ \ {k}, !.taken = @ \cup {k},
                              !.freed = @ + evict.listed[k].size]
    /\ UNCHANGED <<marks, clock, disk, indexVars, job, phase, reindex, history>>

\* The next candidate's entry, deleted or found to be gone already.
EvictDelete(k) ==
    /\ evict.at = "next" /\ ~evict.dry
    /\ ~Enough
    /\ k \in evict.left
    /\ LeastRecent(k)
    /\ disk' = [disk EXCEPT ![k] = Absent]
    /\ evict' = [evict EXCEPT !.at = "deleteRow", !.left = @ \ {k}, !.key = k,
                              !.freed = IF disk[k] = Absent THEN @
                                        ELSE @ + evict.listed[k].size]
    /\ UNCHANGED <<marks, clock, indexVars, job, phase, reindex, history>>

\* A storage error: logged, and on to the next candidate.
EvictDeleteFails(k) ==
    /\ evict.at = "next" /\ ~evict.dry
    /\ ~Enough
    /\ k \in evict.left
    /\ LeastRecent(k)
    /\ Faults
    /\ evict' = [evict EXCEPT !.left = @ \ {k}, !.failed = TRUE]
    /\ UNCHANGED <<marks, clock, disk, indexVars, job, phase, reindex, history>>

\* Index.Delete; its error is dropped.
EvictDeleteRow ==
    /\ evict.at = "deleteRow"
    /\ rows' = [rows EXCEPT ![evict.key] = NoRow]
    /\ discarded' = discarded \cup {evict.key}
    /\ evict' = [evict EXCEPT !.at = "next"]
    /\ UNCHANGED <<marks, clock, disk, dirty, pending, job, phase, reindex, recorded, lastHit>>

EvictDeleteRowFails ==
    /\ evict.at = "deleteRow"
    /\ Faults
    /\ evict' = [evict EXCEPT !.at = "next"]
    /\ UNCHANGED <<marks, clock, disk, indexVars, job, phase, reindex, history>>

EvictEnd ==
    /\ evict.at = "next"
    /\ Enough \/ evict.left = {}
    /\ evict' = [evict EXCEPT !.at = "done"]
    /\ UNCHANGED <<marks, clock, disk, indexVars, job, phase, reindex, history>>

Evict ==
    \/ EvictTotal \/ EvictList \/ EvictListFails
    \/ EvictDeleteRow \/ EvictDeleteRowFails \/ EvictEnd
    \/ \E k \in Keys : EvictForecast(k) \/ EvictDelete(k) \/ EvictDeleteFails(k)

-----------------------------------------------------------------------------
(* The environment. *)

Tick ==
    /\ clock < MaxClock
    /\ clock' = clock + 1
    /\ UNCHANGED <<marks, disk, indexVars, job, phase, reindex, evict, history>>

Buffered(k) == dirty[k] # NoDelta \/ \E f \in Flushers : pending[f][k] # NoDelta

\* The serve process is killed and started again: the buffer is lost.
Crash ==
    /\ "crash" \in Jobs
    /\ dirty' = NoBatch
    /\ pending' = [f \in Flushers |-> NoBatch]
    /\ job' = [w \in Workers |-> Idle]
    /\ phase' = "running"
    /\ reindex' = IF InServe THEN AutoReindex ELSE reindex
    /\ discarded' = discarded \cup {k \in Keys : Buffered(k)}
    /\ UNCHANGED <<marks, clock, disk, rows, evict, recorded, lastHit>>

Next ==
    \/ \E w \in Workers : Worker(w)
    \/ FlushLoop \/ Stop
    \/ Reindex
    \/ Evict
    \/ Tick
    \/ Crash

Spec == Init /\ [][Next]_vars

\* Goroutines keep running, the flush timer keeps firing, and a flush that is
\* tried again and again is not refused by the database for ever.
FairSpec ==
    /\ Spec
    /\ WF_vars(FlushLoop)
    /\ WF_vars(Reindex)
    /\ SF_vars(LoopCommit)
    /\ \A w \in Workers : WF_vars(job[w] # Idle /\ Worker(w))

-----------------------------------------------------------------------------
(* Properties. *)

\* Every variable keeps its type.
TypeOK ==
    /\ clock \in Nat
    /\ disk \in [Keys -> Sizes \cup {Absent}]
    /\ rows \in [Keys -> Rows \cup {NoRow}]
    /\ dirty \in [Keys -> Deltas]
    /\ pending \in [Flushers -> [Keys -> Deltas]]
    /\ phase \in {"running", "stopping", "flushing", "closed"}
    /\ recorded \in [Keys -> Nat]
    /\ discarded \subseteq Keys
    /\ lastHit \in [Keys -> Nat]

\* The hits of a key that the buffer and the running flushes know of,
Unsaved(k) == dirty[k].hits + pending["loop"][k].hits + pending["reindex"][k].hits

\* and those with the ones in its row.
Counted(k) == rows[k].hits + Unsaved(k)

\* No hit is ever counted twice: whatever flushes overlap, fail, are put back
\* and are tried again, and wherever the process dies in between, row, buffer
\* and batches together know of no more hits than were recorded
\* (Flush, requeue).
NoHitCountedTwice == \A k \in Keys : Counted(k) <= recorded[k]

\* A key whose row nobody replaced or deleted has lost no hit, and its last
\* access is known: overlapping flushes, failed ones, hits that arrive during a
\* flush and a reindex all preserve the statistics (Flush, requeue, Upsert).
StatsPreserved == \A k \in Keys \ discarded :
    /\ Counted(k) = recorded[k]
    /\ \E t \in {rows[k].last, dirty[k].last} \cup {pending[f][k].last : f \in Flushers} :
           t >= lastHit[k]

\* A reindex that ends without an error, with nothing evicted, leaves the table
\* exact for every key that no request wrote: a row of the right size where
\* there is an entry, none where there is not, whatever drift there was before
\* and whatever hits, puts and deletes of other entries go on.  A storage error
\* that it dropped costs at most the row or the size of that one entry
\* (Cache.Walk, Cache.Reindex).
ReindexExact ==
    reindex = ReindexDone(TRUE) /\ evict = Idle =>
        \A k \in Keys \ written :
            \/ rows[k].size = disk[k]
            \/ k \in dropped /\ rows[k].size \in {Absent, 0}

\* The entries that the eviction leaves, or would leave,
Left == StoredKeys \ evict.taken

LeftTotal == MapThenSumSet(LAMBDA k : disk[k], Left)

\* and those that it deleted, or would have.
Evicted == {k \in Keys : evict.start.disk[k] # Absent /\ k \notin Left}

\* An eviction over an index that matched the directory, while requests only
\* read and no reindex drops an error, reaches its target or runs out of old
\* enough entries, stops as soon as it can, takes the least recently used ones
\* by the index it read, and none within the minimum age; what a dry run prints
\* is a set that the eviction could have taken (runEvict, LRUEntries).
EvictExact ==
    (/\ evict.at \in {"done", "nothing"}
     /\ written = {} /\ dropped = {}
     /\ \A k \in Keys : evict.start.rows[k].size = evict.start.disk[k])
    => /\ \/ LeftTotal <= TargetSize
          \/ evict.at = "done" /\ (evict.failed \/ DOMAIN evict.listed \cap Left = {})
       /\ Evicted # {} =>
            /\ \E k \in Evicted : LeftTotal + evict.start.disk[k] > TargetSize
            /\ \A k \in Evicted :
                /\ MinAge > 0 => evict.listed[k].last < evict.now - MinAge
                /\ ~evict.failed => \A j \in Left \cap DOMAIN evict.listed :
                       evict.listed[k].last <= evict.listed[j].last

\* A buffered hit reaches the table, or is dropped with its entry or its process,
\* although any single flush may fail and be put back (flushLoop).
HitsReachTable == \A k \in Keys : Buffered(k) ~> (~Buffered(k) \/ phase = "closed")

-----------------------------------------------------------------------------
(* The abstract specification. *)

Ledger == INSTANCE HitLedger WITH
    saved     <- [k \in Keys |-> rows[k].hits],
    unsaved   <- [k \in Keys |-> Unsaved(k)],
    forgotten <- discarded

\* The index implements the ledger of hits: at every single step of workers,
\* flushes that overlap or fail, reindex, eviction and crash, a hit is counted
\* once, moves from memory to the table once, and goes only with its row or
\* with its process (Flush, requeue, Upsert, Insert, Delete).
ImplementsLedger == Ledger!Spec
=============================================================================
