---------------------------- MODULE CacheCommands ----------------------------
(***************************************************************************)
(* The cache commands invalidate, list, show, domains and reindex          *)
(* (cmd/escrow-proxy/cache.go) over a tiered storage and the usage index,  *)
(* beside a serve process that uses both.                                  *)
(*                                                                         *)
(* A command is a sequence of calls: of a tier for one object, of SQLite   *)
(* for one statement.  The serve process takes its steps in between.       *)
(* Tiered.Put and Tiered.Delete are one step here, the two files of an     *)
(* entry are not; module TieredStore takes those apart tier by tier.  The  *)
(* command's own flush takes its batch and commits it in two steps, beside *)
(* the command; that of serve is the step of its commit.                   *)
(* A row is its body size, since the statistics are in module UsageIndex.  *)
(* What a filter matches is a set of keys: one for Walk, where prefixes    *)
(* and methods are compared in Go, and one for SQL, where LIKE and = may   *)
(* match others.  The domains command is the unfiltered, unlimited list.   *)
(***************************************************************************)
EXTENDS Integers, FiniteSets, FiniteSetsExt

CONSTANTS
    Keys,
    N,              \* the number of tiers, fastest first
    Sizes,          \* the body sizes of entries; 0 is that of a truncated body
    Good,           \* a .meta object that unmarshals
    Damaged,        \* one that does not
    Absent,         \* the tier has no such object, the table no such row
    PagedTiers,     \* the tiers on S3, where one call lists one page of objects
    PageSize,       \* and how many that are
    Invocations,    \* the commands that may be run
    MaxFaults,      \* bound on the calls of a command that fail
    MaxServed,      \* bound on the operations of the serve process
    InitialTiers,   \* the contents of the tiers at the start
    InitialRows     \* the contents of the table at the start

VARIABLES
    tiers,      \* tier -> key -> part -> the object
    rows,       \* key -> body_size of its row, or Absent
    cmd,        \* the command: where it is, and its local variables
    serve,      \* the serve process: the operation it is in
    served,     \* how many it has started
    buffered,   \* key -> the size of the hits in its buffer, or Absent
    touched     \* history: what serve did to which key since the command started

vars == <<tiers, rows, cmd, serve, served, buffered, touched>>

Tiers == 1..N
Parts == {"meta", "body"}

Objects == [meta : {Good, Damaged, Absent}, body : Sizes \cup {0, Absent}]

\* op       invalidate, list, show or reindex
\* dry      --dry-run
\* byKey    --key rather than another filter or none
\* walk     the keys that the filter matches in Go
\* sql      the keys that it matches in SQL
\* indexed  the index is attached
\* limit    --limit or its default; 0 is none
Command == [op : {"invalidate", "list", "show", "reindex"}, dry : BOOLEAN, byKey : BOOLEAN,
            walk : SUBSET Keys, sql : SUBSET Keys, indexed : BOOLEAN, limit : Nat]

ASSUME CommandsAssumption ==
    /\ Keys # {}
    /\ Sizes \subseteq Nat \ {0}
    /\ PagedTiers \subseteq 1..N /\ PageSize \in Nat
    /\ N \in Nat \ {0} /\ MaxFaults \in Nat /\ MaxServed \in Nat
    /\ Good # Damaged /\ Good # Absent /\ Damaged # Absent /\ Absent \notin Sizes \cup {0}
    /\ \A i \in Invocations :
          /\ i \in Command
          \* runReindex refuses to run without an index, and has no filter
          /\ i.op = "reindex" => i.indexed /\ ~i.byKey /\ i.walk = Keys
          /\ i.byKey => i.walk = i.sql /\ \E k \in Keys : i.walk = {k}
    /\ InitialTiers \subseteq [Tiers -> [Keys -> Objects]]
    /\ InitialRows \subseteq [Keys -> Sizes \cup {Absent}]

Idle == [at |-> "idle"]

Init ==
    /\ tiers \in InitialTiers
    /\ rows \in InitialRows
    /\ cmd = Idle
    /\ serve = Idle
    /\ served = 0
    /\ buffered = [k \in Keys |-> Absent]
    /\ touched = {}

IndexedKeys == {k \in Keys : rows[k] # Absent}

\* The tiers where a lookup would find the object, if those of F fail.
Holding(k, part, F) == {t \in Tiers \ F : tiers[t][k][part] # Absent}

\* What Tiered.Get returns, without faults.
Visible(k, part) ==
    LET H == Holding(k, part, {}) IN IF H = {} THEN Absent ELSE tiers[Min(H)][k][part]

Readable(k) == Visible(k, "meta") = Good

\* The contents after part of k is set to v in the tiers T.
Written(T, k, part, v) ==
    [t \in Tiers |-> IF t \in T THEN [tiers[t] EXCEPT ![k][part] = v] ELSE tiers[t]]

\* One more call of the command may fail.
SqlMayFail == cmd # Idle /\ cmd.faults < MaxFaults

\* The tiers whose call fails in this step.
FailingTiers == {{}} \cup (IF SqlMayFail THEN {{t} : t \in Tiers} ELSE {})

\* Faults are counted; those that the code drops are remembered, for the
\* properties.
Fault(c, F)            == [c EXCEPT !.faults = @ + Cardinality(F)]
DroppedFault(c, F, by) == [Fault(c, F) EXCEPT !.dropped = IF F = {} THEN @ ELSE @ \cup {by}]

-----------------------------------------------------------------------------
(* What a command does next.  These operators give its new local variables.  *)

Fails(c)     == [c EXCEPT !.at = "close", !.ok = FALSE]
Ends(c, out) == [c EXCEPT !.at = "close", !.out = out]
Gets(c, k)   == [c EXCEPT !.at = "get", !.key = k, !.part = "meta"]

\* Mutant: --dry-run is not looked at.
ChosenAlways(c) == [c EXCEPT !.at = "delete", !.left = c.found]

\* collectTargets is done: executeDeletes.
Chosen(c) == IF c.dry THEN Ends(c, c.found) ELSE [c EXCEPT !.at = "delete", !.left = c.found]

\* resolveShowKey: exactly one match.
Resolved(c) ==
    IF Cardinality(c.found) = 1 THEN Gets(c, CHOOSE k \in c.found : TRUE) ELSE Fails(c)

\* The walk has come to its end.
Scanned(c) ==
    CASE c.op = "invalidate" -> Chosen(c)
      [] c.op = "list"       -> Ends(c, c.found)
      [] c.op = "show"       -> Resolved(c)
      [] c.op = "reindex"    -> [c EXCEPT !.at = "keys"]

\* Mutant: one entry too many is listed before the listing is cut.
LimitPassed(c) == c.limit > 0 /\ Cardinality(c.found) > c.limit

LimitReached(c) == c.limit > 0 /\ Cardinality(c.found) >= c.limit

\* The callback of Walk, for an entry that can be read.
Visited(c) ==
    CASE c.key \notin c.walk -> c
      [] c.key \in c.walk /\ c.op = "list" /\ LimitReached(c) ->
             [Ends(c, c.found) EXCEPT !.truncated = TRUE]
      [] c.key \in c.walk /\ c.op = "reindex" /\ ~c.dry ->
             [c EXCEPT !.at = "size", !.found = @ \cup {c.key}]
      [] OTHER -> [c EXCEPT !.found = @ \cup {c.key}]

\* Cache.Get has returned the entry.
Located(c) ==
    IF c.op = "invalidate" THEN Chosen([c EXCEPT !.found = {c.key}]) ELSE [c EXCEPT !.at = "size"]

\* Cache.Get has both files.
Loaded(c) == IF c.indexed THEN [c EXCEPT !.at = "hit"] ELSE Located(c)

\* Tiered.Get has returned v: from Walk, or from Cache.Get for either file.
Got(c, v) ==
    CASE c.at = "walk" -> IF v = Good THEN Visited(c) ELSE c
      [] c.at = "get" /\ c.part = "meta" ->
             IF v = Good THEN [c EXCEPT !.part = "body"] ELSE Fails(c)
      [] c.at = "get" /\ c.part = "body" -> Loaded(c)

\* Tiered.Get has found nothing, or only failing tiers.
Missed(c) ==
    CASE c.at = "walk" -> c
      [] c.at = "get"  -> IF c.indexed THEN [c EXCEPT !.at = "orphan"] ELSE Fails(c)

\* The tier that has it fails while it is read: no reason to touch the row.
Broken(c) == IF c.at = "walk" THEN c ELSE Fails(c)

-----------------------------------------------------------------------------
(* The steps that all commands share. *)

\* start, overtaken and touched are history.
Begin(i) ==
    /\ cmd = Idle
    /\ LET c == [op |-> i.op, dry |-> i.dry, byKey |-> i.byKey, walk |-> i.walk, sql |-> i.sql,
                 indexed |-> i.indexed, limit |-> i.limit,
                 at |-> "list", key |-> CHOOSE k \in Keys : TRUE, part |-> "meta", data |-> Absent,
                 span |-> 0, listed |-> {}, found |-> {}, left |-> {}, hit |-> Absent,
                 size |-> 0, out |-> {}, truncated |-> FALSE, ok |-> TRUE,
                 batch |-> Absent, overtaken |-> FALSE,
                 inserted |-> {}, updated |-> {}, removed |-> {},
                 faults |-> 0, dropped |-> {},
                 start |-> [readable |-> {k \in Keys : Readable(k)}, rows |-> IndexedKeys]]
       IN cmd' = CASE i.indexed /\ (i.op = "list" \/ (i.op = "show" /\ ~i.byKey)) ->
                          [c EXCEPT !.at = "query"]
                   [] i.op = "show" /\ i.byKey -> [c EXCEPT !.at = "exists"]
                   [] i.byKey /\ ~(i.op = "list" /\ i.indexed) /\ i.op # "show" ->
                          Gets(c, CHOOSE k \in i.walk : TRUE)
                   [] OTHER -> c
    /\ touched' = {}
    /\ UNCHANGED <<tiers, rows, serve, served, buffered>>

\* Index.List.  One row more than the limit tells whether the list is cut; which
\* rows are most recent is left open.
Query ==
    /\ cmd.at = "query"
    /\ LET matching == IndexedKeys \cap cmd.sql
       IN \/ /\ SqlMayFail
             /\ cmd' = Fails(Fault(cmd, {1}))
          \/ /\ cmd.op = "show"
             /\ cmd' = Resolved([cmd EXCEPT !.found = matching])
          \/ /\ cmd.op = "list" /\ cmd.byKey /\ matching = {}
             /\ cmd' = Fails(cmd)
          \/ /\ cmd.op = "list" /\ (cmd.byKey => matching # {})
             /\ IF cmd.limit > 0 /\ Cardinality(matching) > cmd.limit
                THEN \E S \in kSubset(cmd.limit, matching) :
                        cmd' = [Ends(cmd, S) EXCEPT !.truncated = TRUE]
                ELSE cmd' = Ends(cmd, matching)
    /\ UNCHANGED <<tiers, rows, serve, served, buffered, touched>>

\* Cache.Exists for show --key.
ExistsForShow == \E F \in FailingTiers :
    /\ cmd.at = "exists"
    /\ LET c == DroppedFault(cmd, F, "storage")
           k == CHOOSE k \in cmd.walk : TRUE
       IN cmd' = IF Holding(k, "meta", F) = {} THEN Fails(c) ELSE Gets(c, k)
    /\ UNCHANGED <<tiers, rows, serve, served, buffered, touched>>

\* What one List call of the tier may return: of both files of all entries, the
\* keys whose metadata it names.  S3.List asks for one page; in the order of
\* names an entry's body comes just before its metadata.
Listings(t) ==
    LET names == {n \in Keys \X Parts : tiers[t][n[1]][n[2]] # Absent}
        pages == IF t \in PagedTiers /\ Cardinality(names) > PageSize
                 THEN {P \in kSubset(PageSize, names) : \A k \in Keys :
                          <<k, "meta">> \in P /\ <<k, "body">> \in names => <<k, "body">> \in P}
                 ELSE {names}
    IN {{k \in Keys : <<k, "meta">> \in P} : P \in pages}

\* Tiered.List: the names from any tier that answers.
List == \E F \in FailingTiers, seen \in [Tiers -> SUBSET Keys] :
    /\ cmd.at = "list"
    /\ \A t \in Tiers : seen[t] \in IF t \in F THEN {{}} ELSE Listings(t)
    /\ cmd' = [DroppedFault(cmd, F, "storage") EXCEPT
                  !.at = "walk", !.listed = UNION {seen[t] : t \in Tiers}]
    /\ UNCHANGED <<tiers, rows, serve, served, buffered, touched>>

\* Tiered.Get, up to where it has the object: from the first tier it is returned
\* as it is, from another the tiers before are filled first.
Read(k) == \E F \in FailingTiers :
    /\ cmd.at \in {"walk", "get"} /\ cmd.span = 0
    /\ IF cmd.at = "walk" THEN k \in cmd.listed ELSE k = cmd.key
    /\ LET c == [DroppedFault(cmd, F, "storage") EXCEPT
                    !.key = k, !.listed = @ \ {k}, !.part = IF cmd.at = "walk" THEN "meta" ELSE @]
           H == Holding(k, c.part, F)
       IN \/ cmd' = IF H = {} THEN Missed(c)
                    ELSE LET v == tiers[Min(H)][k][c.part]
                         IN IF Min(H) = 1 THEN Got(c, v)
                            ELSE [c EXCEPT !.span = Min(H) - 1, !.data = v]
          \/ F # {} /\ F \subseteq Holding(k, c.part, {}) /\ cmd' = Broken(c)
    /\ UNCHANGED <<tiers, rows, serve, served, buffered, touched>>

\* A failing write leaves the object alone, or a part of it.
Torn(part) == IF part = "meta" THEN Damaged ELSE 0

Fill == \E F \in FailingTiers :
    /\ cmd.at \in {"walk", "get"} /\ cmd.span > 0
    /\ LET full == Written((1..cmd.span) \ F, cmd.key, cmd.part, cmd.data)
       IN \/ tiers' = full
          \/ F # {} /\ F \subseteq 1..cmd.span
             /\ tiers' = [full EXCEPT ![Min(F)][cmd.key][cmd.part] = Torn(cmd.part)]
    /\ cmd' = Got([DroppedFault(cmd, F, "storage") EXCEPT !.span = 0], cmd.data)
    /\ UNCHANGED <<rows, serve, served, buffered, touched>>

WalkEnds ==
    /\ cmd.at = "walk" /\ cmd.span = 0
    /\ cmd.listed = {}
    /\ cmd' = Scanned(cmd)
    /\ UNCHANGED <<tiers, rows, serve, served, buffered, touched>>

\* Cache.Get found no file: Index.Delete, and the command fails.
DropOrphan ==
    /\ cmd.at = "orphan"
    /\ \/ rows' = [rows EXCEPT ![cmd.key] = Absent] /\ cmd' = Fails(cmd)
       \/ SqlMayFail /\ cmd' = Fails(DroppedFault(cmd, {1}, "index")) /\ UNCHANGED rows
    /\ UNCHANGED <<tiers, serve, served, buffered, touched>>

\* A flush of the command's own buffer makes the row if there is none.
UpsertRow(size) ==
    rows' = IF rows[cmd.key] = Absent THEN [rows EXCEPT ![cmd.key] = size] ELSE rows

\* flushLoop, the command's second goroutine: the timer fires before the command
\* ends, and the buffer is swapped for an empty one.
SwapHit ==
    /\ cmd.at \in {"size", "delete", "deleteFile", "deleteRow", "raced", "dropHit"}
    /\ cmd.hit # Absent
    /\ cmd' = [cmd EXCEPT !.batch = cmd.hit, !.hit = Absent]
    /\ UNCHANGED <<tiers, rows, serve, served, buffered, touched>>

\* The batch is committed.  History: not in the midst of Index.Delete?
CommitHit ==
    /\ cmd # Idle /\ cmd.batch # Absent
    /\ UpsertRow(cmd.batch)
    /\ cmd' = [cmd EXCEPT !.batch = Absent, !.overtaken = @ \/ cmd.at = "dropHit"]
    /\ UNCHANGED <<tiers, serve, served, buffered, touched>>

\* Or it is refused, and requeue puts it back into the buffer.
RequeueHit ==
    /\ cmd # Idle /\ cmd.batch # Absent
    /\ SqlMayFail
    /\ cmd' = [Fault(cmd, {1}) EXCEPT !.hit = cmd.batch, !.batch = Absent]
    /\ UNCHANGED <<tiers, rows, serve, served, buffered, touched>>

\* Index.Close waits for a flush under way and makes a last one, whose error is
\* dropped.
Close ==
    /\ cmd.at = "close"
    /\ cmd.batch = Absent
    /\ \/ cmd.hit = Absent /\ UNCHANGED rows /\ cmd' = [cmd EXCEPT !.at = "done"]
       \/ cmd.hit # Absent /\ UpsertRow(cmd.hit) /\ cmd' = [cmd EXCEPT !.at = "done"]
       \/ /\ cmd.hit # Absent /\ SqlMayFail
          /\ cmd' = [DroppedFault(cmd, {1}, "index") EXCEPT !.at = "done"]
          /\ UNCHANGED rows
    /\ UNCHANGED <<tiers, serve, served, buffered, touched>>

-----------------------------------------------------------------------------
(* executeDeletes: Cache.Delete for each target. *)

\* Exists first; a target that is gone has its row deleted and is not counted.
DeleteNext(k) == \E F \in FailingTiers :
    /\ cmd.at = "delete"
    /\ k \in cmd.left
    /\ LET c == [DroppedFault(cmd, F, "storage") EXCEPT !.key = k, !.left = @ \ {k}]
       IN cmd' = IF Holding(k, "meta", F) = {} THEN [c EXCEPT !.at = "raced"]
                 ELSE [c EXCEPT !.at = "deleteFile", !.part = "meta"]
    /\ UNCHANGED <<tiers, rows, serve, served, buffered, touched>>

\* Mutant: Tiered.Delete fails only when all tiers do.
AllFailed(F) == F = Tiers

AnyFailed(F) == F # {}

\* Tiered.Delete.  After an error the entry's other file and its row stay.
DeleteFile == \E F \in FailingTiers :
    /\ cmd.at = "deleteFile"
    /\ tiers' = Written(Tiers \ F, cmd.key, cmd.part, Absent)
    /\ LET c == Fault(cmd, F)
       IN cmd' = CASE AnyFailed(F) -> [c EXCEPT !.at = "delete", !.ok = FALSE]
                   [] ~AnyFailed(F) /\ cmd.part = "meta" -> [c EXCEPT !.part = "body"]
                   [] ~AnyFailed(F) /\ cmd.part = "body" -> [c EXCEPT !.at = "deleteRow"]
    /\ UNCHANGED <<rows, serve, served, buffered, touched>>

\* Index.Delete; its error is dropped.  First the row, if there is an index,
DeleteRow ==
    /\ cmd.at \in {"deleteRow", "raced"}
    /\ LET c == [cmd EXCEPT !.out = IF cmd.at = "raced" THEN @ ELSE @ \cup {cmd.key}]
       IN \/ /\ cmd.indexed
             /\ rows' = [rows EXCEPT ![cmd.key] = Absent]
             /\ cmd' = [c EXCEPT !.at = "dropHit"]
          \/ /\ cmd.indexed /\ SqlMayFail
             /\ cmd' = [DroppedFault(c, {1}, "index") EXCEPT !.at = "delete"]
             /\ UNCHANGED rows
          \/ /\ ~cmd.indexed
             /\ cmd' = [c EXCEPT !.at = "delete"]
             /\ UNCHANGED rows
    /\ UNCHANGED <<tiers, serve, served, buffered, touched>>

\* Mutant: the buffered hit stays.
KeepsHit(c) == c

\* then the hit, unless a flush has taken it meanwhile.
DropsHit(c) == [c EXCEPT !.hit = Absent]

DropHit ==
    /\ cmd.at = "dropHit"
    /\ cmd' = [DropsHit(cmd) EXCEPT !.at = "delete", !.overtaken = @ \/ cmd.batch # Absent]
    /\ UNCHANGED <<tiers, rows, serve, served, buffered, touched>>

DeletesEnd ==
    /\ cmd.at = "delete"
    /\ cmd.left = {}
    /\ cmd' = [cmd EXCEPT !.at = "close"]
    /\ UNCHANGED <<tiers, rows, serve, served, buffered, touched>>

-----------------------------------------------------------------------------
(* Sizes, and runReindex: the rows are brought in line with what the walk    *)
(* reads.                                                                    *)

\* Mutant: the last tier is asked.
LastSize(k, F) ==
    LET H == Holding(k, "body", F) IN IF H = {} THEN Absent ELSE tiers[Max(H)][k]["body"]

\* Mutant: -1, which list prints, instead of the error.
SizeOrMinusOne(k, F) ==
    LET H == Holding(k, "body", {})
    IN IF H = {} \/ \E t \in F : t <= Min(H) THEN -1 ELSE tiers[Min(H)][k]["body"]

\* Tiered.Size stops at the first tier that has the body or fails.
BodySize(k, F) ==
    LET H == Holding(k, "body", {})
    IN IF H = {} \/ \E t \in F : t <= Min(H) THEN Absent ELSE tiers[Min(H)][k]["body"]

\* The end of Cache.Get: the hit goes into the command's own buffer, with the
\* size for a new row, and an error for size 0.
RecordHit == \E F \in FailingTiers :
    /\ cmd.at = "hit"
    /\ LET n == BodySize(cmd.key, F)
       IN cmd' = Located([DroppedFault(cmd, F, "size") EXCEPT !.hit = IF n = Absent THEN 0 ELSE n])
    /\ UNCHANGED <<tiers, rows, serve, served, buffered, touched>>

\* Reindex takes an error for size 0; list --key and show end with it.
Size == \E F \in FailingTiers :
    /\ cmd.at = "size"
    /\ LET n == BodySize(cmd.key, F)
       IN cmd' = CASE cmd.op = "reindex" ->
                          [DroppedFault(cmd, F, "storage") EXCEPT
                              !.at = "upsert", !.size = IF n = Absent THEN 0 ELSE n]
                   [] cmd.op # "reindex" /\ n = Absent -> Fails(Fault(cmd, F))
                   [] cmd.op # "reindex" /\ n # Absent -> Ends(Fault(cmd, F), {cmd.key})
    /\ UNCHANGED <<tiers, rows, serve, served, buffered, touched>>

\* Mutant: the row is probed after it was written.
ProbedLate(k) == TRUE

\* Index.Get finds a row.
Probed(k) == rows[k] # Absent

\* Index.Get, for the counts, and Index.Upsert.
Upsert ==
    /\ cmd.at = "upsert"
    /\ \/ /\ rows' = [rows EXCEPT ![cmd.key] = cmd.size]
          /\ cmd' = IF Probed(cmd.key)
                    THEN [cmd EXCEPT !.at = "walk", !.updated = @ \cup {cmd.key}]
                    ELSE [cmd EXCEPT !.at = "walk", !.inserted = @ \cup {cmd.key}]
       \/ /\ SqlMayFail
          /\ cmd' = Fails(Fault(cmd, {1}))
          /\ UNCHANGED rows
    /\ UNCHANGED <<tiers, serve, served, buffered, touched>>

Orphans == IndexedKeys \ cmd.found

\* Index.AllKeys.  The dry run compares and is done.
AllKeys ==
    /\ cmd.at = "keys"
    /\ \/ SqlMayFail /\ cmd' = Fails(Fault(cmd, {1}))
       \/ cmd' = IF cmd.dry
                 THEN [Ends(cmd, {}) EXCEPT !.inserted = cmd.found \ IndexedKeys,
                                            !.updated  = cmd.found \cap IndexedKeys,
                                            !.removed  = Orphans]
                 ELSE [cmd EXCEPT !.at = "orphans", !.left = Orphans]
    /\ UNCHANGED <<tiers, rows, serve, served, buffered, touched>>

DeleteOrphan(k) ==
    /\ cmd.at = "orphans"
    /\ k \in cmd.left
    /\ \/ /\ rows' = [rows EXCEPT ![k] = Absent]
          /\ cmd' = [cmd EXCEPT !.left = @ \ {k}, !.removed = @ \cup {k}]
       \/ /\ SqlMayFail
          /\ cmd' = Fails(Fault(cmd, {1}))
          /\ UNCHANGED rows
    /\ UNCHANGED <<tiers, serve, served, buffered, touched>>

OrphansEnd ==
    /\ cmd.at = "orphans"
    /\ cmd.left = {}
    /\ cmd' = [cmd EXCEPT !.at = "close"]
    /\ UNCHANGED <<tiers, rows, serve, served, buffered, touched>>

CommandStep ==
    \/ \E i \in Invocations : Begin(i)
    \/ Query \/ ExistsForShow \/ List \/ Fill \/ WalkEnds \/ DropOrphan
    \/ SwapHit \/ CommitHit \/ RequeueHit \/ Close
    \/ DeleteFile \/ DeleteRow \/ DropHit \/ DeletesEnd
    \/ RecordHit \/ Size \/ Upsert \/ AllKeys \/ OrphansEnd
    \/ \E k \in Keys : Read(k) \/ DeleteNext(k) \/ DeleteOrphan(k)

-----------------------------------------------------------------------------
(* The serve process: Cache.Put, Get and Delete of one entry at a time.  Its *)
(* calls do not fail here: modules TieredStore and UsageIndex have that.     *)

Touch(k, act) == touched' = touched \cup {<<k, act>>}

Begun(op) == serve = Idle /\ served < MaxServed /\ served' = served + 1

ServePut(k) == \E size \in Sizes :
    /\ Begun("put")
    /\ tiers' = Written(Tiers, k, "meta", Good)
    /\ serve' = [at |-> "putBody", key |-> k, size |-> size]
    /\ Touch(k, "put")
    /\ UNCHANGED <<rows, cmd, buffered>>

ServePutBody ==
    /\ serve.at = "putBody"
    /\ tiers' = Written(Tiers, serve.key, "body", serve.size)
    /\ serve' = [serve EXCEPT !.at = "insert"]
    /\ Touch(serve.key, "put")
    /\ UNCHANGED <<rows, cmd, served, buffered>>

ServeInsert ==
    /\ serve.at = "insert"
    /\ rows' = [rows EXCEPT ![serve.key] = serve.size]
    /\ serve' = Idle
    /\ Touch(serve.key, "put")
    /\ UNCHANGED <<tiers, cmd, served, buffered>>

\* What follows in Cache.Get when it has read the part.
ServeGot(k, part, v) ==
    CASE part = "meta" -> IF v = Good THEN [at |-> "getBody", key |-> k] ELSE Idle
      [] part = "body" -> [at |-> "hit", key |-> k]

\* Cache.Get: a part is read, and filled into the tiers before.
ServeRead(k, part) ==
    LET H == Holding(k, part, {})
    IN serve' = CASE H = {} -> [at |-> "dropRow", key |-> k]
                  [] H # {} /\ Min(H) > 1 ->
                         [at |-> "fill", key |-> k, part |-> part, span |-> Min(H) - 1,
                          data |-> tiers[Min(H)][k][part]]
                  [] H # {} /\ Min(H) = 1 -> ServeGot(k, part, tiers[1][k][part])

ServeGet(k) ==
    /\ Begun("get")
    /\ ServeRead(k, "meta")
    /\ UNCHANGED <<tiers, rows, cmd, buffered, touched>>

ServeFill ==
    /\ serve.at = "fill"
    /\ tiers' = Written(1..serve.span, serve.key, serve.part, serve.data)
    /\ serve' = ServeGot(serve.key, serve.part, serve.data)
    /\ Touch(serve.key, "fill")
    /\ UNCHANGED <<rows, cmd, served, buffered>>

ServeGetBody ==
    /\ serve.at = "getBody"
    /\ ServeRead(serve.key, "body")
    /\ UNCHANGED <<tiers, rows, cmd, served, buffered, touched>>

\* The end of Cache.Get: the hit goes into the buffer.
ServeHit ==
    /\ serve.at = "hit"
    /\ LET n == BodySize(serve.key, {})
       IN buffered' = [buffered EXCEPT ![serve.key] = IF n = Absent THEN 0 ELSE n]
    /\ serve' = Idle
    /\ UNCHANGED <<tiers, rows, cmd, served, touched>>

\* The flush commits: a row is made for the hits of a key that has none.
ServeFlush ==
    /\ \E k \in Keys : buffered[k] # Absent
    /\ rows' = [k \in Keys |-> IF rows[k] = Absent THEN buffered[k] ELSE rows[k]]
    /\ touched' = touched \cup {<<k, "row">> : k \in {j \in Keys : rows'[j] # rows[j]}}
    /\ buffered' = [k \in Keys |-> Absent]
    /\ UNCHANGED <<tiers, cmd, serve, served>>

\* Cache.Delete, after a digest mismatch.
ServeDelete(k) ==
    /\ Begun("delete")
    /\ IF Holding(k, "meta", {}) = {}
       THEN /\ serve' = [at |-> "dropRow", key |-> k]
            /\ UNCHANGED <<tiers, touched>>
       ELSE /\ serve' = [at |-> "deleteBody", key |-> k]
            /\ tiers' = Written(Tiers, k, "meta", Absent)
            /\ Touch(k, "delete")
    /\ UNCHANGED <<rows, cmd, buffered>>

ServeDeleteBody ==
    /\ serve.at = "deleteBody"
    /\ tiers' = Written(Tiers, serve.key, "body", Absent)
    /\ serve' = [at |-> "dropRow", key |-> serve.key]
    /\ Touch(serve.key, "delete")
    /\ UNCHANGED <<rows, cmd, served, buffered>>

ServeDropRow ==
    /\ serve.at = "dropRow"
    /\ rows' = [rows EXCEPT ![serve.key] = Absent]
    /\ buffered' = [buffered EXCEPT ![serve.key] = Absent]
    /\ serve' = Idle
    /\ Touch(serve.key, "delete")
    /\ UNCHANGED <<tiers, cmd, served>>

Serve ==
    \/ \E k \in Keys : ServePut(k) \/ ServeGet(k) \/ ServeDelete(k)
    \/ ServePutBody \/ ServeInsert \/ ServeFill \/ ServeGetBody \/ ServeHit \/ ServeFlush
    \/ ServeDeleteBody \/ ServeDropRow

Next == CommandStep \/ Serve

Spec == Init /\ [][Next]_vars

-----------------------------------------------------------------------------
(* Properties.  Keys that serve writes while the command runs may be read    *)
(* before and written after, so nothing is promised for them: which acts of  *)
(* serve are meant is part of each property.                                 *)

Untouched(k, acts) == \A act \in acts : <<k, act>> \notin touched

Done(op) == cmd.at = "done" /\ cmd.op = op /\ cmd.ok

\* Every variable keeps its type; no row has a size that would count against
\* others in TotalBodySize.
TypeOK ==
    /\ tiers \in [Tiers -> [Keys -> Objects]]
    /\ rows \in [Keys -> Sizes \cup {0, Absent}]
    /\ served \in 0..MaxServed
    /\ buffered \in [Keys -> Sizes \cup {0, Absent}]
    /\ touched \subseteq Keys \X {"put", "fill", "delete", "row"}
    /\ cmd # Idle => cmd.op \in {"invalidate", "list", "show", "reindex"} /\ cmd.faults <= MaxFaults

\* When invalidate is done, no tier holds the metadata of an entry that it
\* reports as deleted, or, when it has ended well, of one that could be read when
\* it began and that it was to delete, so that nobody is served the entry again;
\* its row is gone as well, at the latest when serve is through with a deletion
\* of its own, unless serve has flushed an old hit or the command's own flush had
\* the looked-up hit under way during Index.Delete; and so is its body unless
\* serve has deleted it at the same time.  This holds while serve reads and
\* deletes, and for entries of which some tier has only a part; it does not for a
\* tier whose error was dropped (runInvalidate, executeDeletes, Cache.Delete).
InvalidateComplete ==
    cmd.at = "done" /\ cmd.op = "invalidate" /\ ~cmd.dry /\ "storage" \notin cmd.dropped =>
        \A k \in cmd.out \cup (IF cmd.ok THEN cmd.walk \cap cmd.start.readable ELSE {}) :
            Untouched(k, {"put", "fill"}) =>
                /\ \A t \in Tiers : tiers[t][k]["meta"] = Absent
                /\ (/\ serve = Idle /\ Untouched(k, {"row"})
                    /\ cmd.indexed /\ "index" \notin cmd.dropped /\ ~cmd.overtaken)
                       => rows[k] = Absent
                /\ Untouched(k, {"delete"}) => \A t \in Tiers : tiers[t][k]["body"] = Absent

\* "--all: delete every entry" (newCacheInvalidateCmd): when it ends well and no
\* call has failed, no entry that could be read when it began can be read again.
DeletesEveryEntry ==
    Done("invalidate") /\ ~cmd.dry /\ cmd.walk = Keys /\ cmd.faults = 0 =>
        \A k \in cmd.start.readable : Untouched(k, {"put", "fill"}) => ~Readable(k)

\* What invalidate and reindex report, with --dry-run or without, is what was
\* there when they began: the dry run forecasts the real one, whatever serve
\* reads in between and the walk fills into faster tiers (executeDeletes,
\* runReindex, Cache.Reindex).
ReportExact ==
    (cmd.at = "done" /\ cmd.ok /\ cmd.dropped = {}) =>
        \A k \in Keys : Untouched(k, {"put", "delete", "row"}) =>
            LET readable == k \in cmd.start.readable
                row      == k \in cmd.start.rows
            IN /\ cmd.op = "invalidate" => (k \in cmd.out <=> (readable /\ k \in cmd.walk))
               /\ cmd.op = "reindex" =>
                      /\ k \in cmd.inserted <=> (readable /\ ~row)
                      /\ k \in cmd.updated  <=> (readable /\ row)
                      /\ k \in cmd.removed  <=> (row /\ ~readable)

\* After a reindex that ended well, a row stands for exactly the entries that
\* can be read from some tier, with the size of the body that Get would return
\* (Cache.Reindex over Tiered.List, Get and Size).
TiersIndexed ==
    Done("reindex") /\ ~cmd.dry /\ cmd.dropped = {} =>
        \A k \in Keys : Untouched(k, {"put", "delete", "row"}) =>
            rows[k] = CASE ~Readable(k) -> Absent
                        [] Readable(k) /\ Visible(k, "body") = Absent -> 0
                        [] Readable(k) /\ Visible(k, "body") # Absent -> Visible(k, "body")

\* A listing has no more entries than the limit.  One that is not reported as
\* truncated has every matching entry that was there all the time, from the
\* index or from the walk; one that is reported is cut at the limit and lacks
\* some entry (runList).
ListComplete ==
    Done("list") /\ "storage" \notin cmd.dropped =>
        LET there == IF cmd.indexed THEN cmd.start.rows \cap cmd.sql
                     ELSE cmd.start.readable \cap cmd.walk
            still == {k \in there : Untouched(k, {"put", "delete"})}
        IN /\ cmd.limit > 0 /\ ~cmd.byKey => Cardinality(cmd.out) <= cmd.limit
           /\ ~cmd.truncated => still \subseteq cmd.out
           /\ cmd.truncated => Cardinality(cmd.out) = cmd.limit
           /\ cmd.truncated /\ (\A k \in Keys : Untouched(k, {"put", "delete", "row"}))
                  => there \ cmd.out # {}

\* When a command is done, a row that it added is that of an entry that can be
\* read, and one that it took away is not: no row is taken for an orphan, and a
\* buffered hit brings back the row of an entry that the command has deleted
\* itself only when its flush was under way during Index.Delete (Index.Delete,
\* Index.Flush, Close, DropOrphan, DeleteOrphan).
RowsFollow ==
    cmd.at = "done" /\ cmd.dropped = {} /\ ~cmd.overtaken =>
        \A k \in Keys : Untouched(k, {"put", "fill", "delete", "row"}) =>
            /\ cmd.ok /\ rows[k] # Absent /\ k \notin cmd.start.rows => Readable(k)
            /\ rows[k] = Absent /\ k \in cmd.start.rows =>
                   ~Readable(k) \/ Visible(k, "body") = Absent

\* The step is one of the command, so far without a dropped error, and serve
\* has not changed k.
Accounts(k) == cmd' # cmd /\ cmd'.dropped = {} /\ Untouched(k, {"put", "delete"})'

Target(k) == cmd'.op = "invalidate" /\ ~cmd'.dry /\ k \in cmd'.walk

\* No step of a command changes what Get returns of an entry that it was not
\* told to delete: not of a list, show or dry run, which write into the faster
\* tiers what they read from slower ones, also when serve fills the same entry
\* at the same time (Tiered.Get, runInvalidate).
OthersUntouched == [][\A k \in Keys :
    Accounts(k) /\ ~Target(k) =>
        \A part \in Parts : Visible(k, part)' = Visible(k, part)]_vars

=============================================================================
