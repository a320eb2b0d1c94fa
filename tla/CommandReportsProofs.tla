------------------------ MODULE CommandReportsProofs ------------------------
(***************************************************************************)
(* What the cache commands report, and the rows they leave: theorems for   *)
(* any number of keys and tiers, any filters and limits, any failing calls *)
(* and operations of serve.                                                *)
(*                                                                         *)
(* PathOf is what is known of a command by where it is.  FoundOf follows   *)
(* a key through the walk: listed, in hand, found.  On these rest what an  *)
(* invalidation and a reindex count (ReportInv), what a list shows         *)
(* (ListInv), and which rows are there in the end (FollowInv).             *)
(***************************************************************************)
EXTENDS CacheCommandsProofs

\* What a command has decided and counted by where it is.
PathOf(c) ==
    /\ c.op = "reindex" => c.indexed /\ ~c.byKey /\ c.walk = Keys
    /\ c.at \in {"list", "walk"} => ~c.byKey
    /\ c.at \in {"query", "exists", "list", "walk", "get", "hit", "orphan"} => c.hit = Absent
    /\ c.at \in BeforeDeletes => c.ok /\ c.out = {} /\ ~c.truncated
    /\ c.at \notin {"orphans", "close", "done"} => c.removed = {}
    /\ c.at = "list" => c.found = {}
    /\ c.at \in {"hit", "orphan"} => c.indexed
    /\ c.op = "list" /\ c.indexed => c.at \in {"query", "close", "done"}
    /\ c.op = "list" /\ c.at = "size" => c.byKey /\ c.walk = {c.key}
    /\ c.op = "reindex" /\ c.at \in {"size", "upsert"} => ~c.dry /\ c.key \in c.found
    /\ c.at = "orphans" => ~c.dry /\ c.left \cap c.found = {}
    /\ c.hit # Absent \/ c.batch # Absent =>
          c.indexed /\ (c.op = "show" \/ (c.op = "invalidate" /\ c.walk = {c.key}))

PathInv == cmd # Idle => PathOf(cmd)

-----------------------------------------------------------------------------
(* What the walk finds.                                                      *)

Walking == {"walk", "size", "upsert"}

\* So far no call of the command has failed that matters to the walk, and serve has
\* only read k.
Quiet(k) == cmd.ok /\ "storage" \notin cmd.dropped /\ Untouched(k, {"put", "delete"})

\* The command is one that takes its keys from the walk or from Cache.Get.
Collects == cmd.op # "show" /\ ~(cmd.op = "list" /\ (cmd.indexed \/ cmd.byKey))

Matching(k) == k \in cmd.walk /\ k \in cmd.start.readable

\* A matching entry is listed, in hand or found, and nothing else is found.
FoundOf(k) ==
    /\ k \in cmd.found /\ cmd.op # "show" => Matching(k)
    /\ cmd.at \in Walking /\ ~cmd.byKey /\ cmd.op # "show" =>
          /\ k \in cmd.listed => k \notin cmd.found /\ ~InFilling(k)
          /\ k \in cmd.found => ~InFilling(k)
          /\ Matching(k) => k \in cmd.listed \/ k \in cmd.found \/ InFilling(k)
    /\ cmd.at \in {"keys", "orphans", "close", "done"} \cup Deleting /\ Collects /\ ~cmd.truncated =>
          (Matching(k) => k \in cmd.found)
    /\ cmd.at = "hit" \/ (cmd.at = "get" /\ cmd.part = "body") =>
          (cmd.key = k => k \in cmd.start.readable)

FoundInv == cmd # Idle => \A k \in Keys : Quiet(k) => FoundOf(k)

-----------------------------------------------------------------------------
(* What invalidate and reindex report.                                       *)

\* No call has failed, and serve has at most filled k into a faster tier.
Steady(k) == cmd.ok /\ cmd.dropped = {} /\ Untouched(k, {"put", "delete", "row"})

InvalidatedOf(k) ==
    /\ cmd.at \in Deleting =>
          /\ k \in cmd.left \/ InDeletion(k) \/ k \in cmd.out <=> Matching(k)
          /\ InDeletion(k) => cmd.at # "raced" /\ (cmd.at = "dropHit" => k \in cmd.out)
    /\ cmd.at \in {"close", "done"} => (k \in cmd.out <=> Matching(k))

\* The body size that a row of k should have.
SizeNow(k) ==
    IF VisibleIn(tiers, k, "body") = Absent THEN 0 ELSE VisibleIn(tiers, k, "body")

\* The reindex has written the row of k.
Indexed(k) == ~cmd.dry /\ k \in cmd.found /\ ~(cmd.at \in {"size", "upsert"} /\ cmd.key = k)

Row(k)  == k \in cmd.start.rows
Orphan(k) == Row(k) /\ k \notin cmd.start.readable

ReindexedOf(k) ==
    /\ cmd.at \notin {"close", "done"} =>
          /\ k \in cmd.inserted <=> Indexed(k) /\ ~Row(k)
          /\ k \in cmd.updated  <=> Indexed(k) /\ Row(k)
    /\ cmd.at = "upsert" /\ cmd.key = k => cmd.size = SizeNow(k)
    /\ cmd.at = "orphans" => (k \in cmd.left \/ k \in cmd.removed <=> Orphan(k))
    /\ cmd.at \in {"close", "done"} =>
          /\ k \in cmd.inserted <=> k \in cmd.start.readable /\ ~Row(k)
          /\ k \in cmd.updated  <=> k \in cmd.start.readable /\ Row(k)
          /\ k \in cmd.removed  <=> Orphan(k)
          /\ ~cmd.dry => (Indexed(k) <=> k \in cmd.start.readable)
    /\ Indexed(k) => rows[k] = SizeNow(k)
    /\ cmd.dry \/ (~Indexed(k) /\ k \notin cmd.removed) => (rows[k] # Absent <=> Row(k))
    /\ ~cmd.dry /\ k \in cmd.removed => rows[k] = Absent

ReportInv == cmd # Idle => \A k \in Keys : Steady(k) =>
    /\ cmd.op = "invalidate" => InvalidatedOf(k)
    /\ cmd.op = "reindex" => ReindexedOf(k)

-----------------------------------------------------------------------------
(* What list shows.                                                          *)

There == IF cmd.indexed THEN cmd.start.rows \cap cmd.sql ELSE cmd.start.readable \cap cmd.walk

ListOf ==
    /\ cmd.at = "walk" /\ cmd.limit > 0 => Cardinality(cmd.found) <= cmd.limit
    /\ cmd.at = "query" => \A k \in Keys :
          /\ Row(k) /\ Untouched(k, {"put", "delete"}) => rows[k] # Absent
          /\ Untouched(k, {"put", "delete", "row"}) => (rows[k] # Absent <=> Row(k))
    /\ cmd.at \in {"close", "done"} /\ cmd.ok =>
          /\ cmd.limit > 0 /\ ~cmd.byKey => Cardinality(cmd.out) <= cmd.limit
          /\ cmd.truncated => Cardinality(cmd.out) = cmd.limit
          /\ ~cmd.truncated => \A k \in There : Quiet(k) => k \in cmd.out
          /\ cmd.truncated /\ "storage" \notin cmd.dropped
             /\ (\A k \in Keys : Untouched(k, {"put", "delete", "row"})) => There \ cmd.out # {}

ListInv == cmd # Idle /\ cmd.op = "list" => ListOf

-----------------------------------------------------------------------------
(* Which rows are there.                                                     *)

\* No error was dropped, no flush was under way during Index.Delete, and serve has
\* not changed k or its row at all.
Alone(k) ==
    cmd.dropped = {} /\ ~cmd.overtaken /\ Untouched(k, {"put", "fill", "delete", "row"})

\* The command's own hit is in its buffer or in a batch.
Held == cmd.hit # Absent \/ cmd.batch # Absent

\* Cache.Delete is through with the metadata of k.
PastMeta(k) ==
    InDeletion(k) /\ (cmd.at \in {"deleteRow", "raced", "dropHit"} \/ (cmd.at = "deleteFile" /\ cmd.part = "body"))

FollowedOf(k) ==
    /\ cmd.ok /\ rows[k] # Absent /\ ~Row(k) => Readable(k) \/ InDeletion(k)
    /\ cmd.ok /\ Held /\ cmd.key = k => Readable(k) \/ InDeletion(k)
    /\ ~cmd.indexed => (rows[k] # Absent <=> Row(k))
    /\ rows[k] = Absent /\ Row(k) =>
          /\ cmd.at \notin BeforeDeletes \ {"orphans"}
          /\ ~(cmd.at \in Deleting /\ k \in cmd.left) /\ (InDeletion(k) => PastMeta(k))
          /\ ~Readable(k) \/ Visible(k, "body") = Absent
    /\ PastMeta(k) => Clean(k)
    /\ InDeletion(k) /\ cmd.at = "dropHit" => rows[k] = Absent
    /\ cmd.at = "orphan" /\ cmd.key = k => Visible(k, cmd.part) = Absent

FollowInv == cmd # Idle => \A k \in Keys : Alone(k) => FollowedOf(k)

-----------------------------------------------------------------------------
(* What Tiered.Get leaves, for Walk and for Cache.Get.                       *)

\* c is the command with the object it has asked for, and cmd' what follows: the
\* object is given up, in the first tier, or to be filled.  If no tier has failed
\* and nobody changes the entry, it is what a read returns.
Handled(c) ==
    /\ Only({"key", "listed", "part", "span", "faults", "dropped"}, cmd, c)
    /\ cmd'.dropped = c.dropped /\ c.span = 0 /\ c.at \in {"walk", "get"}
    /\ c.at = "walk" => c.part = "meta"
    /\ c.at = "get"  => c.key = cmd.key /\ c.part = cmd.part
    /\ \/ cmd.span = 0 /\ c.listed = cmd.listed \ {c.key} /\ (c.at = "walk" => c.key \in cmd.listed)
       \/ cmd.span > 0 /\ c.listed = cmd.listed /\ c.key = cmd.key
    /\ LET clean == "storage" \notin cmd'.dropped /\ Undisturbed(cmd, touched, c.key)
           seen  == VisibleIn(tiers, c.key, c.part)
       IN \/ /\ \/ GivenUp(c, cmd')
                \/ c.at = "get" /\ c.indexed /\ Only({"at"}, c, cmd') /\ cmd'.at = "orphan"
             /\ cmd'.at # "orphan" => cmd'.at = "walk" \/ ~cmd'.ok
             /\ clean => seen = Absent
          \/ \E v : Advanced(c, v, cmd') /\ (clean => seen = v)
          \/ cmd.span = 0 /\ Only({"span", "data"}, c, cmd') /\ cmd'.span > 0

LEMMA ReadHandled ==
    ASSUME TypeInv, NEW k \in Keys, Read(k)
    PROVE  \E c \in CommandState : Handled(c)
<1>1. /\ cmd \in CommandState /\ cmd.at \in {"walk", "get"} /\ cmd.span = 0
      /\ IF cmd.at = "walk" THEN k \in cmd.listed ELSE k = cmd.key
  BY ReadFacts DEF TypeInv
<1>2. PICK F \in FailingTiers, c \in CommandState :
         /\ AfterCall({"key", "listed", "part"}, F, c)
         /\ c.key = k /\ c.listed = cmd.listed \ {k}
         /\ c.part = IF cmd.at = "walk" THEN "meta" ELSE cmd.part
         /\ LET H == Holding(k, c.part, F) IN
            \/ H = {} /\ (\/ GivenUp(c, cmd')
                          \/ /\ c.at = "get" /\ c.indexed
                             /\ Only({"at"}, c, cmd') /\ cmd'.at = "orphan")
            \/ /\ H # {} /\ Min(H) = 1
               /\ Advanced(c, tiers[1][k][c.part], cmd')
            \/ /\ H # {} /\ Min(H) # 1
               /\ Only({"span", "data"}, c, cmd')
               /\ cmd'.span = Min(H) - 1 /\ cmd'.data = tiers[Min(H)][k][c.part]
            \/ F # {} /\ GivenUp(c, cmd')
  BY ReadFacts DEF TypeInv
<1> DEFINE H == Holding(k, c.part, F)
<1>3. c.at = cmd.at /\ c.span = 0
      /\ Only({"key", "listed", "part", "span", "faults", "dropped"}, cmd, c)
  BY <1>1, <1>2 DEF AfterCall, Only, Fields
<1>4. cmd'.dropped = c.dropped
  <2>1. ASSUME GivenUp(c, cmd') PROVE cmd'.dropped = c.dropped
    BY <2>1 DEF GivenUp, Only, Fields
  <2>2. ASSUME Only({"at"}, c, cmd') \/ Only({"span", "data"}, c, cmd') PROVE cmd'.dropped = c.dropped
    BY <2>2 DEF Only, Fields
  <2> QED
    BY <1>2, <2>1, <2>2, AdvancedKeeps
<1>5. "storage" \notin cmd'.dropped => F = {}
  BY <1>2, <1>4 DEF AfterCall
<1>6. F = {} => VisibleIn(tiers, k, c.part) = IF H = {} THEN Absent ELSE tiers[Min(H)][k][c.part]
  BY VisibleIs DEF Visible
<1>7. H # {} => Min(H) \in Tiers
  BY HoldingFacts
<1>8. GivenUp(c, cmd') => cmd'.at = "walk" \/ ~cmd'.ok
  BY DEF GivenUp
<1> HIDE DEF H
<1>9. CASE H = {} /\ (\/ GivenUp(c, cmd')
                      \/ c.at = "get" /\ c.indexed /\ Only({"at"}, c, cmd') /\ cmd'.at = "orphan")
  BY <1>1, <1>2, <1>3, <1>4, <1>5, <1>6, <1>8, <1>9 DEF Handled
<1>10. CASE H # {} /\ Min(H) = 1 /\ Advanced(c, tiers[1][k][c.part], cmd')
  <2>1. "storage" \notin cmd'.dropped => VisibleIn(tiers, c.key, c.part) = tiers[1][k][c.part]
    BY <1>2, <1>5, <1>6, <1>10
  <2> QED
    BY <1>1, <1>2, <1>3, <1>4, <1>10, <2>1 DEF Handled
<1>11. CASE H # {} /\ Min(H) # 1 /\ Only({"span", "data"}, c, cmd') /\ cmd'.span = Min(H) - 1
  <2>1. cmd'.span > 0
    BY <1>7, <1>11, Basics
  <2> QED
    BY <1>1, <1>2, <1>3, <1>4, <1>11, <2>1 DEF Handled
<1>12. CASE F # {} /\ GivenUp(c, cmd')
  BY <1>1, <1>2, <1>3, <1>4, <1>5, <1>8, <1>12 DEF Handled
<1> QED
  BY <1>2, <1>9, <1>10, <1>11, <1>12 DEF H

LEMMA FillHandled ==
    ASSUME TypeInv, SeenInv, Fill
    PROVE  \E c \in CommandState : Handled(c)
<1>1. /\ cmd \in CommandState /\ cmd # Idle /\ cmd.at \in {"walk", "get"} /\ cmd.span > 0
  BY FillFacts, NotIdle DEF TypeInv
<1>2. PICK F \in FailingTiers, c \in CommandState :
         /\ AfterCall({"span"}, F, c) /\ c.span = 0
         /\ Advanced(c, cmd.data, cmd')
  BY FillFacts DEF TypeInv
<1>3. /\ c.at = cmd.at /\ c.listed = cmd.listed /\ c.key = cmd.key /\ c.part = cmd.part
      /\ Only({"key", "listed", "part", "span", "faults", "dropped"}, cmd, c)
  BY <1>1, <1>2 DEF AfterCall, Only, Fields
<1>4. cmd'.dropped = c.dropped /\ cmd.dropped \subseteq c.dropped
  BY <1>2, AdvancedKeeps DEF AfterCall
<1>5. cmd.at = "walk" => cmd.part = "meta"
  BY <1>1 DEF TypeInv, CommandsType, InHand, HandOf
<1>6. Undisturbed(cmd, touched, cmd.key) => VisibleIn(tiers, cmd.key, cmd.part) = cmd.data
  BY <1>1 DEF SeenInv
<1> QED
  BY <1>1, <1>2, <1>3, <1>4, <1>5, <1>6 DEF Handled

-----------------------------------------------------------------------------
(* PathInv.                                                                  *)

LEMMA PathAfter ==
    ASSUME GoesOn, PathOf(cmd), cmd'.at \in Deleting \cup {"close", "done"},
           cmd'.at \in Deleting => cmd'.removed = {} /\ cmd'.op = "invalidate",
           \/ cmd'.hit = Absent /\ cmd'.batch = Absent
           \/ /\ {cmd'.hit, cmd'.batch} \subseteq {Absent, cmd.hit, cmd.batch}
              /\ cmd.walk = {cmd.key} => cmd'.key = cmd.key
           \/ cmd.indexed /\ cmd'.op \in {"show", "invalidate"} /\ cmd'.walk = {cmd'.key}
    PROVE  PathOf(cmd')
<1>1. cmd'.op = cmd.op /\ cmd'.byKey = cmd.byKey /\ cmd'.walk = cmd.walk /\ cmd'.indexed = cmd.indexed
  BY DEF GoesOn, Kept, Settings
<1>2. cmd'.at \notin BeforeDeletes
  BY DEF Deleting, BeforeDeletes
<1>3. cmd'.hit # Absent \/ cmd'.batch # Absent =>
         cmd'.indexed /\ (cmd'.op = "show" \/ (cmd'.op = "invalidate" /\ cmd'.walk = {cmd'.key}))
  BY <1>1 DEF PathOf
<1> QED
  BY <1>1, <1>2, <1>3 DEF PathOf, Deleting

\* Cache.Get has returned: from --key, or for show.
LEMMA PathLocated ==
    ASSUME GoesOn, PathOf(cmd), CourseOf(cmd), cmd.at \in {"get", "hit"},
           NEW c \in CommandState, LocatedAs(c, cmd'), c.key = cmd.key,
           Only({"faults", "dropped", "hit", "listed", "span", "part", "key"}, cmd, c),
           c.op = "list" => c.hit = Absent, c.hit # Absent => cmd.indexed
    PROVE  PathOf(cmd')
<1>1. cmd'.op = cmd.op /\ cmd'.byKey = cmd.byKey /\ cmd'.walk = cmd.walk /\ cmd'.indexed = cmd.indexed
  BY DEF GoesOn, Kept, Settings
<1>2. cmd.op # "show" => cmd.byKey /\ cmd.walk = {cmd.key}
  BY DEF CourseOf
<1>3. cmd.at \in BeforeDeletes /\ cmd.removed = {} /\ cmd.op # "reindex" /\ cmd.ok /\ cmd.out = {}
      /\ ~cmd.truncated /\ cmd.batch = Absent
  BY <1>2 DEF PathOf, CourseOf, Deleting, BeforeDeletes
<1>4. c.op = cmd.op /\ c.ok = cmd.ok /\ c.out = cmd.out /\ c.removed = cmd.removed
      /\ c.truncated = cmd.truncated /\ c.batch = cmd.batch
  BY DEF Only, Fields
<1>5. cmd.op \in {"show", "invalidate", "list"}
  BY <1>3 DEF GoesOn, CommandState
<1>6. CASE cmd.op # "invalidate"
  <2>1. /\ cmd'.at = "size" /\ cmd'.out = {} /\ cmd'.hit = c.hit /\ cmd'.batch = c.batch /\ cmd'.removed = {} /\ cmd'.ok
        /\ cmd'.truncated = cmd.truncated /\ cmd'.key = cmd.key
    BY <1>3, <1>4, <1>6 DEF LocatedAs, Only, Fields
  <2>2. cmd.op = "list" => ~cmd.indexed
    BY DEF PathOf
  <2> QED
    BY <1>1, <1>2, <1>3, <1>4, <1>5, <1>6, <2>1, <2>2 DEF PathOf
<1>7. CASE cmd.op = "invalidate"
  <2>1. cmd'.at \in {"close", "delete"} /\ cmd'.removed = {} /\ cmd'.key = cmd.key
        /\ cmd'.hit = c.hit /\ cmd'.batch = Absent
    BY <1>3, <1>4, <1>7 DEF LocatedAs, Only, Fields
  <2> QED
    BY <1>1, <1>2, <1>3, <1>7, <2>1, PathAfter DEF Deleting
<1> QED
  BY <1>6, <1>7

LEMMA PathHandled ==
    ASSUME GoesOn, PathOf(cmd), CourseOf(cmd), NEW c \in CommandState, Handled(c)
    PROVE  PathOf(cmd')
<1>1. /\ Only({"key", "listed", "part", "span", "faults", "dropped"}, cmd, c)
      /\ c.at = cmd.at /\ c.op = cmd.op /\ c.ok = cmd.ok /\ c.out = cmd.out /\ c.found = cmd.found
      /\ c.removed = cmd.removed /\ c.truncated = cmd.truncated /\ c.hit = cmd.hit /\ c.batch = cmd.batch
      /\ c.byKey = cmd.byKey /\ c.indexed = cmd.indexed /\ c.walk = cmd.walk /\ c.dry = cmd.dry
  BY DEF Handled, Only, Fields
<1>2. cmd'.op = cmd.op /\ cmd'.byKey = cmd.byKey /\ cmd'.walk = cmd.walk /\ cmd'.indexed = cmd.indexed
      /\ cmd'.dry = cmd.dry
  BY DEF GoesOn, Kept, Settings
<1>3. c.at \in {"walk", "get"} /\ (c.at = "get" => c.key = cmd.key)
  BY DEF Handled
<1>4. /\ cmd.ok /\ cmd.out = {} /\ ~cmd.truncated /\ cmd.removed = {}
      /\ cmd.at = "walk" => ~cmd.byKey /\ cmd.hit = Absent
      /\ cmd.op = "list" => ~cmd.indexed
      /\ cmd.hit = Absent /\ cmd.batch = Absent
  BY <1>1, <1>3 DEF PathOf, CourseOf, Deleting, BeforeDeletes
<1>5. PathOf(c)
  BY <1>1, <1>3, <1>4 DEF PathOf
<1>6. cmd.op = "reindex" => cmd.at # "get"
  BY DEF PathOf, CourseOf
\* The place is kept.
<1>7. ASSUME Only({"span", "data", "part", "found"}, c, cmd') PROVE PathOf(cmd')
  <2>1. /\ cmd'.at = c.at /\ cmd'.ok = c.ok /\ cmd'.out = c.out /\ cmd'.truncated = c.truncated
        /\ cmd'.removed = c.removed /\ cmd'.hit = c.hit /\ cmd'.batch = c.batch /\ cmd'.key = c.key
    BY <1>7 DEF Only, Fields
  <2> QED
    BY <1>1, <1>2, <1>3, <1>5, <2>1 DEF PathOf
\* The command ends.
<1>8. ASSUME Only({"at", "ok", "out", "truncated"}, c, cmd'), cmd'.at = "close" PROVE PathOf(cmd')
  <2>1. cmd'.hit = cmd.hit /\ cmd'.batch = cmd.batch /\ cmd'.key = c.key
    BY <1>1, <1>8 DEF Only, Fields
  <2> QED
    BY <1>1, <1>3, <1>4, <1>8, <2>1, PathAfter DEF Deleting
\* Cache.Get has found no file, or both.
<1>9. ASSUME Only({"at"}, c, cmd'), c.at = "get", c.indexed, cmd'.at \in {"orphan", "hit"}
      PROVE  PathOf(cmd')
  <2>1. /\ cmd'.ok = c.ok /\ cmd'.out = c.out /\ cmd'.truncated = c.truncated
        /\ cmd'.removed = c.removed /\ cmd'.hit = c.hit /\ cmd'.batch = c.batch /\ cmd'.key = c.key
    BY <1>9 DEF Only, Fields
  <2>2. cmd.op # "list" \/ ~cmd.indexed
    BY <1>4
  <2> QED
    BY <1>1, <1>2, <1>3, <1>4, <1>5, <1>9, <2>1, <2>2 DEF PathOf
<1>10. CASE GivenUp(c, cmd')
  <2>1. CASE cmd' = c
    BY <1>5, <2>1
  <2>2. CASE Only({"at", "ok"}, c, cmd') /\ cmd'.at = "close"
    BY <1>8, <2>2 DEF Only
  <2> QED
    BY <1>10, <2>1, <2>2 DEF GivenUp
<1>11. ASSUME NEW v, Advanced(c, v, cmd') PROVE PathOf(cmd')
  <2>1. CASE cmd' = c
    BY <1>5, <2>1
  <2>2. CASE Cut(c, cmd')
    BY <1>8, <2>2 DEF Only, Cut
  <2>3. CASE c.at = "walk" /\ Taken(c, cmd')
    <3>1. CASE ~(c.op = "reindex" /\ ~c.dry)
      BY <1>7, <2>3, <3>1 DEF Taken, Only
    <3>2. CASE c.op = "reindex" /\ ~c.dry
      <4>1. /\ cmd'.at = "size" /\ cmd'.ok = c.ok /\ cmd'.out = c.out /\ cmd'.truncated = c.truncated
            /\ cmd'.removed = c.removed /\ cmd'.hit = c.hit /\ cmd'.batch = c.batch /\ cmd'.key = c.key
            /\ c.key \in cmd'.found
        BY <2>3, <3>2 DEF Taken, Only, Fields
      <4> QED
        BY <1>1, <1>2, <1>3, <1>4, <1>5, <2>3, <3>2, <4>1 DEF PathOf
    <3> QED
      BY <3>1, <3>2
  <2>4. CASE Only({"part"}, c, cmd')
    BY <1>7, <2>4 DEF Only
  <2>5. CASE Only({"at", "ok"}, c, cmd') /\ cmd'.at = "close"
    BY <1>8, <2>5 DEF Only
  <2>6. CASE c.at = "get" /\ c.indexed /\ Only({"at"}, c, cmd') /\ cmd'.at = "hit"
    BY <1>9, <2>6
  <2>7. CASE c.at = "get" /\ LocatedAs(c, cmd')
    <3>1. c.hit = Absent
      BY <1>1, <1>4
    <3>2. Only({"faults", "dropped", "hit", "listed", "span", "part", "key"}, cmd, c)
      BY <1>1 DEF Only
    <3> QED
      BY <1>1, <1>3, <2>7, <3>1, <3>2, PathLocated
  <2> QED
    BY <1>11, <2>1, <2>2, <2>3, <2>4, <2>5, <2>6, <2>7 DEF Advanced
<1>12. CASE cmd.span = 0 /\ Only({"span", "data"}, c, cmd') /\ cmd'.span > 0
  BY <1>7, <1>12 DEF Only
<1>13. CASE c.at = "get" /\ c.indexed /\ Only({"at"}, c, cmd') /\ cmd'.at = "orphan"
  BY <1>9, <1>13
<1> QED
  BY <1>10, <1>11, <1>12, <1>13 DEF Handled

LEMMA PathStep ==
    ASSUME TypeInv, SeenInv, PathInv, Going
    PROVE  PathInv'
<1>1. GoesOn /\ TypeInv' /\ cmd # Idle /\ cmd' # Idle
  BY GoingType, NotIdle DEF GoesOn
<1>2. PathOf(cmd) /\ CourseOf(cmd) /\ CourseOf(cmd') /\ ChoiceOf(cmd)
  BY <1>1 DEF PathInv, TypeInv, SeenInv
<1>3. cmd'.op = cmd.op /\ cmd'.byKey = cmd.byKey /\ cmd'.walk = cmd.walk /\ cmd'.indexed = cmd.indexed
      /\ cmd'.dry = cmd.dry
  BY <1>1 DEF GoesOn, Kept, Settings
<1> SUFFICES PathOf(cmd')
  BY DEF PathInv
\* The command ends, or goes on with the deletes.
<1>4. ASSUME cmd'.at \in Deleting \cup {"close", "done"}, cmd.at \notin {"orphans", "close", "done"},
             Only({"at", "ok", "out", "left", "found", "faults", "dropped", "truncated", "part", "hit",
                   "overtaken", "inserted", "updated"}, cmd, cmd'), cmd'.hit \in {Absent, cmd.hit}, cmd'.batch = cmd.batch
      PROVE  PathOf(cmd')
  <2>1. cmd'.removed = cmd.removed /\ cmd'.key = cmd.key
    BY <1>4 DEF Only, Fields
  <2>2. cmd'.removed = {} /\ (cmd'.at \in Deleting => cmd'.op = "invalidate")
    BY <1>2, <1>4, <2>1 DEF PathOf, CourseOf
  <2> QED
    BY <1>1, <1>2, <1>4, <2>1, <2>2, PathAfter
<1>5. ASSUME Only({"at", "ok", "out", "faults", "dropped", "inserted", "updated", "removed"}, cmd, cmd'),
             cmd'.at \in {"close", "done"}
      PROVE  PathOf(cmd')
  <2>1. cmd'.hit = cmd.hit /\ cmd'.batch = cmd.batch /\ cmd'.key = cmd.key
    BY <1>5 DEF Only, Fields
  <2> QED
    BY <1>1, <1>2, <1>5, <2>1, PathAfter DEF Deleting
\* Cache.Get begins.
<1>6. ASSUME Only({"at", "found", "key", "part", "ok", "faults", "dropped"}, cmd, cmd'),
             cmd'.at = "get", cmd.op = "show", cmd.at \in {"query", "exists", "walk"}, cmd'.ok = cmd.ok
      PROVE  PathOf(cmd')
  <2>1. cmd'.out = cmd.out /\ cmd'.truncated = cmd.truncated /\ cmd'.removed = cmd.removed
        /\ cmd'.hit = cmd.hit /\ cmd'.batch = cmd.batch
    BY <1>6 DEF Only, Fields
  <2>2. cmd.ok /\ cmd.out = {} /\ ~cmd.truncated /\ cmd.removed = {}
    BY <1>2, <1>6 DEF PathOf, BeforeDeletes
  <2> QED
    BY <1>2, <1>3, <1>6, <2>1, <2>2 DEF PathOf
<1>7. ASSUME Only({"at", "found", "key", "part", "ok", "faults", "dropped"}, cmd, cmd'),
             cmd'.at = "close", cmd.op = "show"
      PROVE  PathOf(cmd')
  <2>1. cmd'.hit = cmd.hit /\ cmd'.batch = cmd.batch
    BY <1>7 DEF Only, Fields
  <2> QED
    BY <1>1, <1>2, <1>3, <1>7, <2>1 DEF PathOf, BeforeDeletes
<1>8. CASE Query
  <2>1. cmd.at = "query" /\ QueriedAs(cmd, cmd')
    BY <1>8, QueryFacts DEF TypeInv
  <2>2. CASE cmd.op = "show" /\ Only({"at", "found", "key", "part", "ok"}, cmd, cmd')
             /\ cmd'.at \in {"get", "close"} /\ (cmd'.at = "get" => cmd'.ok = cmd.ok)
    <3>1. Only({"at", "found", "key", "part", "ok", "faults", "dropped"}, cmd, cmd')
      BY <2>2 DEF Only
    <3> QED
      BY <1>6, <1>7, <2>1, <2>2, <3>1
  <2>3. CASE Only({"at", "ok", "faults"}, cmd, cmd') /\ cmd'.at = "close"
    BY <1>5, <2>3 DEF Only
  <2>4. CASE Only({"at", "out", "truncated"}, cmd, cmd') /\ cmd'.at = "close"
    <3>1. cmd'.hit = cmd.hit /\ cmd'.batch = cmd.batch
      BY <2>4 DEF Only, Fields
    <3> QED
      BY <1>4, <2>1, <2>4, <3>1 DEF Only
  <2>5. CASE Only({"at", "out"}, cmd, cmd') /\ cmd'.at = "close"
    BY <1>5, <2>5 DEF Only
  <2> QED
    BY <2>1, <2>2, <2>3, <2>4, <2>5 DEF QueriedAs
<1>9. CASE ExistsForShow
  <2>1. cmd.at = "exists" /\ cmd.op = "show" /\ cmd.walk # {}
    BY <1>2, <1>9 DEF ExistsForShow, CourseOf
  <2>2. /\ Only({"at", "key", "part", "ok", "faults", "dropped"}, cmd, cmd')
        /\ cmd'.at \in {"get", "close"} /\ (cmd'.at = "get" => cmd'.ok = cmd.ok)
    BY <1>9, <2>1, ExistsFacts DEF TypeInv
  <2>3. Only({"at", "found", "key", "part", "ok", "faults", "dropped"}, cmd, cmd')
    BY <2>2 DEF Only
  <2> QED
    BY <1>6, <1>7, <2>1, <2>2, <2>3
<1>10. CASE List
  <2>1. cmd.at = "list" /\ cmd'.at = "walk" /\ Only({"at", "listed", "faults", "dropped"}, cmd, cmd')
    BY <1>10, ListFacts DEF TypeInv, AfterCall, Only
  <2>2. cmd'.out = cmd.out /\ cmd'.truncated = cmd.truncated /\ cmd'.removed = cmd.removed
        /\ cmd'.hit = cmd.hit /\ cmd'.batch = cmd.batch /\ cmd'.ok = cmd.ok
    BY <2>1 DEF Only, Fields
  <2>3. cmd.at \in BeforeDeletes /\ cmd.batch = Absent
    BY <1>2, <2>1 DEF BeforeDeletes, CourseOf, Deleting
  <2> QED
    BY <1>2, <1>3, <2>1, <2>2, <2>3 DEF PathOf
<1>11. CASE Fill \/ \E k \in Keys : Read(k)
  BY <1>1, <1>2, <1>11, PathHandled, ReadHandled, FillHandled
<1>12. CASE WalkEnds
  <2>1. cmd.at = "walk" /\ ScannedAs(cmd, cmd')
    BY <1>12, WalkEndsFacts DEF TypeInv
  <2>2. CASE Only({"at", "out"}, cmd, cmd') /\ cmd'.at = "close"
    BY <1>5, <2>2 DEF Only
  <2>3. CASE Only({"at", "left"}, cmd, cmd') /\ cmd'.at = "delete"
    <3>1. cmd'.hit = cmd.hit /\ cmd'.batch = cmd.batch
      BY <2>3 DEF Only, Fields
    <3> QED
      BY <1>4, <2>1, <2>3, <3>1 DEF Only, Deleting
  <2>4. CASE cmd.op = "show" /\ ResolvedAs(cmd, cmd')
    <3>1. Only({"at", "found", "key", "part", "ok", "faults", "dropped"}, cmd, cmd')
      BY <2>4 DEF ResolvedAs, Only
    <3> QED
      BY <1>6, <1>7, <2>1, <2>4, <3>1 DEF ResolvedAs
  <2>5. CASE cmd.op = "reindex" /\ Only({"at"}, cmd, cmd') /\ cmd'.at = "keys"
    <3>1. cmd'.out = cmd.out /\ cmd'.truncated = cmd.truncated /\ cmd'.removed = cmd.removed
          /\ cmd'.hit = cmd.hit /\ cmd'.batch = cmd.batch /\ cmd'.ok = cmd.ok
      BY <2>5 DEF Only, Fields
    <3>2. cmd.at \in BeforeDeletes
      BY <2>1 DEF BeforeDeletes
    <3> QED
      BY <1>2, <1>3, <2>1, <2>5, <3>1, <3>2 DEF PathOf
  <2> QED
    BY <2>1, <2>2, <2>3, <2>4, <2>5 DEF ScannedAs
<1>13. CASE DropOrphan
  BY <1>5, <1>13, DropOrphanFacts DEF TypeInv, Only
<1>14. CASE Flushing
  <2>1. /\ Only({"hit", "batch", "overtaken", "faults"}, cmd, cmd')
        /\ {cmd'.hit, cmd'.batch} \subseteq {Absent, cmd.hit, cmd.batch}
        /\ cmd.at \in {"size"} \cup Deleting \/ cmd.batch # Absent
    BY <1>14, FlushingFacts DEF TypeInv
  <2>2. cmd.at \in {"size", "close"} \cup Deleting
    BY <1>2, <2>1 DEF CourseOf
  <2>3. /\ cmd'.at = cmd.at /\ cmd'.out = cmd.out /\ cmd'.truncated = cmd.truncated
        /\ cmd'.removed = cmd.removed /\ cmd'.ok = cmd.ok /\ cmd'.key = cmd.key
        /\ cmd'.found = cmd.found /\ cmd'.left = cmd.left
    BY <2>1 DEF Only, Fields
  <2> QED
    BY <1>2, <1>3, <2>1, <2>2, <2>3 DEF PathOf, Deleting
<1>15. CASE Close
  BY <1>5, <1>15, CloseFacts DEF TypeInv, Only
<1>16. ASSUME NEW k \in Keys, DeleteNext(k) PROVE PathOf(cmd')
  <2>1. /\ cmd.at = "delete" /\ k \in cmd.left /\ cmd'.key = k /\ cmd'.at \in {"raced", "deleteFile"}
        /\ Only({"at", "key", "left", "part", "faults", "dropped"}, cmd, cmd')
    BY <1>16, DeleteNextFacts DEF TypeInv, AfterCall, Only
  <2>2. cmd'.removed = cmd.removed /\ cmd'.hit = cmd.hit /\ cmd'.batch = cmd.batch
    BY <2>1 DEF Only, Fields
  <2>3. cmd.op = "invalidate" /\ cmd.left \subseteq cmd.walk /\ cmd.removed = {}
    BY <1>2, <2>1 DEF CourseOf, ChoiceOf, Deleting, PathOf
  <2>4. cmd.walk = {cmd.key} => cmd'.key = cmd.key
    BY <2>1, <2>3
  <2> QED
    BY <1>1, <1>2, <1>3, <2>1, <2>2, <2>3, <2>4, PathAfter DEF Deleting
<1>17. CASE DeleteFile
  <2>1. /\ cmd.at = "deleteFile"
        /\ \/ Only({"at", "ok", "faults"}, cmd, cmd') /\ cmd'.at = "delete"
           \/ Only({"part", "faults"}, cmd, cmd')
           \/ Only({"at", "faults"}, cmd, cmd') /\ cmd'.at = "deleteRow"
    BY <1>17, DeleteFileFacts DEF TypeInv
  <2>2. Only({"at", "ok", "part", "faults"}, cmd, cmd') /\ cmd'.at \in Deleting
    BY <2>1 DEF Only, Deleting, Fields
  <2>3. cmd'.hit = cmd.hit /\ cmd'.batch = cmd.batch
    BY <2>2 DEF Only, Fields
  <2> QED
    BY <1>4, <2>1, <2>2, <2>3 DEF Only
<1>18. CASE DeleteRow
  <2>1. cmd.at \in {"deleteRow", "raced"} /\ cmd'.at \in {"delete", "dropHit"}
        /\ Only({"at", "out", "faults", "dropped"}, cmd, cmd')
    BY <1>18, DeleteRowFacts DEF TypeInv
  <2>2. cmd'.hit = cmd.hit /\ cmd'.batch = cmd.batch
    BY <2>1 DEF Only, Fields
  <2> QED
    BY <1>4, <2>1, <2>2 DEF Only, Deleting
<1>25. CASE DropHit
  <2>1. cmd.at = "dropHit" /\ cmd'.at = "delete" /\ cmd'.hit = Absent
        /\ Only({"at", "hit", "overtaken"}, cmd, cmd')
    BY <1>25, DropHitFacts DEF TypeInv
  <2>2. cmd'.batch = cmd.batch
    BY <2>1 DEF Only, Fields
  <2> QED
    BY <1>4, <2>1, <2>2 DEF Only, Deleting
<1>19. CASE DeletesEnd \/ OrphansEnd
  BY <1>5, <1>19, EndFacts DEF TypeInv, Only
<1>20. CASE RecordHit
  <2>1. PICK c \in CommandState :
          /\ Only({"faults", "dropped", "hit"}, cmd, c) /\ LocatedAs(c, cmd') /\ cmd.at = "hit"
    BY <1>20, RecordHitFacts DEF TypeInv
  <2>2. c.op = cmd.op /\ c.key = cmd.key
    BY <2>1 DEF Only, Fields
  <2>3. c.op # "list" /\ cmd.indexed
    BY <1>2, <2>1, <2>2 DEF PathOf
  <2>4. Only({"faults", "dropped", "hit", "listed", "span", "part", "key"}, cmd, c)
    BY <2>1 DEF Only
  <2> QED
    BY <1>1, <1>2, <2>1, <2>2, <2>3, <2>4, PathLocated
<1>21. CASE Size
  <2>1. cmd.at = "size" /\ (cmd.op = "reindex" => cmd'.at = "upsert" \/ cmd'.at = "close")
    BY <1>21, SizeStepFacts DEF TypeInv
  <2>2. CASE cmd.op = "reindex" /\ cmd'.at = "upsert"
             /\ Only({"at", "size", "faults", "dropped"}, cmd, cmd')
    <3>1. /\ cmd'.out = cmd.out /\ cmd'.truncated = cmd.truncated /\ cmd'.removed = cmd.removed
          /\ cmd'.hit = cmd.hit /\ cmd'.batch = cmd.batch /\ cmd'.ok = cmd.ok /\ cmd'.key = cmd.key /\ cmd'.found = cmd.found
      BY <2>2 DEF Only, Fields
    <3>2. cmd.at \in BeforeDeletes
      BY <2>1 DEF BeforeDeletes
    <3> QED
      BY <1>2, <1>3, <2>1, <2>2, <3>1, <3>2 DEF PathOf
  <2>3. CASE Only({"at", "ok", "out", "faults"}, cmd, cmd') /\ cmd'.at = "close"
    BY <1>5, <2>3 DEF Only
  <2>4. \/ cmd.op = "reindex" /\ cmd'.at = "upsert" /\ Only({"at", "size", "faults", "dropped"}, cmd, cmd')
        \/ Only({"at", "ok", "faults"}, cmd, cmd') /\ cmd'.at = "close"
        \/ Only({"at", "out", "faults"}, cmd, cmd') /\ cmd'.at = "close"
    BY <1>21, SizeStepFacts DEF TypeInv, AfterCall, Only
  <2> QED
    BY <2>2, <2>3, <2>4 DEF Only
<1>22. CASE Upsert
  <2>1. cmd.at = "upsert" /\ cmd.op = "reindex"
    BY <1>2, <1>22, UpsertFacts DEF TypeInv, CourseOf
  <2>2. CASE cmd'.at = "walk" /\ Only({"at", "updated", "inserted"}, cmd, cmd')
    <3>1. /\ cmd'.out = cmd.out /\ cmd'.truncated = cmd.truncated /\ cmd'.removed = cmd.removed
          /\ cmd'.hit = cmd.hit /\ cmd'.batch = cmd.batch /\ cmd'.ok = cmd.ok
      BY <2>2 DEF Only, Fields
    <3>2. cmd.at \in BeforeDeletes
      BY <2>1 DEF BeforeDeletes
    <3> QED
      BY <1>2, <1>3, <2>1, <2>2, <3>1, <3>2 DEF PathOf
  <2>3. CASE Only({"at", "ok", "faults"}, cmd, cmd') /\ cmd'.at = "close"
    BY <1>5, <2>3 DEF Only
  <2>4. \/ cmd'.at = "walk" /\ Only({"at", "updated"}, cmd, cmd')
        \/ cmd'.at = "walk" /\ Only({"at", "inserted"}, cmd, cmd')
        \/ Only({"at", "ok", "faults"}, cmd, cmd') /\ cmd'.at = "close"
    BY <1>22, UpsertFacts DEF TypeInv
  <2> QED
    BY <2>2, <2>3, <2>4 DEF Only
<1>23. CASE AllKeys
  <2>1. cmd.at = "keys" /\ cmd.op = "reindex"
    BY <1>2, <1>23, AllKeysFacts DEF TypeInv, CourseOf
  <2>2. CASE ~cmd.dry /\ Only({"at", "left"}, cmd, cmd') /\ cmd'.at = "orphans" /\ cmd'.left = Orphans
    <3>1. /\ cmd'.out = cmd.out /\ cmd'.truncated = cmd.truncated /\ cmd'.removed = cmd.removed
          /\ cmd'.hit = cmd.hit /\ cmd'.batch = cmd.batch /\ cmd'.ok = cmd.ok /\ cmd'.found = cmd.found
      BY <2>2 DEF Only, Fields
    <3>2. cmd.at \in BeforeDeletes /\ cmd'.left \cap cmd'.found = {}
      BY <2>1, <2>2, <3>1 DEF BeforeDeletes, Orphans
    <3> QED
      BY <1>2, <1>3, <2>1, <2>2, <3>1, <3>2 DEF PathOf
  <2>3. CASE cmd'.at = "close"
             /\ Only({"at", "ok", "out", "faults", "inserted", "updated", "removed"}, cmd, cmd')
    BY <1>5, <2>3 DEF Only
  <2>4. \/ ~cmd.dry /\ Only({"at", "left"}, cmd, cmd') /\ cmd'.at = "orphans" /\ cmd'.left = Orphans
        \/ Only({"at", "ok", "faults"}, cmd, cmd') /\ cmd'.at = "close"
        \/ Only({"at", "out", "inserted", "updated", "removed"}, cmd, cmd') /\ cmd'.at = "close"
    BY <1>23, AllKeysFacts DEF TypeInv
  <2> QED
    BY <2>2, <2>3, <2>4 DEF Only
<1>24. ASSUME NEW k \in Keys, DeleteOrphan(k) PROVE PathOf(cmd')
  <2>1. cmd.at = "orphans" /\ cmd.op = "reindex"
    BY <1>2, <1>24, DeleteOrphanFacts DEF TypeInv, CourseOf
  <2>2. CASE Only({"left", "removed"}, cmd, cmd') /\ cmd'.left = cmd.left \ {k}
    <3>1. /\ cmd'.out = cmd.out /\ cmd'.truncated = cmd.truncated /\ cmd'.at = cmd.at
          /\ cmd'.hit = cmd.hit /\ cmd'.batch = cmd.batch /\ cmd'.ok = cmd.ok /\ cmd'.found = cmd.found
      BY <2>2 DEF Only, Fields
    <3>2. cmd.at \in BeforeDeletes
      BY <2>1 DEF BeforeDeletes
    <3> QED
      BY <1>2, <1>3, <2>1, <2>2, <3>1, <3>2 DEF PathOf
  <2>3. CASE Only({"at", "ok", "faults"}, cmd, cmd') /\ cmd'.at = "close"
    BY <1>5, <2>3 DEF Only
  <2> QED
    BY <1>24, <2>2, <2>3, DeleteOrphanFacts DEF TypeInv
<1> QED
  BY <1>8, <1>9, <1>10, <1>11, <1>12, <1>13, <1>14, <1>15, <1>16, <1>17, <1>18, <1>19, <1>20,
     <1>21, <1>22, <1>23, <1>24, <1>25 DEF Going, Flushing

LEMMA PathBegin ==
    ASSUME TypeInv, NEW i \in Invocations, Begin(i)
    PROVE  PathInv'
<1>1. cmd' \in CommandState /\ FreshAs(i, cmd') /\ BegunAs(i, cmd')
  BY BeginFacts DEF BegunAs
<1>2. i.op = "reindex" => i.indexed /\ ~i.byKey /\ i.walk = Keys
  BY CommandsAssumption
<1>3. PathOf(cmd')
  <2>1. CASE cmd'.at = "query" /\ i.indexed /\ (i.op = "list" \/ (i.op = "show" /\ ~i.byKey))
    BY <1>1, <1>2, <2>1 DEF PathOf, FreshAs
  <2>2. CASE cmd'.at = "exists" /\ i.op = "show"
    BY <1>1, <1>2, <2>2 DEF PathOf, FreshAs
  <2>3. CASE cmd'.at = "get" /\ i.byKey /\ i.op # "show" /\ ~(i.op = "list" /\ i.indexed)
    BY <1>1, <1>2, <2>3 DEF PathOf, FreshAs
  <2>4. CASE cmd'.at = "list" /\ ~i.byKey /\ ~(i.op = "list" /\ i.indexed)
    BY <1>1, <1>2, <2>4 DEF PathOf, FreshAs
  <2> QED
    BY <1>1, <2>1, <2>2, <2>3, <2>4 DEF BegunAs
<1> QED
  BY <1>3 DEF PathInv

-----------------------------------------------------------------------------
(* FoundInv.                                                                 *)

\* A command that has failed ends.
LEMMA OkBefore ==
    ASSUME TypeInv, PathInv, Going, cmd'.ok
    PROVE  cmd.ok
<1>1. cmd # Idle
  BY GoingType, NotIdle DEF GoesOn
<1>2. CASE cmd.at \in BeforeDeletes
  BY <1>1, <1>2 DEF PathInv, PathOf
<1>3. CASE Flushing
  BY <1>3, FlushingFacts DEF TypeInv, Only, Fields
<1>4. CASE Close
  BY <1>4, CloseFacts DEF TypeInv, Only, Fields
<1>5. ASSUME NEW k \in Keys, DeleteNext(k) PROVE cmd.ok
  <2>1. Only({"at", "key", "left", "part"} \cup {"faults", "dropped"}, cmd, cmd')
    BY <1>5, DeleteNextFacts DEF TypeInv, AfterCall
  <2> QED
    BY <2>1 DEF Only, Fields
<1>6. CASE DeleteFile
  <2>1. Only({"part", "faults"}, cmd, cmd') \/ Only({"at", "faults"}, cmd, cmd')
    BY <1>6, DeleteFileFacts DEF TypeInv
  <2> QED
    BY <2>1 DEF Only, Fields
<1>7. CASE DeleteRow
  BY <1>7, DeleteRowFacts DEF TypeInv, Only, Fields
<1>8. CASE DeletesEnd
  BY <1>8, EndFacts DEF TypeInv, Only, Fields
<1>9. CASE DropHit
  BY <1>9, DropHitFacts DEF TypeInv, Only, Fields
<1> QED
  BY <1>2, <1>3, <1>4, <1>5, <1>6, <1>7, <1>8, <1>9, ZenonT(30)
     DEF Going, Flushing, Query, ExistsForShow, List, Fill, WalkEnds, DropOrphan, RecordHit, Size, Upsert,
         AllKeys, OrphansEnd, Read, DeleteOrphan, BeforeDeletes

LEMMA QuietBefore ==
    ASSUME TypeInv, PathInv, Going, NEW k, Quiet(k)'
    PROVE  Quiet(k) /\ cmd # Idle /\ cmd'.ok /\ "storage" \notin cmd'.dropped
<1>1. GoesOn /\ cmd.ok
  BY GoingType, OkBefore DEF Quiet
<1> QED
  BY <1>1, NotIdle DEF GoesOn, Quiet, Untouched

\* Until the deletes begin, a read of k sees whether it could be read at the start.
LEMMA QuietSees ==
    ASSUME SeenInv, cmd # Idle, NEW k \in Keys, Quiet(k), cmd.at \in BeforeDeletes
    PROVE  /\ Undisturbed(cmd, touched, k)
           /\ VisibleIn(tiers, k, "meta") = Good <=> k \in cmd.start.readable
<1>1. Undisturbed(cmd, touched, k)
  BY DEF Quiet, Undisturbed, Untouched
<1> QED
  BY <1>1 DEF SeenInv

LEMMA MatchingKept ==
    ASSUME GoesOn, NEW k
    PROVE  /\ Matching(k)' <=> Matching(k)
           /\ Collects' <=> Collects
           /\ cmd'.op = cmd.op /\ cmd'.byKey = cmd.byKey /\ cmd'.walk = cmd.walk
           /\ cmd'.indexed = cmd.indexed /\ cmd'.dry = cmd.dry /\ cmd'.limit = cmd.limit
           /\ cmd'.start = cmd.start /\ cmd'.sql = cmd.sql
  BY DEF GoesOn, Kept, Settings, Matching, Collects

Later == {"keys", "orphans", "close", "done"} \cup Deleting

LEMMA FoundLater ==
    ASSUME GoesOn, NEW k, FoundOf(k), cmd.at \in Later, cmd'.at \in Later,
           cmd'.found = cmd.found, cmd'.truncated = cmd.truncated
    PROVE  FoundOf(k)'
<1>1. cmd'.at \notin Walking \cup {"hit", "get"}
  BY DEF Later, Walking, Deleting
<1> QED
  BY <1>1, MatchingKept DEF FoundOf, Later

LEMMA FoundWalking ==
    ASSUME GoesOn, NEW k, FoundOf(k), cmd.at \in Walking, cmd'.at \in Walking,
           cmd'.found = cmd.found, cmd'.listed = cmd.listed, cmd'.key = cmd.key, cmd'.span = cmd.span
    PROVE  FoundOf(k)'
<1>1. cmd'.at \notin Later \cup {"hit", "get"}
  BY DEF Later, Walking, Deleting
<1>2. InFilling(k)' <=> InFilling(k)
  BY DEF InFilling
<1> QED
  BY <1>1, <1>2, MatchingKept DEF FoundOf, Later

\* For show nothing is claimed before Cache.Get has the metadata.
LEMMA FoundShow ==
    ASSUME NEW k, cmd'.op = "show", cmd'.at \in {"get", "close"}, cmd'.at = "get" => cmd'.part = "meta"
    PROVE  FoundOf(k)'
  BY DEF FoundOf, Collects

LEMMA FoundList ==
    ASSUME TypeInv, SeenInv, PathInv, PagedTiers = {}, List, NEW k \in Keys, Quiet(k)', FoundOf(k)
    PROVE  FoundOf(k)'
<1>1. GoesOn /\ cmd # Idle /\ cmd.at = "list" /\ cmd.found = {} /\ Quiet(k)
      /\ "storage" \notin cmd'.dropped
  BY CallGoes, ListFacts, QuietBefore, NotIdle DEF Going, TypeInv, GoesOn, PathInv, PathOf
<1>2. PICK F \in FailingTiers, seen \in [Tiers -> SUBSET Keys] :
         /\ AfterCall({"at", "listed"}, F, cmd')
         /\ \A t \in Tiers : seen[t] \in IF t \in F THEN {{}} ELSE Listings(t)
         /\ cmd'.at = "walk" /\ cmd'.listed = UNION {seen[t] : t \in Tiers}
  BY ListFacts DEF TypeInv
<1>3. F = {}
  BY <1>1, <1>2 DEF AfterCall
<1>4. cmd'.found = {} /\ cmd'.span = cmd.span
  BY <1>1, <1>2 DEF AfterCall, Only, Fields
<1>5. cmd.span = 0
  BY <1>1 DEF TypeInv, CommandsType, InHand, HandOf
<1>6. ASSUME NEW t \in Tiers PROVE seen[t] = {j \in Keys : tiers[t][j]["meta"] # Absent}
  <2> DEFINE names == {n \in Keys \X Parts : tiers[t][n[1]][n[2]] # Absent}
             L == {{j \in Keys : <<j, "meta">> \in P} : P \in {names}}
  <2>1. Listings(t) = L
    BY DEF Listings
  <2>2. seen[t] \in L
    BY <1>2, <1>3, <2>1
  <2>3. \A j \in Keys : <<j, "meta">> \in names <=> tiers[t][j]["meta"] # Absent
    BY DEF Parts
  <2> HIDE DEF names
  <2>4. seen[t] = {j \in Keys : <<j, "meta">> \in names}
    BY <2>2
  <2> QED
    BY <2>3, <2>4
<1>7. Matching(k) => k \in cmd'.listed
  <2> SUFFICES ASSUME Matching(k) PROVE k \in cmd'.listed
    OBVIOUS
  <2>1. VisibleIn(tiers, k, "meta") = Good
    BY <1>1, QuietSees DEF Matching, BeforeDeletes
  <2>2. PICK t \in Tiers : tiers[t][k]["meta"] # Absent
    BY <2>1, VisibleNone, CommandsAssumption
  <2>3. k \in seen[t]
    BY <1>6, <2>2
  <2> QED
    BY <1>2, <2>3
<1>8. cmd'.at \notin Later \cup {"hit", "get"} /\ ~InFilling(k)'
  BY <1>2, <1>4, <1>5 DEF Later, Deleting, InFilling
<1> QED
  BY <1>1, <1>4, <1>7, <1>8, MatchingKept DEF FoundOf, Later

LEMMA FoundHandled ==
    ASSUME TypeInv, SeenInv, PathInv, GoesOn, NEW k \in Keys, Quiet(k)', Quiet(k), FoundOf(k),
           NEW c \in CommandState, Handled(c)
    PROVE  FoundOf(k)'
<1>1. /\ c.at = cmd.at /\ c.op = cmd.op /\ c.found = cmd.found /\ c.dry = cmd.dry
      /\ c.byKey = cmd.byKey /\ c.indexed = cmd.indexed /\ c.walk = cmd.walk
      /\ c.at \in {"walk", "get"} /\ c.span = 0 /\ cmd \in CommandState /\ cmd # Idle
  BY NotIdle DEF Handled, Only, Fields, GoesOn
<1>2. cmd'.ok /\ "storage" \notin cmd'.dropped /\ cmd.at \in BeforeDeletes
  BY <1>1 DEF Quiet, BeforeDeletes
<1>3. /\ Undisturbed(cmd, touched, k)
      /\ VisibleIn(tiers, k, "meta") = Good <=> k \in cmd.start.readable
  BY <1>1, <1>2, QuietSees
<1>4. PathOf(cmd) /\ CourseOf(cmd)
  BY <1>1 DEF PathInv, TypeInv
<1>5. \/ cmd.span = 0 /\ c.listed = cmd.listed \ {c.key} /\ (c.at = "walk" => c.key \in cmd.listed)
      \/ cmd.span > 0 /\ c.listed = cmd.listed /\ c.key = cmd.key
  BY DEF Handled
<1>6. /\ Matching(k)' <=> Matching(k)
      /\ cmd'.op = cmd.op /\ cmd'.byKey = cmd.byKey /\ cmd'.walk = cmd.walk /\ cmd'.start = cmd.start
      /\ Collects' <=> Collects
  BY MatchingKept
<1> DEFINE seen == VisibleIn(tiers, c.key, c.part)
<1>7. \/ GivenUp(c, cmd') /\ cmd'.at = "walk" /\ (c.key = k => seen = Absent)
      \/ c.at = "get" /\ Only({"at"}, c, cmd') /\ cmd'.at = "orphan"
      \/ \E v : Advanced(c, v, cmd') /\ (c.key = k => seen = v)
      \/ cmd.span = 0 /\ Only({"span", "data"}, c, cmd') /\ cmd'.span > 0
  <2>1. c.key = k => Undisturbed(cmd, touched, c.key)
    BY <1>3
  <2> HIDE DEF seen
  <2>2. LET clean == "storage" \notin cmd'.dropped /\ Undisturbed(cmd, touched, c.key) IN
         \/ /\ \/ GivenUp(c, cmd')
               \/ c.at = "get" /\ c.indexed /\ Only({"at"}, c, cmd') /\ cmd'.at = "orphan"
            /\ cmd'.at # "orphan" => cmd'.at = "walk" \/ ~cmd'.ok
            /\ clean => seen = Absent
         \/ \E v : Advanced(c, v, cmd') /\ (clean => seen = v)
         \/ cmd.span = 0 /\ Only({"span", "data"}, c, cmd') /\ cmd'.span > 0
    BY DEF Handled, seen
  <2>3. GivenUp(c, cmd') => cmd'.at # "orphan"
    BY <1>1 DEF GivenUp
  <2> QED
    BY <1>2, <2>1, <2>2, <2>3
<1> HIDE DEF seen
<1>8. CASE cmd.at = "walk"
  <2>1. c.part = "meta" /\ (c.key = k => (seen = Good <=> k \in cmd.start.readable))
    BY <1>1, <1>3, <1>8 DEF Handled, seen
  <2>2. ~cmd.byKey
    BY <1>4, <1>8 DEF PathOf
  \* What is known of k before the step.
  <2>3. cmd.op # "show" =>
          /\ k \in cmd.listed => k \notin cmd.found /\ ~InFilling(k)
          /\ k \in cmd.found => ~InFilling(k)
          /\ Matching(k) => k \in cmd.listed \/ k \in cmd.found \/ InFilling(k)
          /\ k \in cmd.found => Matching(k)
    BY <1>8, <2>2 DEF FoundOf, Walking
  <2>4. c.key = k => (cmd.op # "show" => k \notin cmd.found) /\ (cmd.op # "show" => k \notin c.listed)
    BY <1>1, <1>5, <1>8, <2>3 DEF InFilling
  <2>5. c.key # k => (k \in c.listed <=> k \in cmd.listed) /\ ~InFilling(k)
    BY <1>5 DEF InFilling
  <2>6. CASE cmd' = c /\ (c.key = k => ~Matching(k))
    <3>1. cmd'.found = cmd.found /\ ~InFilling(k)' /\ cmd'.listed = c.listed /\ cmd'.at = "walk"
      BY <1>1, <1>8, <2>6 DEF InFilling
    <3> QED
      BY <1>6, <2>3, <2>4, <2>5, <2>6, <3>1 DEF FoundOf, Deleting
  <2>7. CASE Cut(c, cmd')
    <3>1. cmd'.found = cmd.found /\ cmd'.at = "close" /\ cmd'.truncated
      BY <1>1, <2>7 DEF Cut, Only, Fields
    <3> QED
      BY <1>6, <2>3, <3>1 DEF FoundOf, Walking
  <2>8. CASE Taken(c, cmd') /\ (c.key = k => seen = Good)
    <3>1. /\ cmd'.found = cmd.found \cup {c.key} /\ cmd'.at \in {"walk", "size"}
          /\ cmd'.listed = c.listed /\ cmd'.span = 0 /\ c.key \in cmd.walk
      BY <1>1, <1>8, <2>8 DEF Taken, Only, Fields
    <3>2. ~InFilling(k)' /\ (c.key = k => Matching(k))
      BY <2>1, <2>8, <3>1 DEF InFilling, Matching
    <3> QED
      BY <1>6, <2>3, <2>4, <2>5, <3>1, <3>2 DEF FoundOf, Deleting
  <2>9. CASE cmd.span = 0 /\ Only({"span", "data"}, c, cmd') /\ cmd'.span > 0
    <3>1. /\ cmd'.found = cmd.found /\ cmd'.at = "walk" /\ cmd'.listed = c.listed /\ cmd'.key = c.key
      BY <1>1, <1>8, <2>9 DEF Only, Fields
    <3>2. InFilling(k)' <=> c.key = k
      BY <2>9, <3>1 DEF InFilling
    <3> QED
      BY <1>6, <2>3, <2>4, <2>5, <3>1, <3>2 DEF FoundOf, Deleting
  <2>10. ASSUME NEW v, Advanced(c, v, cmd'), c.key = k => seen = v PROVE FoundOf(k)'
    <3>1. CASE cmd' = c /\ (v # Good \/ c.key \notin c.walk)
      <4>1. c.key = k => ~Matching(k)
        BY <1>1, <2>1, <2>10, <3>1 DEF Matching
      <4> QED
        BY <2>6, <3>1, <4>1
    <3>2. CASE Cut(c, cmd')
      BY <2>7, <3>2
    <3>3. CASE v = Good /\ Taken(c, cmd')
      BY <2>8, <2>10, <3>3
    <3> QED
      BY <1>1, <1>8, <2>10, <3>1, <3>2, <3>3 DEF Advanced
  <2>11. CASE GivenUp(c, cmd') /\ (c.key = k => seen = Absent)
    <3>1. cmd' = c /\ (c.key = k => ~Matching(k))
      BY <1>1, <1>8, <2>1, <2>11, CommandsAssumption DEF GivenUp, Matching
    <3> QED
      BY <2>6, <3>1
  <2> QED
    BY <1>1, <1>7, <1>8, <2>9, <2>10, <2>11
<1>9. CASE cmd.at = "get"
  <2>1. c.key = cmd.key /\ c.part = cmd.part
    BY <1>1, <1>9 DEF Handled
  <2>2. cmd.op # "show" => cmd.byKey /\ cmd.walk = {cmd.key}
    BY <1>4, <1>9 DEF CourseOf
  <2>3. cmd.part = "body" /\ cmd.key = k => k \in cmd.start.readable
    BY <1>9 DEF FoundOf
  <2>4. cmd.op # "show" /\ k \in cmd.found => Matching(k)
    BY DEF FoundOf
  \* Cache.Get goes on.
  <2>5. ASSUME cmd'.found = cmd.found, cmd'.at \in {"get", "hit", "size", "orphan"},
               cmd'.key = cmd.key,
               (cmd'.at = "hit" \/ (cmd'.at = "get" /\ cmd'.part = "body")) /\ cmd.key = k =>
                   k \in cmd.start.readable
        PROVE  FoundOf(k)'
    BY <1>6, <2>2, <2>4, <2>5 DEF FoundOf, Walking, Deleting
  <2>6. CASE Only({"span", "data"}, c, cmd')
    <3>1. /\ cmd'.found = cmd.found /\ cmd'.at = "get" /\ cmd'.key = cmd.key /\ cmd'.part = cmd.part
      BY <1>1, <1>9, <2>1, <2>6 DEF Only, Fields
    <3> QED
      BY <2>3, <2>5, <3>1
  <2>7. CASE Only({"at"}, c, cmd') /\ cmd'.at = "orphan"
    <3>1. cmd'.found = cmd.found /\ cmd'.key = cmd.key
      BY <1>1, <2>1, <2>7 DEF Only, Fields
    <3> QED
      BY <2>5, <2>7, <3>1
  <2>8. ASSUME NEW v, Advanced(c, v, cmd'), c.key = k => seen = v PROVE FoundOf(k)'
    <3>1. CASE c.part = "meta" /\ v = Good /\ Only({"part"}, c, cmd')
      <4>1. cmd'.found = cmd.found /\ cmd'.key = cmd.key /\ cmd'.at = "get"
        BY <1>1, <1>9, <2>1, <3>1 DEF Only, Fields
      <4>2. cmd.key = k => k \in cmd.start.readable
        BY <1>3, <2>1, <2>8, <3>1 DEF seen
      <4> QED
        BY <2>5, <4>1, <4>2
    <3>2. CASE c.part = "body" /\ Only({"at"}, c, cmd') /\ cmd'.at = "hit"
      <4>1. cmd'.found = cmd.found /\ cmd'.key = cmd.key
        BY <1>1, <2>1, <3>2 DEF Only, Fields
      <4> QED
        BY <2>1, <2>3, <2>5, <3>2, <4>1
    <3>3. CASE c.part = "body" /\ LocatedAs(c, cmd')
      <4>1. CASE cmd.op # "invalidate"
        <5>1. cmd'.found = cmd.found /\ cmd'.key = cmd.key /\ cmd'.at = "size"
          BY <1>1, <2>1, <3>3, <4>1 DEF LocatedAs, Only, Fields
        <5> QED
          BY <2>5, <5>1
      <4>2. CASE cmd.op = "invalidate"
        <5>1. cmd'.found = {cmd.key} /\ cmd'.at \in {"close", "delete"}
          BY <1>1, <2>1, <3>3, <4>2 DEF LocatedAs
        <5>2. k \in cmd'.found <=> Matching(k)
          BY <2>1, <2>2, <2>3, <3>3, <4>2, <5>1 DEF Matching
        <5> QED
          BY <1>6, <5>1, <5>2 DEF FoundOf, Walking
      <4> QED
        BY <4>1, <4>2
    <3>4. CASE ~cmd'.ok
      BY <1>2, <3>4
    <3> QED
      BY <1>1, <1>9, <2>8, <3>1, <3>2, <3>3, <3>4 DEF Advanced
  <2>9. ~GivenUp(c, cmd')
    BY <1>1, <1>2, <1>9 DEF GivenUp
  <2> QED
    BY <1>7, <2>6, <2>7, <2>8, <2>9
<1> QED
  BY <1>1, <1>8, <1>9

\* Cache.Get has recorded the hit.
LEMMA FoundRecordHit ==
    ASSUME TypeInv, SeenInv, PathInv, RecordHit, NEW k \in Keys, Quiet(k)', FoundOf(k)
    PROVE  FoundOf(k)'
<1>1. GoesOn /\ cmd # Idle /\ cmd.at = "hit" /\ cmd'.ok
  BY CallGoes, RecordHitFacts, NotIdle DEF TypeInv, GoesOn, Quiet
<1>2. PICK c \in CommandState : Only({"faults", "dropped", "hit"}, cmd, c) /\ LocatedAs(c, cmd')
  BY RecordHitFacts DEF TypeInv
<1>3. c.op = cmd.op /\ c.key = cmd.key /\ c.found = cmd.found /\ c.at = cmd.at
  BY <1>2 DEF Only, Fields
<1>4. (cmd.op # "show" => cmd.byKey /\ cmd.walk = {cmd.key}) /\ (cmd.key = k => k \in cmd.start.readable)
  BY <1>1 DEF TypeInv, CourseOf, FoundOf
<1>5. CASE cmd.op # "invalidate"
  <2>1. cmd'.found = cmd.found /\ cmd'.at = "size"
    BY <1>2, <1>3, <1>5 DEF LocatedAs, Only, Fields
  <2> QED
    BY <1>1, <1>4, <2>1, MatchingKept DEF FoundOf, Walking, Deleting
<1>6. CASE cmd.op = "invalidate"
  <2>1. cmd'.found = {cmd.key} /\ cmd'.at \in {"close", "delete"}
    BY <1>2, <1>3, <1>6 DEF LocatedAs
  <2>2. k \in cmd'.found <=> Matching(k)
    BY <1>4, <1>6, <2>1 DEF Matching
  <2> QED
    BY <1>1, <2>1, <2>2, MatchingKept DEF FoundOf, Walking
<1> QED
  BY <1>5, <1>6

LEMMA FoundWalkEnds ==
    ASSUME TypeInv, PathInv, WalkEnds, NEW k \in Keys, FoundOf(k)
    PROVE  FoundOf(k)'
<1>1. /\ GoesOn /\ cmd # Idle /\ cmd.at = "walk" /\ cmd.span = 0 /\ cmd.listed = {}
      /\ ScannedAs(cmd, cmd')
  BY LocalGoes, WalkEndsFacts, NotIdle DEF TypeInv, GoesOn
<1>2. ~cmd.byKey /\ ~InFilling(k)
  BY <1>1 DEF PathInv, PathOf, InFilling
<1>3. CASE cmd.op = "show" /\ ResolvedAs(cmd, cmd')
  BY <1>1, <1>3, FoundShow, MatchingKept DEF ResolvedAs
<1>4. CASE cmd.op # "show" /\ Only({"at", "out", "left"}, cmd, cmd') /\ cmd'.at \in {"close", "delete", "keys"}
  <2>1. cmd'.found = cmd.found
    BY <1>4 DEF Only, Fields
  <2>2. k \in cmd.found <=> Matching(k)
    BY <1>1, <1>2, <1>4 DEF FoundOf, Walking
  <2> QED
    BY <1>1, <1>4, <2>1, <2>2, MatchingKept DEF FoundOf, Walking
<1> QED
  BY <1>1, <1>3, <1>4 DEF ScannedAs, Only

LEMMA FoundStep ==
    ASSUME TypeInv, SeenInv, PathInv, FoundInv, PagedTiers = {}, Going
    PROVE  FoundInv'
<1> SUFFICES ASSUME NEW k \in Keys, Quiet(k)' PROVE FoundOf(k)'
  BY DEF FoundInv
<1>1. GoesOn /\ Quiet(k) /\ cmd # Idle /\ cmd'.ok /\ cmd \in CommandState
  BY GoingType, QuietBefore DEF GoesOn
<1>2. FoundOf(k) /\ PathOf(cmd) /\ CourseOf(cmd)
  BY <1>1 DEF FoundInv, PathInv, TypeInv
<1>3. ASSUME cmd.at \in Later, cmd'.at \in Later,
             Only({"at", "ok", "out", "faults", "dropped", "inserted", "updated", "removed", "left", "hit",
                   "batch", "overtaken", "key", "part"}, cmd, cmd')
      PROVE  FoundOf(k)'
  <2>1. cmd'.found = cmd.found /\ cmd'.truncated = cmd.truncated
    BY <1>3 DEF Only, Fields
  <2> QED
    BY <1>1, <1>2, <1>3, <2>1, FoundLater
<1>4. ASSUME cmd.at \in Walking, cmd'.at \in Walking,
             Only({"at", "faults", "dropped", "inserted", "updated", "size", "hit",
                   "batch", "overtaken"}, cmd, cmd')
      PROVE  FoundOf(k)'
  <2>1. cmd'.found = cmd.found /\ cmd'.listed = cmd.listed /\ cmd'.key = cmd.key /\ cmd'.span = cmd.span
    BY <1>4 DEF Only, Fields
  <2> QED
    BY <1>1, <1>2, <1>4, <2>1, FoundWalking
<1>5. CASE Query
  <2>1. cmd.at = "query" /\ QueriedAs(cmd, cmd')
    BY <1>5, QueryFacts DEF TypeInv
  <2>2. CASE cmd.op = "show"
    <3>1. cmd'.at \in {"get", "close"} /\ (cmd'.at = "get" => cmd'.part = "meta")
      BY <2>1, <2>2 DEF QueriedAs
    <3> QED
      BY <1>1, <2>2, <3>1, FoundShow, MatchingKept
  <2>3. CASE cmd.op = "list"
    <3>1. cmd'.at = "close" /\ Only({"at", "out", "truncated", "ok", "faults"}, cmd, cmd')
      BY <2>1, <2>3 DEF QueriedAs, Only
    <3>2. cmd'.found = cmd.found /\ ~Collects
      BY <1>2, <2>1, <2>3, <3>1 DEF Only, Fields, Collects, CourseOf
    <3> QED
      BY <1>1, <1>2, <3>1, <3>2, MatchingKept DEF FoundOf, Walking
  <2> QED
    BY <1>2, <2>1, <2>2, <2>3 DEF CourseOf
<1>6. CASE ExistsForShow
  <2>1. cmd.op = "show" /\ cmd.walk # {}
    BY <1>2, <1>6 DEF ExistsForShow, CourseOf
  <2>2. cmd'.at \in {"get", "close"} /\ (cmd'.at = "get" => cmd'.part = "meta")
    BY <1>6, <2>1, ExistsFacts DEF TypeInv
  <2> QED
    BY <1>1, <2>1, <2>2, FoundShow, MatchingKept
<1>7. CASE List
  BY <1>2, <1>7, FoundList
<1>8. CASE Fill \/ \E j \in Keys : Read(j)
  BY <1>1, <1>2, <1>8, FoundHandled, ReadHandled, FillHandled
<1>9. CASE WalkEnds
  BY <1>2, <1>9, FoundWalkEnds
<1>10. CASE DropOrphan
  BY <1>1, <1>10, DropOrphanFacts DEF TypeInv
<1>11. CASE Flushing
  <2>1. /\ Only({"hit", "batch", "overtaken", "faults"}, cmd, cmd') /\ cmd'.at = cmd.at
        /\ cmd.at \in {"size", "close"} \cup Deleting
    BY <1>11, FlushingFacts, FlushKeeps DEF TypeInv
  <2>2. CASE cmd.at = "size"
    BY <1>4, <2>1, <2>2 DEF Only, Walking
  <2>3. CASE cmd.at \in {"close"} \cup Deleting
    BY <1>3, <2>1, <2>3 DEF Only, Later
  <2> QED
    BY <2>1, <2>2, <2>3
<1>12. CASE Close
  BY <1>3, <1>12, CloseFacts DEF TypeInv, Only, Later
<1>13. CASE \E j \in Keys : DeleteNext(j)
  <2>1. /\ cmd.at = "delete" /\ cmd'.at \in {"raced", "deleteFile"}
        /\ Only({"at", "key", "left", "part"} \cup {"faults", "dropped"}, cmd, cmd')
    BY <1>13, DeleteNextFacts DEF TypeInv, AfterCall
  <2> QED
    BY <1>3, <2>1 DEF Only, Later, Deleting
<1>14. CASE DeleteFile
  <2>1. /\ cmd.at = "deleteFile"
        /\ \/ Only({"part", "faults"}, cmd, cmd')
           \/ Only({"at", "faults"}, cmd, cmd') /\ cmd'.at = "deleteRow"
    BY <1>1, <1>14, DeleteFileFacts DEF TypeInv
  <2>2. Only({"at", "part", "faults"}, cmd, cmd') /\ cmd'.at \in {"deleteFile", "deleteRow"}
    BY <2>1 DEF Only, Fields
  <2> QED
    BY <1>3, <2>1, <2>2 DEF Only, Later, Deleting
<1>15. CASE DeleteRow
  BY <1>3, <1>15, DeleteRowFacts DEF TypeInv, Only, Later, Deleting
<1>22. CASE DropHit
  BY <1>3, <1>22, DropHitFacts DEF TypeInv, Only, Later, Deleting
<1>16. CASE DeletesEnd \/ OrphansEnd
  BY <1>3, <1>16, EndFacts DEF TypeInv, Only, Later, Deleting
<1>17. CASE RecordHit
  BY <1>2, <1>17, FoundRecordHit
<1>18. CASE Size
  <2>1. cmd.at = "size" /\ cmd.op # "invalidate"
    BY <1>2, <1>18, SizeStepFacts DEF TypeInv, CourseOf
  <2>2. CASE cmd'.at = "upsert" /\ Only({"at", "size", "faults", "dropped"}, cmd, cmd')
    BY <1>4, <2>1, <2>2 DEF Only, Walking
  <2>3. CASE cmd.op # "reindex" /\ Only({"at", "out", "faults"}, cmd, cmd') /\ cmd'.at = "close"
    <3>1. cmd'.found = cmd.found
      BY <2>3 DEF Only, Fields
    <3>2. ~Collects
      BY <1>1, <1>2, <2>1, <2>3 DEF Collects, PathOf, CommandState
    <3> QED
      BY <1>1, <1>2, <2>3, <3>1, <3>2, MatchingKept DEF FoundOf, Walking
  <2>4. \/ cmd'.at = "upsert" /\ Only({"at", "size"} \cup {"faults", "dropped"}, cmd, cmd')
        \/ cmd.op # "reindex" /\ Only({"at", "out", "faults"}, cmd, cmd') /\ cmd'.at = "close"
    BY <1>1, <1>18, SizeStepFacts DEF TypeInv, AfterCall
  <2> QED
    BY <2>2, <2>3, <2>4 DEF Only
<1>19. CASE Upsert
  <2>1. cmd.at = "upsert" /\ cmd'.at = "walk" /\ Only({"at", "updated", "inserted"}, cmd, cmd')
    BY <1>1, <1>19, UpsertFacts DEF TypeInv, Only
  <2> QED
    BY <1>4, <2>1 DEF Only, Walking
<1>20. CASE AllKeys
  <2>1. /\ cmd.at = "keys" /\ cmd'.at \in {"close", "orphans"}
        /\ Only({"at", "out", "inserted", "updated", "removed", "left"}, cmd, cmd')
    BY <1>1, <1>20, AllKeysFacts DEF TypeInv, Only
  <2> QED
    BY <1>3, <2>1 DEF Only, Later
<1>21. CASE \E j \in Keys : DeleteOrphan(j)
  <2>1. cmd.at = "orphans" /\ Only({"left", "removed"}, cmd, cmd')
    BY <1>1, <1>21, DeleteOrphanFacts DEF TypeInv
  <2>2. cmd'.at = "orphans"
    BY <2>1 DEF Only, Fields
  <2> QED
    BY <1>3, <2>1, <2>2 DEF Only, Later
<1> QED
  BY <1>5, <1>6, <1>7, <1>8, <1>9, <1>10, <1>11, <1>12, <1>13, <1>14, <1>15, <1>16, <1>17, <1>18,
     <1>19, <1>20, <1>21, <1>22 DEF Going, Flushing

LEMMA FoundBegin ==
    ASSUME TypeInv, NEW i \in Invocations, Begin(i)
    PROVE  FoundInv'
<1>1. FreshAs(i, cmd') /\ cmd'.at \in {"query", "exists", "get", "list"}
  BY BeginFacts DEF BegunAs
<1>2. ASSUME NEW k \in Keys PROVE FoundOf(k)'
  BY <1>1 DEF FoundOf, FreshAs, Walking, Deleting
<1> QED
  BY <1>2 DEF FoundInv

\* Neither serve nor a step that changes nothing can disturb it.
LEMMA FoundAside ==
    ASSUME cmd' = cmd, touched \subseteq touched', PathInv /\ FoundInv
    PROVE  (PathInv /\ FoundInv)'
<1>1. ASSUME NEW k \in Keys, Quiet(k)' PROVE Quiet(k)
  BY <1>1 DEF Quiet, Untouched
<1>2. ASSUME NEW k \in Keys, FoundOf(k) PROVE FoundOf(k)'
  BY <1>2 DEF FoundOf, Matching, InFilling, Collects
<1> QED
  BY <1>1, <1>2 DEF PathInv, FoundInv

LEMMA FoundHolds ==
    ASSUME PagedTiers = {}
    PROVE  Spec => [](TypeInv /\ SeenInv /\ PathInv /\ FoundInv)
<1>1. Init => PathInv /\ FoundInv
  BY DEF Init, PathInv, FoundInv
<1>2. TypeInv /\ SeenInv /\ PathInv /\ FoundInv /\ [Next]_vars => (PathInv /\ FoundInv)'
  <2> SUFFICES ASSUME TypeInv, SeenInv, PathInv, FoundInv, [Next]_vars PROVE (PathInv /\ FoundInv)'
    OBVIOUS
  <2>1. CASE UNCHANGED vars
    BY <2>1, FoundAside DEF vars
  <2>2. CASE Serve
    BY <2>2, ServeGoes, FoundAside DEF ServeWrites
  <2>3. CASE Going
    BY <2>3, PathStep, FoundStep
  <2>4. CASE \E i \in Invocations : Begin(i)
    BY <2>4, PathBegin, FoundBegin
  <2> QED
    BY <2>1, <2>2, <2>3, <2>4 DEF Next, CommandStep, Going
<1> QED
  BY <1>1, <1>2, SeenHolds, PTL DEF Spec

-----------------------------------------------------------------------------
(* ReportInv.                                                                *)

LEMMA SteadyQuiet ==
    ASSUME NEW k
    PROVE  /\ Steady(k) => Quiet(k)
           /\ Steady(k)' => Quiet(k)'
  BY DEF Steady, Quiet, Untouched

LEMMA SteadyBefore ==
    ASSUME TypeInv, PathInv, Going, NEW k, Steady(k)'
    PROVE  Steady(k) /\ cmd # Idle /\ cmd'.ok /\ cmd'.dropped = {} /\ cmd.dropped = {}
<1>1. GoesOn /\ cmd.ok
  BY GoingType, OkBefore DEF Steady
<1> QED
  BY <1>1, NotIdle DEF GoesOn, Steady, Untouched

\* What was found is what the deletes begin with, or what the dry run reports.
LEMMA ChoosesFound ==
    ASSUME TypeInv, SeenInv, PathInv, Going, cmd.op = "invalidate", cmd.at \in BeforeDeletes, cmd'.ok
    PROVE  \/ cmd'.at \in BeforeDeletes
           \/ cmd'.at = "delete" /\ cmd'.left = cmd'.found /\ cmd'.out = {} /\ ~cmd'.truncated
           \/ cmd'.at = "close" /\ cmd'.out = cmd'.found /\ ~cmd'.truncated
<1>1. GoesOn /\ cmd # Idle
  BY GoingType, NotIdle DEF GoesOn
<1>2. PathOf(cmd) /\ CourseOf(cmd)
  BY <1>1 DEF PathInv, TypeInv
<1>3. cmd.out = {} /\ ~cmd.truncated
  BY <1>2 DEF PathOf
<1>4. cmd.at \in {"list", "walk", "get", "hit", "orphan"}
  BY <1>2 DEF CourseOf, BeforeDeletes
\* Cache.Get has returned.
<1>5. ASSUME NEW c, LocatedAs(c, cmd'), c.op = cmd.op, c.out = {}, c.truncated = cmd.truncated
      PROVE  \/ cmd'.at = "delete" /\ cmd'.left = cmd'.found /\ cmd'.out = {} /\ ~cmd'.truncated
             \/ cmd'.at = "close" /\ cmd'.out = cmd'.found /\ ~cmd'.truncated
  BY <1>3, <1>5 DEF LocatedAs, Only, Fields
<1>6. CASE List
  BY <1>6, ListFacts DEF TypeInv, BeforeDeletes
<1>7. CASE Fill \/ \E j \in Keys : Read(j)
  <2>1. PICK c \in CommandState : Handled(c)
    BY <1>7, ReadHandled, FillHandled
  <2>2. c.op = cmd.op /\ c.out = {} /\ c.truncated = cmd.truncated /\ c.at \in {"walk", "get"}
    BY <1>3, <2>1 DEF Handled, Only, Fields
  <2>3. CASE GivenUp(c, cmd')
    BY <2>2, <2>3 DEF GivenUp, BeforeDeletes
  <2>4. CASE Only({"at"}, c, cmd') /\ cmd'.at = "orphan"
    BY <2>4 DEF BeforeDeletes
  <2>5. CASE Only({"span", "data"}, c, cmd')
    BY <2>2, <2>5 DEF Only, Fields, BeforeDeletes
  <2>6. ASSUME NEW v, Advanced(c, v, cmd')
        PROVE  cmd'.at \in BeforeDeletes \/ LocatedAs(c, cmd')
    <3>1. CASE cmd' = c
      BY <2>2, <3>1 DEF BeforeDeletes
    <3>2. CASE Cut(c, cmd')
      BY <2>2, <3>2 DEF Cut
    <3>3. CASE c.at = "walk" /\ Taken(c, cmd')
      BY <2>2, <3>3 DEF Taken, Only, Fields, BeforeDeletes
    <3>4. CASE c.at = "get" /\ Only({"part"}, c, cmd')
      BY <3>4 DEF Only, Fields, BeforeDeletes
    <3>5. CASE cmd'.at = "hit"
      BY <3>5 DEF BeforeDeletes
    <3> QED
      BY <2>6, <3>1, <3>2, <3>3, <3>4, <3>5 DEF Advanced
  <2> QED
    BY <1>5, <2>1, <2>2, <2>3, <2>4, <2>5, <2>6 DEF Handled
<1>8. CASE WalkEnds
  <2>1. \/ Only({"at", "out"}, cmd, cmd') /\ cmd'.at = "close" /\ cmd'.out = cmd.found
        \/ Only({"at", "left"}, cmd, cmd') /\ cmd'.at = "delete" /\ cmd'.left = cmd.found
    BY <1>8, WalkEndsFacts DEF TypeInv, ScannedAs
  <2>2. cmd'.found = cmd.found /\ cmd'.truncated = cmd.truncated
    BY <2>1 DEF Only, Fields
  <2>3. Only({"at", "left"}, cmd, cmd') => cmd'.out = cmd.out
    BY DEF Only, Fields
  <2> QED
    BY <1>3, <2>1, <2>2, <2>3
<1>9. CASE RecordHit
  <2>1. PICK c \in CommandState : Only({"faults", "dropped", "hit"}, cmd, c) /\ LocatedAs(c, cmd')
    BY <1>9, RecordHitFacts DEF TypeInv
  <2>2. c.op = cmd.op /\ c.out = {} /\ c.truncated = cmd.truncated
    BY <1>3, <2>1 DEF Only, Fields
  <2> QED
    BY <1>5, <2>1, <2>2
<1>10. CASE DropOrphan
  BY <1>10, DropOrphanFacts DEF TypeInv
<1>11. ~Flushing
  BY <1>4, FlushKeeps DEF Deleting
<1> QED
  BY <1>4, <1>6, <1>7, <1>8, <1>9, <1>10, <1>11
     DEF Going, Flushing, Query, ExistsForShow, Close, DeleteFile, DeleteRow, DropHit, DeletesEnd, Size, Upsert,
         AllKeys, OrphansEnd, DeleteNext, DeleteOrphan

LEMMA InvalidatedStep ==
    ASSUME TypeInv, SeenInv, PathInv, Going, NEW k \in Keys, Steady(k)', FoundOf(k)',
           cmd.op = "invalidate", InvalidatedOf(k)
    PROVE  InvalidatedOf(k)'
<1>1. GoesOn /\ Steady(k) /\ cmd # Idle /\ cmd'.ok /\ cmd'.dropped = {} /\ cmd.dropped = {}
  BY GoingType, SteadyBefore
<1>2. (Matching(k)' <=> Matching(k)) /\ cmd'.op = cmd.op
  BY <1>1, MatchingKept
<1>3. ChoiceOf(cmd) /\ CourseOf(cmd)
  BY <1>1 DEF SeenInv, TypeInv
<1>4. CASE cmd.at \in BeforeDeletes
  <2>1. CASE cmd'.at \in BeforeDeletes
    BY <2>1 DEF InvalidatedOf, BeforeDeletes, Deleting
  <2>2. CASE cmd'.at \in {"delete", "close"} /\ ~cmd'.truncated
    <3>1. k \in cmd'.found <=> Matching(k)'
      BY <1>2, <2>2 DEF FoundOf, Collects, Deleting
    <3>2. ~InDeletion(k)'
      BY <2>2 DEF InDeletion, Deleting
    <3>3. cmd'.at = "delete" => cmd'.left = cmd'.found /\ cmd'.out = {}
      BY <1>1, <1>4, <2>2, ChoosesFound DEF BeforeDeletes
    <3>4. cmd'.at = "close" => cmd'.out = cmd'.found
      BY <1>1, <1>4, <2>2, ChoosesFound DEF BeforeDeletes
    <3> QED
      BY <2>2, <3>1, <3>2, <3>3, <3>4 DEF InvalidatedOf, Deleting
  <2> QED
    BY <1>1, <1>4, <2>1, <2>2, ChoosesFound
<1>5. CASE Flushing
  BY <1>2, <1>5, FlushKeeps DEF InvalidatedOf, InDeletion
<1>6. CASE Close
  <2>1. cmd.at = "close" /\ cmd'.at = "done" /\ Only({"at", "faults", "dropped"}, cmd, cmd')
    BY <1>6, CloseFacts DEF TypeInv
  <2>2. cmd'.out = cmd.out
    BY <2>1 DEF Only, Fields
  <2> QED
    BY <1>2, <2>1, <2>2 DEF InvalidatedOf, Deleting
<1>7. ASSUME NEW j \in Keys, DeleteNext(j) PROVE InvalidatedOf(k)'
  <2>1. PICK F \in FailingTiers :
          /\ AfterCall({"at", "key", "left", "part"}, F, cmd')
          /\ \/ Holding(j, "meta", F) = {} /\ cmd'.at = "raced"
             \/ Holding(j, "meta", F) # {} /\ cmd'.at = "deleteFile" /\ cmd'.part = "meta"
    BY <1>7, DeleteNextFacts DEF TypeInv
  <2>2. cmd.at = "delete" /\ j \in cmd.left /\ cmd'.key = j /\ cmd'.left = cmd.left \ {j}
    BY <1>7, DeleteNextFacts DEF TypeInv
  <2>3. F = {} /\ cmd'.out = cmd.out
    BY <1>1, <2>1 DEF AfterCall, Only, Fields
  <2>4. ~InDeletion(k) /\ (InDeletion(k)' <=> k = j)
    BY <2>1, <2>2 DEF InDeletion, Deleting
  <2>5. k = j => cmd'.at # "raced"
    <3> SUFFICES ASSUME k = j PROVE Holding(k, "meta", {}) # {}
      BY <2>1, <2>3
    <3>1. Matching(k)
      BY <2>2 DEF InvalidatedOf, Deleting
    <3>2. Undisturbed(cmd, touched, k)
      BY <1>1, <2>2 DEF Steady, Undisturbed, Untouched
    <3>3. VisibleIn(tiers, k, "meta") = Good
      BY <1>1, <3>1, <3>2 DEF SeenInv, Matching
    <3> QED
      BY <3>3, VisibleIs, CommandsAssumption DEF Visible
  <2> QED
    BY <1>2, <2>1, <2>2, <2>3, <2>4, <2>5 DEF InvalidatedOf, Deleting
<1>8. CASE DeleteFile
  <2>1. /\ cmd.at = "deleteFile"
        /\ \/ Only({"part", "faults"}, cmd, cmd')
           \/ Only({"at", "faults"}, cmd, cmd') /\ cmd'.at = "deleteRow"
    BY <1>1, <1>8, DeleteFileFacts DEF TypeInv
  <2>2. /\ cmd'.at \in {"deleteFile", "deleteRow"} /\ cmd'.left = cmd.left /\ cmd'.out = cmd.out
        /\ cmd'.key = cmd.key
    BY <2>1 DEF Only, Fields
  <2>3. InDeletion(k)' <=> InDeletion(k)
    BY <2>1, <2>2 DEF InDeletion, Deleting
  <2> QED
    BY <1>2, <2>1, <2>2, <2>3 DEF InvalidatedOf, Deleting
<1>9. CASE DeleteRow
  <2>1. /\ cmd.at \in {"deleteRow", "raced"} /\ cmd'.at \in {"delete", "dropHit"}
        /\ Only({"at", "out", "faults", "dropped"}, cmd, cmd')
        /\ cmd'.out = IF cmd.at = "raced" THEN cmd.out ELSE cmd.out \cup {cmd.key}
    BY <1>9, DeleteRowFacts DEF TypeInv
  <2>2. cmd'.left = cmd.left /\ cmd'.key = cmd.key
    BY <2>1 DEF Only, Fields
  <2>3. (InDeletion(k)' => k = cmd.key /\ cmd'.at = "dropHit") /\ (InDeletion(k) <=> k = cmd.key)
    BY <2>1, <2>2 DEF InDeletion, Deleting
  <2> QED
    BY <1>2, <2>1, <2>2, <2>3 DEF InvalidatedOf, Deleting
<1>11. CASE DropHit
  <2>1. /\ cmd.at = "dropHit" /\ cmd'.at = "delete"
        /\ Only({"at", "hit", "overtaken"}, cmd, cmd')
    BY <1>11, DropHitFacts DEF TypeInv
  <2>2. cmd'.left = cmd.left /\ cmd'.out = cmd.out /\ ~InDeletion(k)'
    BY <2>1 DEF Only, Fields, InDeletion
  <2> QED
    BY <1>2, <2>1, <2>2 DEF InvalidatedOf, Deleting
<1>10. CASE DeletesEnd
  <2>1. cmd.at = "delete" /\ cmd.left = {} /\ Only({"at"}, cmd, cmd') /\ cmd'.at = "close"
    BY <1>10, EndFacts DEF TypeInv
  <2>2. cmd'.out = cmd.out /\ ~InDeletion(k)
    BY <2>1 DEF Only, Fields, InDeletion, Deleting
  <2> QED
    BY <1>2, <2>1, <2>2 DEF InvalidatedOf, Deleting
<1> QED
  BY <1>4, <1>5, <1>6, <1>7, <1>8, <1>9, <1>10, <1>11, ZenonT(30)
     DEF Going, Flushing, Query, ExistsForShow, List, Fill, WalkEnds, DropOrphan, RecordHit, Size, Upsert,
         AllKeys, OrphansEnd, Read, DeleteOrphan, BeforeDeletes

\* What a size of a body is, and that a step of the reindex leaves it.
LEMMA SizeIs ==
    ASSUME NEW k
    PROVE  SizeNow(k) = IF BodySize(k, {}) = Absent THEN 0 ELSE BodySize(k, {})
<1>1. BodySize(k, {}) = Visible(k, "body")
  BY DEF BodySize, Visible
<1> QED
  BY <1>1, VisibleIs DEF SizeNow

LEMMA SizeKept ==
    ASSUME TypeInv, SeenInv, Going, NEW k \in Keys, Steady(k)', cmd.op = "reindex"
    PROVE  SizeNow(k)' = SizeNow(k)
<1>1. cmd'.op = "reindex"
  BY GoingType, MatchingKept
<1>2. Undisturbed(cmd', touched', k)
  BY <1>1 DEF Steady, Untouched, Undisturbed, ToDelete
<1>3. VisibleIn(tiers', k, "body") = VisibleIn(tiers, k, "body")
  BY <1>2, GoingSees DEF Parts
<1> QED
  BY <1>3 DEF SizeNow

\* The walk goes on without the row of k.
LEMMA ReindexedSame ==
    ASSUME GoesOn, NEW k, ReindexedOf(k), SizeNow(k)' = SizeNow(k), rows'[k] = rows[k],
           {cmd.at, cmd'.at} \cap {"close", "done", "orphans"} = {},
           k \in cmd'.inserted <=> k \in cmd.inserted,
           k \in cmd'.updated <=> k \in cmd.updated,
           k \in cmd'.removed <=> k \in cmd.removed,
           Indexed(k)' <=> Indexed(k),
           cmd'.at = "upsert" /\ cmd'.key = k => cmd'.size = SizeNow(k)
    PROVE  ReindexedOf(k)'
<1>1. cmd'.dry = cmd.dry /\ (Row(k)' <=> Row(k))
  BY MatchingKept DEF Row
<1>2. cmd.at \notin {"close", "done", "orphans"} /\ cmd'.at \notin {"close", "done", "orphans"}
  OBVIOUS
<1> QED
  BY <1>1, <1>2 DEF ReindexedOf

LEMMA ReindexedStep ==
    ASSUME TypeInv, SeenInv, PathInv, FoundInv, Going, NEW k \in Keys, Steady(k)', FoundOf(k)',
           cmd.op = "reindex", ReindexedOf(k)
    PROVE  ReindexedOf(k)'
<1>1. GoesOn /\ Steady(k) /\ cmd # Idle /\ cmd'.ok /\ cmd'.dropped = {} /\ cmd.dropped = {}
  BY GoingType, SteadyBefore
<1>2. /\ cmd'.op = "reindex" /\ cmd'.dry = cmd.dry /\ cmd'.start = cmd.start
      /\ cmd'.walk = cmd.walk /\ (Row(k)' <=> Row(k)) /\ (Orphan(k)' <=> Orphan(k))
  BY <1>1, MatchingKept DEF Row, Orphan
<1>3. PathOf(cmd) /\ CourseOf(cmd) /\ FoundOf(k)
  BY <1>1, SteadyQuiet DEF PathInv, TypeInv, FoundInv
<1>4. cmd.walk = Keys /\ ~cmd.byKey /\ cmd.hit = Absent
  BY <1>3 DEF PathOf
<1>5. cmd.at \notin {"query", "exists", "get", "hit"} \cup Deleting
  BY <1>3, <1>4 DEF CourseOf
<1>6. SizeNow(k)' = SizeNow(k)
  BY SizeKept
\* What has been found when the walk is through.
<1>7. cmd'.at \in {"close", "done", "orphans"} /\ ~cmd'.truncated =>
        (k \in cmd'.found <=> k \in cmd.start.readable)
  BY <1>2, <1>4 DEF FoundOf, Collects, Matching
<1>8. CASE List
  <2>1. /\ cmd.at = "list" /\ cmd'.at = "walk" /\ rows' = rows
        /\ Only({"at", "listed", "faults", "dropped"}, cmd, cmd')
    BY <1>8, ListFacts DEF TypeInv, AfterCall, Only
  <2>2. /\ cmd'.inserted = cmd.inserted /\ cmd'.updated = cmd.updated /\ cmd'.removed = cmd.removed
        /\ cmd'.found = cmd.found
    BY <2>1 DEF Only, Fields
  <2>3. Indexed(k)' <=> Indexed(k)
    BY <1>2, <2>1, <2>2 DEF Indexed
  <2> QED
    BY <1>1, <1>6, <2>1, <2>2, <2>3, ReindexedSame
<1>9. CASE Fill \/ \E j \in Keys : Read(j)
  <2>1. PICK c \in CommandState : Handled(c)
    BY <1>9, ReadHandled, FillHandled
  <2>2. rows' = rows
    BY <1>9, FillGoes, ReadGoes
  <2>3. /\ c.at = "walk" /\ cmd.at = "walk" /\ c.op = "reindex" /\ c.dry = cmd.dry
        /\ c.found = cmd.found /\ c.inserted = cmd.inserted /\ c.updated = cmd.updated
        /\ c.removed = cmd.removed
    BY <1>5, <2>1 DEF Handled, Only, Fields
  <2>4. c.key = k => k \notin cmd.found
    BY <1>3, <1>4, <2>1, <2>3 DEF FoundOf, Walking, Handled, InFilling
  <2>5. CASE Only({"span", "data"}, c, cmd')
    <3>1. /\ cmd'.inserted = cmd.inserted /\ cmd'.updated = cmd.updated
          /\ cmd'.removed = cmd.removed /\ cmd'.found = cmd.found /\ cmd'.at = "walk"
      BY <2>3, <2>5 DEF Only, Fields
    <3>2. Indexed(k)' <=> Indexed(k)
      BY <1>2, <2>3, <3>1 DEF Indexed
    <3> QED
      BY <1>1, <1>6, <2>2, <2>3, <3>1, <3>2, ReindexedSame
  <2>6. CASE Taken(c, cmd')
    <3>1. /\ cmd'.inserted = cmd.inserted /\ cmd'.updated = cmd.updated
          /\ cmd'.removed = cmd.removed /\ cmd'.found = cmd.found \cup {c.key}
          /\ cmd'.key = c.key
          /\ IF cmd.dry THEN cmd'.at = "walk" ELSE cmd'.at = "size"
      BY <2>3, <2>6 DEF Taken, Only, Fields
    <3>2. Indexed(k)' <=> Indexed(k)
      BY <1>2, <2>3, <2>4, <3>1 DEF Indexed
    <3> QED
      BY <1>1, <1>6, <2>2, <2>3, <3>1, <3>2, ReindexedSame
  <2>7. \/ Only({"span", "data"}, c, cmd') \/ Taken(c, cmd')
    <3>1. cmd' = c => Only({"span", "data"}, c, cmd')
      BY DEF Only
    <3> QED
      BY <2>1, <2>3, <3>1 DEF Handled, GivenUp, Advanced, Cut
  <2> QED
    BY <2>5, <2>6, <2>7
<1>10. CASE WalkEnds
  <2>1. cmd.at = "walk" /\ rows' = rows /\ Only({"at"}, cmd, cmd') /\ cmd'.at = "keys"
    BY <1>10, WalkEndsFacts DEF TypeInv, ScannedAs
  <2>2. /\ cmd'.inserted = cmd.inserted /\ cmd'.updated = cmd.updated /\ cmd'.removed = cmd.removed
        /\ cmd'.found = cmd.found
    BY <2>1 DEF Only, Fields
  <2>3. Indexed(k)' <=> Indexed(k)
    BY <1>2, <2>1, <2>2 DEF Indexed
  <2> QED
    BY <1>1, <1>6, <2>1, <2>2, <2>3, ReindexedSame
<1>11. CASE Size
  <2>1. PICK F \in FailingTiers :
          /\ AfterCall({"at", "size"}, F, cmd') /\ cmd'.at = "upsert"
          /\ cmd'.size = IF BodySize(cmd.key, F) = Absent THEN 0 ELSE BodySize(cmd.key, F)
    BY <1>11, SizeStepFacts DEF TypeInv
  <2>2. cmd.at = "size" /\ rows' = rows
    BY <1>11, SizeStepFacts DEF TypeInv
  <2>3. F = {}
    BY <1>1, <2>1 DEF AfterCall
  <2>4. /\ cmd'.inserted = cmd.inserted /\ cmd'.updated = cmd.updated /\ cmd'.removed = cmd.removed
        /\ cmd'.found = cmd.found /\ cmd'.key = cmd.key
    BY <2>1 DEF AfterCall, Only, Fields
  <2>5. Indexed(k)' <=> Indexed(k)
    BY <1>2, <2>1, <2>2, <2>4 DEF Indexed
  <2>6. cmd'.key = k => cmd'.size = SizeNow(k)
    BY <2>1, <2>3, <2>4, SizeIs
  <2> QED
    BY <1>1, <1>6, <2>1, <2>2, <2>4, <2>5, <2>6, ReindexedSame
<1>12. CASE Upsert
  <2>1. /\ cmd.at = "upsert" /\ cmd'.at = "walk" /\ rows' = [rows EXCEPT ![cmd.key] = cmd.size]
        /\ Only({"at", "updated", "inserted"}, cmd, cmd')
        /\ cmd'.updated = IF Probed(cmd.key) THEN cmd.updated \cup {cmd.key} ELSE cmd.updated
        /\ cmd'.inserted = IF Probed(cmd.key) THEN cmd.inserted ELSE cmd.inserted \cup {cmd.key}
    BY <1>1, <1>12, UpsertFacts DEF TypeInv, Only, Fields
  <2>2. cmd'.found = cmd.found /\ cmd'.removed = cmd.removed /\ cmd.removed = {}
        /\ ~cmd.dry /\ cmd.key \in cmd.found
    BY <1>3, <2>1 DEF Only, Fields, PathOf
  <2>3. rows \in [Keys -> Values("body")] /\ cmd.key \in Keys
    BY <1>1 DEF TypeInv, CommandsType, GoesOn, CommandState
  <2>4. CASE cmd.key = k
    <3>1. ~Indexed(k) /\ Indexed(k)'
      BY <1>2, <2>1, <2>2, <2>4 DEF Indexed
    <3>2. Probed(k) <=> Row(k)
      BY <2>2, <3>1 DEF ReindexedOf, Probed
    <3>3. k \notin cmd.inserted /\ k \notin cmd.updated /\ cmd.size = SizeNow(k)
      BY <2>1, <2>4, <3>1 DEF ReindexedOf
    <3>4. rows'[k] = SizeNow(k)'
      BY <1>6, <2>1, <2>3, <2>4, <3>3
    <3>5. (k \in cmd'.inserted <=> ~Row(k)) /\ (k \in cmd'.updated <=> Row(k))
      BY <2>1, <2>4, <3>2, <3>3
    <3> QED
      BY <1>2, <2>1, <2>2, <3>1, <3>4, <3>5 DEF ReindexedOf
  <2>5. CASE cmd.key # k
    <3>1. rows'[k] = rows[k]
      BY <2>1, <2>3, <2>5
    <3>2. Indexed(k)' <=> Indexed(k)
      BY <1>2, <2>1, <2>2, <2>5 DEF Indexed
    <3>3. (k \in cmd'.inserted <=> k \in cmd.inserted) /\ (k \in cmd'.updated <=> k \in cmd.updated)
      BY <2>1, <2>5
    <3> QED
      BY <1>1, <1>6, <2>1, <2>2, <3>1, <3>2, <3>3, ReindexedSame
  <2> QED
    BY <2>4, <2>5
<1>13. CASE AllKeys
  <2>1. cmd.at = "keys" /\ rows' = rows /\ cmd.removed = {} /\ ~cmd.truncated
    BY <1>3, <1>13, AllKeysFacts DEF TypeInv, PathOf, BeforeDeletes
  <2>2. CASE /\ cmd.dry /\ cmd'.at = "close"
             /\ Only({"at", "out", "inserted", "updated", "removed"}, cmd, cmd')
             /\ cmd'.inserted = cmd.found \ IndexedKeys /\ cmd'.updated = cmd.found \cap IndexedKeys
             /\ cmd'.removed = Orphans
    <3>1. cmd'.found = cmd.found /\ cmd'.truncated = cmd.truncated
      BY <2>2 DEF Only, Fields
    <3>2. k \in cmd.found <=> k \in cmd.start.readable
      BY <1>7, <2>1, <2>2, <3>1
    <3>3. rows[k] # Absent <=> Row(k)
      BY <2>2 DEF ReindexedOf
    <3>4. ~Indexed(k)'
      BY <1>2, <2>2 DEF Indexed
    <3>5. /\ k \in cmd'.inserted <=> k \in cmd.start.readable /\ ~Row(k)
          /\ k \in cmd'.updated  <=> k \in cmd.start.readable /\ Row(k)
          /\ k \in cmd'.removed  <=> Orphan(k)
      BY <2>2, <3>2, <3>3 DEF IndexedKeys, Orphans, Orphan
    <3> QED
      BY <1>2, <2>1, <2>2, <3>3, <3>4, <3>5 DEF ReindexedOf
  <2>3. CASE ~cmd.dry /\ Only({"at", "left"}, cmd, cmd') /\ cmd'.at = "orphans" /\ cmd'.left = Orphans
    <3>1. /\ cmd'.found = cmd.found /\ cmd'.truncated = cmd.truncated /\ cmd'.inserted = cmd.inserted
          /\ cmd'.updated = cmd.updated /\ cmd'.removed = {}
      BY <2>1, <2>3 DEF Only, Fields
    <3>2. k \in cmd.found <=> k \in cmd.start.readable
      BY <1>7, <2>1, <2>3, <3>1
    <3>3. (Indexed(k)' <=> Indexed(k)) /\ (Indexed(k) <=> k \in cmd.found)
      BY <1>2, <2>1, <2>3, <3>1 DEF Indexed
    <3>4. k \notin cmd.found => (rows[k] # Absent <=> Row(k))
      BY <2>1, <3>3 DEF ReindexedOf
    <3>5. k \in cmd'.left <=> Orphan(k)
      BY <2>3, <3>2, <3>4 DEF IndexedKeys, Orphans, Orphan
    <3> QED
      BY <1>2, <1>6, <2>1, <2>3, <3>1, <3>3, <3>4, <3>5 DEF ReindexedOf
  <2> QED
    BY <1>1, <1>13, <2>2, <2>3, AllKeysFacts DEF TypeInv
<1>14. ASSUME NEW j \in Keys, DeleteOrphan(j) PROVE ReindexedOf(k)'
  <2>1. /\ cmd.at = "orphans" /\ j \in cmd.left /\ rows' = [rows EXCEPT ![j] = Absent]
        /\ Only({"left", "removed"}, cmd, cmd')
        /\ cmd'.left = cmd.left \ {j} /\ cmd'.removed = cmd.removed \cup {j}
    BY <1>1, <1>14, DeleteOrphanFacts DEF TypeInv
  <2>2. /\ cmd'.found = cmd.found /\ cmd'.at = "orphans" /\ cmd'.inserted = cmd.inserted
        /\ cmd'.updated = cmd.updated
    BY <2>1 DEF Only, Fields
  <2>3. rows \in [Keys -> Values("body")]
    BY DEF TypeInv, CommandsType
  <2>4. (Indexed(k)' <=> Indexed(k)) /\ (k = j => ~Indexed(k))
    BY <1>2, <1>3, <2>1, <2>2 DEF Indexed, PathOf
  <2>5. rows'[k] = IF k = j THEN Absent ELSE rows[k]
    BY <2>1, <2>3
  <2>6. k \in cmd'.left \/ k \in cmd'.removed <=> k \in cmd.left \/ k \in cmd.removed
    BY <2>1
  <2>7. (k \in cmd'.removed <=> k = j \/ k \in cmd.removed) /\ ~cmd.dry
    BY <1>3, <2>1 DEF PathOf
  <2> QED
    BY <1>2, <1>6, <2>1, <2>2, <2>4, <2>5, <2>6, <2>7 DEF ReindexedOf
<1>15. CASE OrphansEnd
  <2>1. cmd.at = "orphans" /\ cmd.left = {} /\ Only({"at"}, cmd, cmd') /\ cmd'.at = "close" /\ rows' = rows
    BY <1>15, EndFacts DEF TypeInv, OrphansEnd, DeletesEnd
  <2>2. /\ cmd'.found = cmd.found /\ cmd'.truncated = cmd.truncated /\ cmd'.inserted = cmd.inserted
        /\ cmd'.updated = cmd.updated /\ cmd'.removed = cmd.removed
    BY <2>1 DEF Only, Fields
  <2>3. ~cmd.dry /\ ~cmd.truncated
    BY <1>3, <2>1 DEF PathOf, BeforeDeletes
  <2>4. (Indexed(k)' <=> Indexed(k)) /\ (Indexed(k) <=> k \in cmd.start.readable)
    BY <1>2, <1>7, <2>1, <2>2, <2>3 DEF Indexed
  <2> QED
    BY <1>2, <1>6, <2>1, <2>2, <2>4 DEF ReindexedOf
<1>16. CASE Close
  <2>1. /\ cmd.at = "close" /\ cmd'.at = "done" /\ rows' = rows
        /\ Only({"at", "faults", "dropped"}, cmd, cmd')
    BY <1>4, <1>16, CloseFacts DEF TypeInv
  <2>2. /\ cmd'.found = cmd.found /\ cmd'.inserted = cmd.inserted
        /\ cmd'.updated = cmd.updated /\ cmd'.removed = cmd.removed
    BY <2>1 DEF Only, Fields
  <2>3. Indexed(k)' <=> Indexed(k)
    BY <1>2, <2>1, <2>2 DEF Indexed
  <2> QED
    BY <1>2, <1>6, <2>1, <2>2, <2>3 DEF ReindexedOf
<1>17. ~Flushing /\ ~DropOrphan
  BY <1>1, <1>3, <1>4, FlushingFacts, DropOrphanFacts DEF TypeInv, CourseOf
<1>18. ~Query /\ ~ExistsForShow /\ ~RecordHit /\ ~DeleteFile /\ ~DeleteRow /\ ~DropHit
       /\ ~DeletesEnd /\ \A j \in Keys : ~DeleteNext(j)
  BY <1>5 DEF Query, ExistsForShow, RecordHit, DeleteFile, DeleteRow, DropHit, DeletesEnd, DeleteNext,
              Deleting
<1> QED
  BY <1>8, <1>9, <1>10, <1>11, <1>12, <1>13, <1>14, <1>15, <1>16, <1>17, <1>18 DEF Going, Flushing

LEMMA ReportBegin ==
    ASSUME TypeInv, NEW i \in Invocations, Begin(i)
    PROVE  ReportInv'
<1>1. /\ FreshAs(i, cmd') /\ cmd'.at \in {"query", "exists", "get", "list"} /\ rows' = rows
  BY BeginFacts DEF BegunAs
<1>2. ASSUME NEW k \in Keys PROVE InvalidatedOf(k)' /\ ReindexedOf(k)'
  <2>1. rows'[k] # Absent <=> Row(k)'
    BY <1>1 DEF FreshAs, Row, IndexedKeys
  <2>2. ~Indexed(k)'
    BY <1>1 DEF FreshAs, Indexed
  <2>3. cmd'.inserted = {} /\ cmd'.updated = {} /\ cmd'.removed = {}
    BY <1>1 DEF FreshAs
  <2> QED
    BY <1>1, <2>1, <2>2, <2>3 DEF InvalidatedOf, ReindexedOf, Deleting
<1> QED
  BY <1>2 DEF ReportInv

\* Serve has at most filled k.
LEMMA ReportServe ==
    ASSUME TypeInv, SeenInv, ReportInv, Serve
    PROVE  ReportInv'
<1>1. cmd' = cmd /\ touched \subseteq touched'
  BY ServeGoes DEF ServeWrites
<1> SUFFICES ASSUME cmd # Idle, NEW k \in Keys, Steady(k)'
             PROVE  /\ cmd.op = "invalidate" => InvalidatedOf(k)'
                    /\ cmd.op = "reindex" => ReindexedOf(k)'
  BY <1>1 DEF ReportInv
<1>2. Steady(k)
  BY <1>1 DEF Steady, Untouched
<1>3. rows'[k] = rows[k]
  BY ServeGoes DEF ServeWrites, Steady, Untouched
<1>4. CASE cmd.op = "invalidate"
  <2>1. InvalidatedOf(k)
    BY <1>2, <1>4 DEF ReportInv
  <2> QED
    BY <1>1, <1>4, <2>1 DEF InvalidatedOf, InDeletion, Matching
<1>5. CASE cmd.op = "reindex"
  <2>1. ReindexedOf(k)
    BY <1>2, <1>5 DEF ReportInv
  <2>2. Undisturbed(cmd', touched', k)
    BY <1>1, <1>5 DEF Steady, Untouched, Undisturbed, ToDelete
  <2>3. VisibleIn(tiers', k, "body") = VisibleIn(tiers, k, "body")
    BY <2>2, ServeSees DEF Parts
  <2>4. SizeNow(k)' = SizeNow(k)
    BY <2>3 DEF SizeNow
  <2>5. (Indexed(k)' <=> Indexed(k)) /\ (Row(k)' <=> Row(k)) /\ (Orphan(k)' <=> Orphan(k))
    BY <1>1 DEF Indexed, Row, Orphan
  <2> QED
    BY <1>1, <1>3, <1>5, <2>1, <2>4, <2>5 DEF ReindexedOf
<1> QED
  BY <1>4, <1>5

LEMMA ReportStep ==
    ASSUME TypeInv, SeenInv, PathInv, FoundInv, ReportInv, FoundInv', Going
    PROVE  ReportInv'
<1>1. GoesOn /\ cmd # Idle /\ cmd' # Idle /\ cmd'.op = cmd.op
  BY GoingType, MatchingKept, NotIdle DEF GoesOn
<1> SUFFICES ASSUME NEW k \in Keys, Steady(k)'
             PROVE  /\ cmd.op = "invalidate" => InvalidatedOf(k)'
                    /\ cmd.op = "reindex" => ReindexedOf(k)'
  BY <1>1 DEF ReportInv
<1>2. Steady(k) /\ FoundOf(k)'
  BY <1>1, SteadyBefore, SteadyQuiet DEF FoundInv
<1>3. CASE cmd.op = "invalidate"
  BY <1>1, <1>2, <1>3, InvalidatedStep DEF ReportInv
<1>4. CASE cmd.op = "reindex"
  BY <1>1, <1>2, <1>4, ReindexedStep DEF ReportInv
<1> QED
  BY <1>3, <1>4

LEMMA ReportHolds ==
    ASSUME PagedTiers = {}
    PROVE  Spec => [](TypeInv /\ SeenInv /\ PathInv /\ FoundInv /\ ReportInv)
<1>1. Init => ReportInv
  BY DEF Init, ReportInv
<1>2. TypeInv /\ SeenInv /\ PathInv /\ FoundInv /\ FoundInv' /\ ReportInv /\ [Next]_vars => ReportInv'
  <2> SUFFICES ASSUME TypeInv, SeenInv, PathInv, FoundInv, FoundInv', ReportInv, [Next]_vars
               PROVE  ReportInv'
    OBVIOUS
  <2>1. CASE UNCHANGED vars
    BY <2>1 DEF vars, ReportInv, Steady, Untouched, InvalidatedOf, ReindexedOf, InDeletion, Matching,
                SizeNow, Indexed, Row, Orphan
  <2>2. CASE Serve
    BY <2>2, ReportServe
  <2>3. CASE Going
    BY <2>3, ReportStep
  <2>4. CASE \E i \in Invocations : Begin(i)
    BY <2>4, ReportBegin
  <2> QED
    BY <2>1, <2>2, <2>3, <2>4 DEF Next, CommandStep, Going
<1> QED
  BY <1>1, <1>2, FoundHolds, PTL DEF Spec

\* What invalidate and reindex report, with --dry-run or without, is what was there
\* when they began: where no listing is cut at a page and no call has failed
\* unnoticed, each key counted once and in the right column, whatever serve reads
\* and fills in between (executeDeletes, runReindex, Cache.Reindex).
THEOREM ReportsExact == ASSUME PagedTiers = {} PROVE Spec => []ReportExact
<1>1. TypeInv /\ ReportInv => ReportExact
  <2> SUFFICES ASSUME TypeInv, ReportInv, cmd.at = "done", cmd.ok, cmd.dropped = {},
                      NEW k \in Keys, Untouched(k, {"put", "delete", "row"})
               PROVE  LET readable == k \in cmd.start.readable
                          row      == k \in cmd.start.rows
                      IN /\ cmd.op = "invalidate" => (k \in cmd.out <=> (readable /\ k \in cmd.walk))
                         /\ cmd.op = "reindex" =>
                                /\ k \in cmd.inserted <=> (readable /\ ~row)
                                /\ k \in cmd.updated  <=> (readable /\ row)
                                /\ k \in cmd.removed  <=> (row /\ ~readable)
    BY DEF ReportExact
  <2>1. cmd # Idle
    BY CommandIs DEF TypeInv
  <2>2. /\ cmd.op = "invalidate" => InvalidatedOf(k)
        /\ cmd.op = "reindex" => ReindexedOf(k)
    BY <2>1 DEF ReportInv, Steady
  <2>3. CASE cmd.op = "invalidate"
    BY <2>2, <2>3 DEF InvalidatedOf, Matching
  <2>4. CASE cmd.op = "reindex"
    BY <2>2, <2>4 DEF ReindexedOf, Row, Orphan
  <2> QED
    BY <2>3, <2>4
<1> QED
  BY <1>1, ReportHolds, PTL

\* After a reindex that ended well there is a row for exactly the entries that some
\* tier can serve, with the size of the body that a read returns, whatever serve
\* fills in between (Cache.Reindex over Tiered.List, Get and Size).
THEOREM TiersAreIndexed == ASSUME PagedTiers = {} PROVE Spec => []TiersIndexed
<1>1. TypeInv /\ SeenInv /\ ReportInv => TiersIndexed
  <2> SUFFICES ASSUME TypeInv, SeenInv, ReportInv,
                      Done("reindex"), ~cmd.dry, cmd.dropped = {},
                      NEW k \in Keys, Untouched(k, {"put", "delete", "row"})
               PROVE  rows[k] = CASE ~Readable(k) -> Absent
                                  [] Readable(k) /\ Visible(k, "body") = Absent -> 0
                                  [] Readable(k) /\ Visible(k, "body") # Absent -> Visible(k, "body")
    BY DEF TiersIndexed
  <2>1. cmd # Idle /\ cmd.at = "done" /\ cmd.op = "reindex" /\ cmd.ok /\ Steady(k)
    BY CommandIs DEF TypeInv, Done, Steady
  <2>2. ReindexedOf(k)
    BY <2>1 DEF ReportInv
  <2>3. Undisturbed(cmd, touched, k)
    BY <2>1 DEF Undisturbed, ToDelete, Steady, Untouched
  <2>4. Readable(k) <=> k \in cmd.start.readable
    BY <2>1, <2>3, VisibleIs DEF SeenInv, Readable
  <2>5. (Indexed(k) <=> Readable(k)) /\ (k \in cmd.removed <=> Orphan(k))
    BY <2>1, <2>2, <2>4 DEF ReindexedOf
  <2>6. Readable(k) => rows[k] = SizeNow(k)
    BY <2>2, <2>5 DEF ReindexedOf
  <2>7. ~Readable(k) => rows[k] = Absent
    BY <2>2, <2>4, <2>5 DEF ReindexedOf, Orphan
  <2>8. SizeNow(k) = IF Visible(k, "body") = Absent THEN 0 ELSE Visible(k, "body")
    BY VisibleIs DEF SizeNow
  <2> QED
    BY <2>6, <2>7, <2>8
<1> QED
  BY <1>1, ReportHolds, PTL
-----------------------------------------------------------------------------
(* ListInv.                                                                  *)

\* A set of keys that is finite has a size, and so has what it includes.
LEMMA KeySets ==
    ASSUME IsFiniteSet(Keys), NEW S \in SUBSET Keys
    PROVE  /\ IsFiniteSet(S) /\ Cardinality(S) \in Nat
           /\ \A T \in SUBSET S : Cardinality(T) <= Cardinality(S)
           /\ \A k \in Keys : Cardinality(S \cup {k}) <= Cardinality(S) + 1
<1>1. IsFiniteSet(S)
  BY FS_Subset
<1>2. Cardinality(S) \in Nat
  BY <1>1, FS_CardinalityType
<1>3. \A T \in SUBSET S : Cardinality(T) <= Cardinality(S)
  BY <1>1, FS_Subset
<1>4. ASSUME NEW k \in Keys PROVE Cardinality(S \cup {k}) <= Cardinality(S) + 1
  <2>1. Cardinality(S \cup {k}) = IF k \in S THEN Cardinality(S) ELSE Cardinality(S) + 1
    BY <1>1, FS_AddElement
  <2> QED
    BY <1>2, <2>1
<1> QED
  BY <1>1, <1>2, <1>3, <1>4

\* Serve takes a row only with its entry.
LEMMA ServeKeepsRow ==
    ASSUME TypeInv, Serve, NEW k \in Keys, Untouched(k, {"put", "delete"})', rows[k] # Absent
    PROVE  rows'[k] # Absent
<1>1. <<k, "put">> \notin touched' /\ <<k, "delete">> \notin touched'
  BY DEF Untouched
<1>2. rows \in [Keys -> Values("body")]
  BY DEF TypeInv, CommandsType
<1>3. CASE ServeFlush
  BY <1>3 DEF ServeFlush
<1>4. CASE ServeInsert
  <2>1. <<serve.key, "put">> \in touched' /\ rows' = [rows EXCEPT ![serve.key] = serve.size]
    BY <1>4 DEF ServeInsert, Touch
  <2> QED
    BY <1>1, <1>2, <2>1
<1>5. CASE ServeDropRow
  <2>1. <<serve.key, "delete">> \in touched' /\ rows' = [rows EXCEPT ![serve.key] = Absent]
    BY <1>5 DEF ServeDropRow, Touch
  <2> QED
    BY <1>1, <1>2, <2>1
<1>6. CASE ~ServeFlush /\ ~ServeInsert /\ ~ServeDropRow
  <2>1. rows' = rows
    BY <1>6 DEF Serve, ServePut, ServeGet, ServeDelete, ServePutBody, ServeFill, ServeGetBody,
                ServeHit, ServeDeleteBody
  <2> QED
    BY <2>1
<1> QED
  BY <1>3, <1>4, <1>5, <1>6

LEMMA ListQuery ==
    ASSUME TypeInv, PathInv, IsFiniteSet(Keys), Query, cmd.op = "list", ListOf, cmd'.ok
    PROVE  ListOf'
<1>1. /\ GoesOn /\ cmd # Idle /\ cmd.at = "query" /\ cmd'.at = "close" /\ cmd.indexed /\ ~cmd.truncated
      /\ cmd \in CommandState
  <2>1. cmd \in CommandState /\ cmd.at = "query" /\ QueriedAs(cmd, cmd')
    BY QueryFacts DEF TypeInv
  <2>2. GoesOn /\ cmd # Idle
    BY <2>1, LocalGoes, NotIdle
  <2> QED
    BY <2>1, <2>2 DEF QueriedAs, PathInv, PathOf, BeforeDeletes, TypeInv, CourseOf
<1> DEFINE M == IndexedKeys \cap cmd.sql
<1>2. M \in SUBSET Keys
  BY DEF IndexedKeys
<1>3. /\ \A k \in Keys : Row(k) /\ Untouched(k, {"put", "delete"}) => rows[k] # Absent
      /\ \A k \in Keys : Untouched(k, {"put", "delete", "row"}) => (rows[k] # Absent <=> Row(k))
  BY <1>1 DEF ListOf
<1>4. /\ There' = cmd.start.rows \cap cmd.sql /\ cmd'.limit = cmd.limit /\ touched' = touched
      /\ cmd.start.rows \subseteq Keys /\ cmd.limit \in Nat
  BY <1>1 DEF There, GoesOn, Kept, Settings, CommandState
<1>5. CASE /\ cmd.limit > 0 /\ Cardinality(M) > cmd.limit
           /\ Only({"at", "out", "truncated"}, cmd, cmd') /\ cmd'.truncated
           /\ cmd'.out \in kSubset(cmd.limit, M)
  <2>1. cmd'.out \subseteq M /\ Cardinality(cmd'.out) = cmd.limit
    BY <1>5 DEF kSubset
  <2>2. ASSUME \A k \in Keys : Untouched(k, {"put", "delete", "row"})' PROVE There' \ cmd'.out # {}
    <3>1. There' = M
      BY <1>3, <1>4, <2>2 DEF Untouched, Row, IndexedKeys
    <3>2. ~(M \subseteq cmd'.out)
      BY <1>2, <1>4, <1>5, <2>1, KeySets
    <3> QED
      BY <3>1, <3>2
  <2> QED
    BY <1>1, <1>4, <1>5, <2>1, <2>2 DEF ListOf
<1>6. CASE ~(cmd.limit > 0 /\ Cardinality(M) > cmd.limit) /\ Only({"at", "out"}, cmd, cmd') /\ cmd'.out = M
  <2>1. ~cmd'.truncated
    BY <1>1, <1>6 DEF Only, Fields
  <2>2. ASSUME NEW k \in There', Quiet(k)' PROVE k \in cmd'.out
    BY <1>3, <1>4, <1>6, <2>2 DEF Quiet, Untouched, Row, IndexedKeys
  <2>3. cmd.limit > 0 => Cardinality(cmd'.out) <= cmd.limit
    BY <1>2, <1>4, <1>6, KeySets
  <2> QED
    BY <1>1, <1>4, <2>1, <2>2, <2>3 DEF ListOf
<1> QED
  BY <1>1, <1>5, <1>6, QueryFacts DEF QueriedAs, TypeInv

LEMMA ListHandled ==
    ASSUME TypeInv, SeenInv, PathInv, FoundInv, IsFiniteSet(Keys), GoesOn, cmd.op = "list", ListOf,
           cmd'.ok, NEW c \in CommandState, Handled(c)
    PROVE  ListOf'
<1>1. /\ c.at = cmd.at /\ c.op = "list" /\ c.found = cmd.found /\ c.limit = cmd.limit
      /\ c.indexed = cmd.indexed /\ c.walk = cmd.walk /\ c.at \in {"walk", "get"}
      /\ cmd # Idle /\ cmd \in CommandState /\ cmd.at \in BeforeDeletes
  BY NotIdle DEF Handled, Only, Fields, GoesOn, BeforeDeletes
<1>2. cmd.ok /\ ~cmd.indexed /\ cmd'.limit = cmd.limit /\ cmd.limit \in Nat
  BY <1>1 DEF PathInv, PathOf, GoesOn, Kept, Settings, CommandState
<1>3. CASE cmd'.at \notin {"walk", "query", "close", "done"}
  BY <1>3 DEF ListOf
<1>4. CASE cmd' = c \/ Only({"span", "data", "part"}, c, cmd')
  <2>1. cmd'.at = cmd.at /\ cmd'.found = cmd.found
    BY <1>1, <1>4 DEF Only, Fields
  <2> QED
    BY <1>1, <1>2, <2>1 DEF ListOf
<1>5. CASE c.at = "walk" /\ Taken(c, cmd')
  <2>1. cmd'.at = "walk" /\ cmd'.found = cmd.found \cup {c.key} /\ ~LimitReached(c)
    BY <1>1, <1>5 DEF Taken, Only, Fields
  <2>2. /\ Cardinality(cmd.found) \in Nat /\ Cardinality(cmd'.found) \in Nat
        /\ Cardinality(cmd'.found) <= Cardinality(cmd.found) + 1
    <3>1. cmd.found \in SUBSET Keys /\ c.key \in Keys /\ cmd'.found \in SUBSET Keys
      BY DEF GoesOn, CommandState
    <3> QED
      BY <2>1, <3>1, KeySets
  <2>3. cmd.limit > 0 => Cardinality(cmd'.found) <= cmd.limit
    BY <1>1, <1>2, <2>1, <2>2 DEF LimitReached
  <2> QED
    BY <1>2, <2>1, <2>3 DEF ListOf
<1>6. ASSUME c.at = "walk", Cut(c, cmd'),
             "storage" \notin cmd'.dropped /\ Undisturbed(cmd, touched, c.key) =>
                 VisibleIn(tiers, c.key, c.part) = Good
      PROVE  ListOf'
  <2>1. /\ cmd'.at = "close" /\ cmd'.out = cmd.found /\ cmd'.truncated /\ c.key \in cmd.walk
        /\ cmd.limit > 0 /\ Cardinality(cmd.found) >= cmd.limit
    BY <1>1, <1>6 DEF Cut, LimitReached
  <2>2. Cardinality(cmd.found) \in Nat /\ c.key \in Keys
    <3>1. cmd.found \in SUBSET Keys /\ c.key \in Keys
      BY DEF GoesOn, CommandState
    <3> QED
      BY <3>1, KeySets
  <2>3. Cardinality(cmd.found) = cmd.limit
    BY <1>1, <1>2, <1>6, <2>1, <2>2 DEF ListOf
  <2>4. ASSUME "storage" \notin cmd'.dropped, \A k \in Keys : Untouched(k, {"put", "delete", "row"})'
        PROVE  There' \ cmd'.out # {}
    <3>1. Quiet(c.key)
      BY <1>2, <2>2, <2>4 DEF Quiet, GoesOn, Untouched
    <3>2. Undisturbed(cmd, touched, c.key) /\
          (VisibleIn(tiers, c.key, "meta") = Good <=> c.key \in cmd.start.readable)
      BY <1>1, <2>2, <3>1, QuietSees
    <3>3. c.part = "meta" /\ Matching(c.key)
      BY <1>6, <2>1, <2>4, <3>2 DEF Handled, Matching
    <3>4. c.key \notin cmd.found
      <4>1. ~cmd.byKey /\ FoundOf(c.key)
        BY <1>1, <1>6, <2>2, <3>1 DEF PathInv, PathOf, FoundInv
      <4> QED
        BY <1>1, <1>6, <4>1 DEF FoundOf, Walking, Handled, InFilling
    <3>5. There' = cmd.start.readable \cap cmd.walk
      BY <1>2 DEF There, GoesOn, Kept, Settings
    <3> QED
      BY <2>1, <3>3, <3>4, <3>5 DEF Matching
  <2> QED
    BY <1>2, <2>1, <2>2, <2>3, <2>4 DEF ListOf
<1>7. CASE GivenUp(c, cmd')
  BY <1>4, <1>7 DEF GivenUp
<1>8. CASE cmd'.at = "orphan"
  BY <1>3, <1>8
<1>9. ASSUME NEW v, Advanced(c, v, cmd'),
             "storage" \notin cmd'.dropped /\ Undisturbed(cmd, touched, c.key) =>
                 VisibleIn(tiers, c.key, c.part) = v
      PROVE  ListOf'
  <2>1. CASE c.at = "walk" /\ v = Good /\ Cut(c, cmd')
    BY <1>6, <1>9, <2>1
  <2>2. CASE c.at = "walk" /\ Taken(c, cmd')
    BY <1>5, <2>2
  <2>3. CASE cmd' = c \/ Only({"part"}, c, cmd')
    BY <1>4, <2>3 DEF Only
  <2>4. CASE cmd'.at = "hit"
    BY <1>3, <2>4
  <2>5. CASE LocatedAs(c, cmd')
    BY <1>1, <1>3, <2>5 DEF LocatedAs
  <2> QED
    BY <1>9, <2>1, <2>2, <2>3, <2>4, <2>5 DEF Advanced
<1>10. CASE Only({"span", "data"}, c, cmd')
  BY <1>4, <1>10 DEF Only
<1> QED
  BY <1>7, <1>8, <1>9, <1>10 DEF Handled

LEMMA ListStep ==
    ASSUME TypeInv, SeenInv, PathInv, FoundInv, PathInv', FoundInv', IsFiniteSet(Keys), Going,
           cmd.op = "list", ListOf
    PROVE  ListOf'
<1>1. GoesOn /\ cmd # Idle /\ cmd' # Idle /\ cmd \in CommandState /\ cmd' \in CommandState
  BY GoingType, NotIdle DEF GoesOn
<1>2. PathOf(cmd) /\ CourseOf(cmd) /\ PathOf(cmd')
  BY <1>1 DEF PathInv, TypeInv
<1>3. /\ cmd'.op = "list" /\ cmd'.limit = cmd.limit /\ cmd'.byKey = cmd.byKey /\ cmd'.walk = cmd.walk
      /\ cmd'.indexed = cmd.indexed /\ There' = There /\ touched' = touched
  BY <1>1, MatchingKept DEF There, GoesOn
<1>4. cmd.hit = Absent /\ cmd.at \notin Deleting \cup {"upsert", "keys", "orphans", "exists", "hit"}
  BY <1>2 DEF PathOf, CourseOf
<1>5. CASE ~cmd'.ok
  BY <1>2, <1>5 DEF ListOf, PathOf, BeforeDeletes
<1>6. ASSUME NEW k, Quiet(k)', cmd.ok PROVE Quiet(k)
  BY <1>1, <1>6 DEF Quiet, GoesOn, Untouched
<1>7. CASE cmd'.ok /\ Query
  BY <1>2, <1>7, ListQuery
<1>8. CASE List
  <2>1. cmd'.at = "walk" /\ cmd'.found = {}
    BY <1>2, <1>8, ListFacts DEF TypeInv, AfterCall, Only, Fields, PathOf
  <2>2. Cardinality(cmd'.found) = 0 /\ cmd'.limit \in Nat
    BY <1>1, <2>1, FS_EmptySet DEF CommandState
  <2> QED
    BY <1>3, <2>1, <2>2 DEF ListOf
<1>9. CASE cmd'.ok /\ (Fill \/ \E j \in Keys : Read(j))
  BY <1>1, <1>9, ListHandled, ReadHandled, FillHandled
<1>10. CASE WalkEnds
  <2>1. cmd.at = "walk" /\ Only({"at", "out"}, cmd, cmd') /\ cmd'.at = "close" /\ cmd'.out = cmd.found
    BY <1>10, WalkEndsFacts DEF TypeInv, ScannedAs
  <2>2. ~cmd'.truncated /\ cmd'.found = cmd.found /\ ~cmd.byKey /\ ~cmd.indexed
    BY <1>2, <2>1 DEF Only, Fields, PathOf, BeforeDeletes
  <2>3. ASSUME NEW k \in There, Quiet(k)' PROVE k \in cmd'.out
    <3>1. k \in Keys /\ Matching(k)'
      BY <1>1, <1>3, <2>2, <2>3, MatchingKept DEF There, Matching, CommandState
    <3>2. FoundOf(k)'
      BY <1>1, <2>3, <3>1 DEF FoundInv
    <3> QED
      BY <1>3, <2>1, <2>2, <3>1, <3>2 DEF FoundOf, Collects
  <2> QED
    BY <1>3, <2>1, <2>2, <2>3 DEF ListOf
<1>11. CASE Size
  <2>1. cmd.at = "size" /\ cmd'.at = "close" /\ (cmd'.ok => Only({"at", "out", "faults"}, cmd, cmd') /\ cmd'.out = {cmd.key})
    BY <1>11, SizeStepFacts DEF TypeInv
  <2>2. CASE cmd'.ok
    <3>1. ~cmd'.truncated /\ cmd.byKey /\ cmd.walk = {cmd.key} /\ ~cmd.indexed
      BY <1>2, <2>1, <2>2 DEF Only, Fields, PathOf, BeforeDeletes
    <3> QED
      BY <1>3, <2>1, <2>2, <3>1 DEF ListOf, There
  <2> QED
    BY <1>5, <2>2
<1>12. CASE Close
  <2>1. cmd.at = "close" /\ cmd'.at = "done" /\ Only({"at", "faults", "dropped"}, cmd, cmd') /\ cmd'.dropped = cmd.dropped
    BY <1>4, <1>12, CloseFacts DEF TypeInv
  <2>2. cmd'.out = cmd.out /\ cmd'.truncated = cmd.truncated /\ cmd'.ok = cmd.ok
    BY <2>1 DEF Only, Fields
  <2>3. (\A k \in Keys : Untouched(k, {"put", "delete", "row"})') <=> (\A k \in Keys : Untouched(k, {"put", "delete", "row"}))
    BY <1>3 DEF Untouched
  <2>4. cmd.ok => \A k \in There : Quiet(k)' => Quiet(k)
    BY <1>6
  <2> QED
    BY <1>3, <2>1, <2>2, <2>3, <2>4 DEF ListOf
<1>13. CASE cmd'.ok /\ DropOrphan
  BY <1>13, DropOrphanFacts DEF TypeInv
<1>14. ~Flushing
  BY <1>2, <1>4, FlushingFacts DEF TypeInv, PathOf
<1> QED
  BY <1>4, <1>5, <1>7, <1>8, <1>9, <1>10, <1>11, <1>12, <1>13, <1>14
     DEF Going, Flushing, ExistsForShow, RecordHit, DeleteFile, DeleteRow, DropHit, DeletesEnd, Upsert,
         AllKeys, OrphansEnd, DeleteNext, DeleteOrphan, Deleting

LEMMA ListBegin ==
    ASSUME TypeInv, NEW i \in Invocations, Begin(i)
    PROVE  ListInv'
<1>1. /\ FreshAs(i, cmd') /\ cmd'.at \in {"query", "exists", "get", "list"} /\ rows' = rows
  BY BeginFacts DEF BegunAs
<1>2. \A k \in Keys : rows'[k] # Absent <=> Row(k)'
  BY <1>1 DEF FreshAs, Row, IndexedKeys
<1> QED
  BY <1>1, <1>2 DEF ListInv, ListOf

LEMMA ListServe ==
    ASSUME TypeInv, ListInv, Serve
    PROVE  ListInv'
<1>1. cmd' = cmd /\ touched \subseteq touched'
  BY ServeGoes DEF ServeWrites
<1> SUFFICES ASSUME cmd # Idle, cmd.op = "list", ListOf PROVE ListOf'
  BY <1>1 DEF ListInv
<1>2. ASSUME NEW k, NEW acts, Untouched(k, acts)' PROVE Untouched(k, acts)
  BY <1>1, <1>2 DEF Untouched
<1>3. \A k : Quiet(k)' => Quiet(k)
  BY <1>1, <1>2 DEF Quiet
<1>4. ASSUME cmd.at = "query", NEW k \in Keys, Untouched(k, {"put", "delete"})', Row(k)
      PROVE  rows'[k] # Absent
  <2>1. rows[k] # Absent
    BY <1>2, <1>4 DEF ListOf
  <2> QED
    BY <1>4, <2>1, ServeKeepsRow
<1>5. ASSUME cmd.at = "query", NEW k \in Keys, Untouched(k, {"put", "delete", "row"})'
      PROVE  rows'[k] # Absent <=> Row(k)
  <2>1. rows'[k] = rows[k]
    BY <1>5, ServeGoes DEF ServeWrites, Untouched
  <2> QED
    BY <1>2, <1>5, <2>1 DEF ListOf
<1>6. There' = There /\ \A k : Row(k)' <=> Row(k)
  BY <1>1 DEF There, Row
<1> QED
  BY <1>1, <1>2, <1>3, <1>4, <1>5, <1>6 DEF ListOf

LEMMA ListHolds ==
    ASSUME PagedTiers = {}, IsFiniteSet(Keys)
    PROVE  Spec => [](TypeInv /\ ListInv)
<1>1. Init => ListInv
  BY DEF Init, ListInv, Idle
<1>2. TypeInv /\ SeenInv /\ PathInv /\ FoundInv /\ PathInv' /\ FoundInv' /\ ListInv /\ [Next]_vars => ListInv'
  <2> SUFFICES ASSUME TypeInv, SeenInv, PathInv, FoundInv, PathInv', FoundInv', ListInv, [Next]_vars
               PROVE  ListInv'
    OBVIOUS
  <2>1. CASE UNCHANGED vars
    BY <2>1 DEF vars, ListInv, ListOf, There, Row, Quiet, Untouched
  <2>2. CASE Serve
    BY <2>2, ListServe
  <2>3. CASE Going
    <3>1. cmd # Idle /\ cmd'.op = cmd.op
      BY <2>3, GoingType, MatchingKept, NotIdle DEF GoesOn
    <3> QED
      BY <2>3, <3>1, ListStep DEF ListInv
  <2>4. CASE \E i \in Invocations : Begin(i)
    BY <2>4, ListBegin
  <2> QED
    BY <2>1, <2>2, <2>3, <2>4 DEF Next, CommandStep, Going
<1> QED
  BY <1>1, <1>2, FoundHolds, PTL DEF Spec

\* A listing that is not reported as truncated has every matching entry that was
\* there all the time, from the index or from the walk; one that is reported has as
\* many entries as the limit and lacks some.  For any finite set of keys, where no
\* tier's listing is cut at a page (runList, Index.List).
THEOREM ListsComplete ==
    ASSUME PagedTiers = {}, IsFiniteSet(Keys)
    PROVE  Spec => []ListComplete
<1>1. TypeInv /\ ListInv => ListComplete
  <2> SUFFICES ASSUME TypeInv, ListInv, Done("list"), "storage" \notin cmd.dropped
               PROVE  LET still == {k \in There : Untouched(k, {"put", "delete"})}
                      IN /\ cmd.limit > 0 /\ ~cmd.byKey => Cardinality(cmd.out) <= cmd.limit
                         /\ ~cmd.truncated => still \subseteq cmd.out
                         /\ cmd.truncated => Cardinality(cmd.out) = cmd.limit
                         /\ cmd.truncated /\ (\A k \in Keys : Untouched(k, {"put", "delete", "row"}))
                                => There \ cmd.out # {}
    BY DEF ListComplete, There
  <2>1. cmd # Idle /\ cmd.at = "done" /\ cmd.op = "list" /\ cmd.ok
    BY CommandIs DEF TypeInv, Done
  <2>2. ListOf
    BY <2>1 DEF ListInv
  <2>3. \A k : Untouched(k, {"put", "delete"}) => Quiet(k)
    BY <2>1 DEF Quiet
  <2> QED
    BY <2>1, <2>2, <2>3 DEF ListOf
<1> QED
  BY <1>1, ListHolds, PTL

-----------------------------------------------------------------------------
(* FollowInv.                                                                *)

LEMMA AloneBefore ==
    ASSUME TypeInv, Going, NEW k, Alone(k)'
    PROVE  /\ GoesOn /\ Alone(k) /\ cmd # Idle /\ cmd.dropped = {} /\ cmd'.dropped = {}
           /\ cmd.ok => Quiet(k)
<1>1. GoesOn
  BY GoingType
<1>2. Alone(k) /\ cmd.dropped = {} /\ cmd'.dropped = {}
  BY <1>1 DEF Alone, GoesOn, Untouched
<1> QED
  BY <1>1, <1>2, NotIdle DEF Alone, Quiet, Untouched, GoesOn

\* Only Tiered.Delete changes what a read of k returns.
LEMMA AloneSees ==
    ASSUME TypeInv, SeenInv, Going, ~DeleteFile, NEW k \in Keys, Alone(k)'
    PROVE  /\ \A part \in Parts : VisibleIn(tiers', k, part) = VisibleIn(tiers, k, part)
           /\ Readable(k)' <=> Readable(k)
           /\ Visible(k, "body")' = Visible(k, "body")
<1>1. \A part \in Parts : VisibleIn(tiers', k, part) = VisibleIn(tiers, k, part)
  <2>1. CASE Fill
    <3>1. cmd.at \in BeforeDeletes
      BY <2>1, FillGoes DEF BeforeDeletes
    <3>2. Undisturbed(cmd, touched, k) /\ "storage" \notin cmd'.dropped
      BY <3>1, AloneBefore DEF Undisturbed, Alone, Untouched
    <3> QED
      BY <2>1, <3>2, FillSees
  <2>2. CASE UNCHANGED tiers
    BY <2>2
  <2>3. UNCHANGED tiers \/ Fill
    BY LocalGoes, ReadGoes, ListFacts, RecordHitFacts, SizeStepFacts, DeleteNextFacts
       DEF Going, Flushing, ExistsForShow, TypeInv
  <2> QED
    BY <2>1, <2>2, <2>3
<1>2. "meta" \in Parts /\ "body" \in Parts
  BY DEF Parts
<1> QED
  BY <1>1, <1>2, VisibleIs, VisibleNext DEF Readable

\* Until the deletes begin, where a row can change.
LEMMA RowsBefore ==
    ASSUME TypeInv, Going, cmd.at \in BeforeDeletes, NEW k \in Keys
    PROVE  \/ rows'[k] = rows[k]
           \/ Upsert /\ cmd.key = k
           \/ Flushing /\ cmd.key = k /\ cmd.batch # Absent
           \/ DropOrphan /\ cmd.key = k
           \/ DeleteOrphan(k)
<1>1. rows \in [Keys -> Values("body")]
  BY DEF TypeInv, CommandsType
<1>2. CASE Upsert
  BY <1>1, <1>2, UpsertFacts DEF TypeInv
<1>3. CASE Flushing
  BY <1>1, <1>3, FlushingFacts DEF TypeInv, UpsertRow
<1>4. CASE DropOrphan
  BY <1>1, <1>4, DropOrphanFacts DEF TypeInv
<1>5. ASSUME NEW j \in Keys, DeleteOrphan(j), rows'[k] # rows[k] PROVE j = k
  BY <1>1, <1>5, DeleteOrphanFacts DEF TypeInv
<1>6. CASE Query \/ ExistsForShow \/ List \/ Fill \/ WalkEnds \/ RecordHit \/ Size \/ AllKeys
           \/ OrphansEnd \/ \E j \in Keys : Read(j)
  <2>1. rows' = rows
    BY <1>6 DEF Query, ExistsForShow, List, Fill, WalkEnds, RecordHit, Size, AllKeys, OrphansEnd, Read
  <2> QED
    BY <2>1
<1> QED
  BY <1>2, <1>3, <1>4, <1>5, <1>6
     DEF Going, Flushing, Close, DeleteFile, DeleteRow, DropHit, DeletesEnd, DeleteNext, BeforeDeletes

\* Where a command goes from there, and what it then has in its buffer.
LEMMA LeadsOn ==
    ASSUME TypeInv, SeenInv, PathInv, Going, cmd.at \in BeforeDeletes
    PROVE  /\ cmd'.at \in BeforeDeletes \cup {"delete", "close"}
           /\ cmd.at = "orphans" => cmd'.at \in {"orphans", "close"}
           /\ Held' => RecordHit \/ (Held /\ cmd'.key = cmd.key)
           /\ cmd'.at = "orphan" => Fill \/ \E j \in Keys : Read(j)
<1>1. GoesOn /\ cmd # Idle /\ PathOf(cmd) /\ CourseOf(cmd)
  BY GoingType, NotIdle DEF GoesOn, PathInv, TypeInv
<1> DEFINE Led == /\ cmd'.at \in BeforeDeletes \cup {"delete", "close"}
                  /\ cmd.at = "orphans" => cmd'.at \in {"orphans", "close"}
                  /\ Held' => RecordHit \/ (Held /\ cmd'.key = cmd.key)
                  /\ cmd'.at = "orphan" => Fill \/ \E j \in Keys : Read(j)
<1> SUFFICES Led
  OBVIOUS
\* The buffer is still empty.
<1>2. ASSUME cmd.at \in {"query", "exists", "list", "walk", "get"}, cmd'.hit = cmd.hit, cmd'.batch = cmd.batch,
             cmd'.at \in {"list", "walk", "get", "hit", "size", "keys", "delete", "close"}
                         \cup (IF Fill \/ \E j \in Keys : Read(j) THEN {"orphan"} ELSE {})
      PROVE  Led
  BY <1>1, <1>2 DEF PathOf, CourseOf, Deleting, BeforeDeletes, Held
\* The key is kept, and the buffer is kept or flushed.
<1>3. ASSUME cmd'.key = cmd.key, {cmd'.hit, cmd'.batch} \subseteq {Absent, cmd.hit, cmd.batch},
             cmd'.at \in {"size", "walk", "upsert", "orphans", "close"},
             cmd.at = "orphans" => cmd'.at \in {"orphans", "close"}
      PROVE  Led
  BY <1>3 DEF BeforeDeletes, Held
<1>4. CASE Query
  <2>1. cmd.at = "query" /\ cmd'.hit = cmd.hit /\ cmd'.batch = cmd.batch /\ cmd'.at \in {"get", "close"}
    BY <1>4, QueryFacts DEF TypeInv, QueriedAs, Only, Fields
  <2> QED
    BY <1>2, <2>1
<1>5. CASE ExistsForShow
  <2>1. cmd.at = "exists" /\ cmd.walk # {}
    BY <1>1, <1>5 DEF ExistsForShow, TypeInv, CourseOf
  <2>2. cmd'.hit = cmd.hit /\ cmd'.batch = cmd.batch /\ cmd'.at \in {"get", "close"}
    BY <1>5, <2>1, ExistsFacts DEF TypeInv, Only, Fields
  <2> QED
    BY <1>2, <2>1, <2>2
<1>6. CASE List
  <2>1. cmd.at = "list" /\ cmd'.hit = cmd.hit /\ cmd'.batch = cmd.batch /\ cmd'.at = "walk"
    BY <1>6, ListFacts DEF TypeInv, AfterCall, Only, Fields
  <2> QED
    BY <1>2, <2>1
<1>7. CASE Fill \/ \E j \in Keys : Read(j)
  <2>1. PICK c \in CommandState : Handled(c)
    BY <1>7, ReadHandled, FillHandled
  <2>2. c.hit = cmd.hit /\ c.batch = cmd.batch /\ c.at = cmd.at /\ c.at \in {"walk", "get"}
    BY <2>1 DEF Handled, Only, Fields
  <2>3. CASE GivenUp(c, cmd')
    <3>1. cmd'.hit = c.hit /\ cmd'.batch = c.batch /\ cmd'.at \in {"walk", "close"}
      BY <2>3 DEF GivenUp, Only, Fields
    <3> QED
      BY <1>2, <2>2, <3>1
  <2>4. CASE Only({"at"}, c, cmd') /\ cmd'.at = "orphan"
    <3>1. cmd'.hit = c.hit /\ cmd'.batch = c.batch
      BY <2>4 DEF Only, Fields
    <3> QED
      BY <1>2, <1>7, <2>2, <2>4, <3>1
  <2>5. CASE Only({"span", "data"}, c, cmd')
    <3>1. cmd'.hit = c.hit /\ cmd'.batch = c.batch /\ cmd'.at = c.at
      BY <2>5 DEF Only, Fields
    <3> QED
      BY <1>2, <2>2, <3>1
  <2>6. ASSUME NEW v, Advanced(c, v, cmd') PROVE Led
    <3>1. cmd'.hit = c.hit /\ cmd'.batch = c.batch
      BY <2>6, AdvancedKeeps
    <3>2. CASE cmd' = c \/ Only({"part"}, c, cmd')
      <4>1. cmd'.at = c.at
        BY <3>2 DEF Only, Fields
      <4> QED
        BY <1>2, <2>2, <3>1, <4>1
    <3>3. CASE Cut(c, cmd')
      BY <1>2, <2>2, <3>1, <3>3 DEF Cut
    <3>4. CASE c.at = "walk" /\ Taken(c, cmd')
      <4>1. cmd'.at \in {"walk", "size"}
        BY <3>4 DEF Taken, Only, Fields
      <4> QED
        BY <1>2, <2>2, <3>1, <4>1
    <3>5. CASE cmd'.at \in {"close", "hit"}
      BY <1>2, <2>2, <3>1, <3>5
    <3>6. CASE LocatedAs(c, cmd')
      <4>1. cmd'.at \in {"size", "close", "delete"}
        BY <3>6 DEF LocatedAs
      <4> QED
        BY <1>2, <2>2, <3>1, <4>1
    <3> QED
      BY <2>6, <3>2, <3>3, <3>4, <3>5, <3>6 DEF Advanced
  <2> QED
    BY <2>1, <2>3, <2>4, <2>5, <2>6 DEF Handled
<1>8. CASE WalkEnds
  <2>1. cmd.at = "walk" /\ cmd'.hit = cmd.hit /\ cmd'.batch = cmd.batch /\ cmd'.at \in {"close", "delete", "get", "keys"}
    BY <1>8, WalkEndsFacts DEF TypeInv, ScannedAs, ResolvedAs, Only, Fields
  <2> QED
    BY <1>2, <2>1
<1>9. CASE DropOrphan
  <2>1. cmd'.key = cmd.key /\ cmd'.hit = cmd.hit /\ cmd'.batch = cmd.batch /\ cmd.at = "orphan" /\ cmd'.at = "close"
    BY <1>9, DropOrphanFacts DEF TypeInv, Only, Fields
  <2> QED
    BY <1>3, <2>1
<1>10. CASE Flushing
  <2>1. /\ {cmd'.hit, cmd'.batch} \subseteq {Absent, cmd.hit, cmd.batch}
        /\ cmd'.key = cmd.key /\ cmd'.at = cmd.at /\ cmd.at \in {"size", "close"} \cup Deleting
    BY <1>10, FlushingFacts, FlushKeeps DEF TypeInv
  <2>2. cmd.at = "size"
    BY <2>1 DEF BeforeDeletes, Deleting
  <2> QED
    BY <1>3, <2>1, <2>2
<1>11. CASE RecordHit
  <2>1. PICK c \in CommandState : LocatedAs(c, cmd') /\ cmd.at = "hit"
    BY <1>11, RecordHitFacts DEF TypeInv
  <2> QED
    BY <1>11, <2>1 DEF LocatedAs, BeforeDeletes
<1>12. CASE Size
  <2>1. cmd.at = "size" /\ cmd'.key = cmd.key /\ cmd'.hit = cmd.hit /\ cmd'.batch = cmd.batch /\ cmd'.at \in {"upsert", "close"}
    BY <1>12, SizeStepFacts DEF TypeInv, AfterCall, Only, Fields
  <2> QED
    BY <1>3, <2>1
<1>13. CASE Upsert
  <2>1. cmd.at = "upsert" /\ cmd'.key = cmd.key /\ cmd'.hit = cmd.hit /\ cmd'.batch = cmd.batch /\ cmd'.at \in {"walk", "close"}
    BY <1>13, UpsertFacts DEF TypeInv, Only, Fields
  <2> QED
    BY <1>3, <2>1
<1>14. CASE AllKeys
  <2>1. cmd.at = "keys" /\ cmd'.key = cmd.key /\ cmd'.hit = cmd.hit /\ cmd'.batch = cmd.batch /\ cmd'.at \in {"orphans", "close"}
    BY <1>14, AllKeysFacts DEF TypeInv, Only, Fields
  <2> QED
    BY <1>3, <2>1
<1>15. CASE OrphansEnd \/ \E j \in Keys : DeleteOrphan(j)
  <2>1. /\ cmd.at = "orphans" /\ cmd'.key = cmd.key /\ cmd'.hit = cmd.hit /\ cmd'.batch = cmd.batch
        /\ cmd'.at \in {"orphans", "close"}
    BY <1>15, EndFacts, DeleteOrphanFacts DEF TypeInv, Only, Fields, OrphansEnd
  <2> QED
    BY <1>3, <2>1
<1> QED
  BY <1>4, <1>5, <1>6, <1>7, <1>8, <1>9, <1>10, <1>11, <1>12, <1>13, <1>14, <1>15
     DEF Going, Flushing, Close, DeleteFile, DeleteRow, DropHit, DeletesEnd, DeleteNext, BeforeDeletes

\* Until the deletes begin.
LEMMA FollowBefore ==
    ASSUME TypeInv, SeenInv, PathInv, FoundInv, Going, cmd.at \in BeforeDeletes,
           NEW k \in Keys, Alone(k)', FollowedOf(k)
    PROVE  FollowedOf(k)'
<1>1. /\ GoesOn /\ Alone(k) /\ cmd # Idle /\ cmd.ok /\ Quiet(k) /\ PathOf(cmd)
      /\ cmd.dropped = {} /\ cmd'.dropped = {}
  BY AloneBefore DEF PathInv, PathOf
<1>2. (Row(k)' <=> Row(k)) /\ FoundOf(k) /\ CourseOf(cmd)
  BY <1>1, MatchingKept DEF Row, FoundInv, TypeInv
<1>3. /\ cmd'.at \in BeforeDeletes \cup {"delete", "close"}
      /\ cmd.at = "orphans" => cmd'.at \in {"orphans", "close"}
      /\ Held' => RecordHit \/ (Held /\ cmd'.key = cmd.key)
      /\ cmd'.at = "orphan" => Fill \/ \E j \in Keys : Read(j)
  BY LeadsOn
<1>4. ~InDeletion(k) /\ ~InDeletion(k)'
  BY <1>3 DEF InDeletion, Deleting, BeforeDeletes
<1>5. /\ \A part \in Parts : VisibleIn(tiers', k, part) = VisibleIn(tiers, k, part)
      /\ Readable(k)' <=> Readable(k)
      /\ Visible(k, "body")' = Visible(k, "body")
  BY AloneSees DEF DeleteFile, BeforeDeletes
<1>6. Readable(k) <=> k \in cmd.start.readable
  BY <1>1, QuietSees, VisibleIs DEF Readable
\* The row that is added is that of an entry that can be read.
<1>7. cmd'.ok /\ rows'[k] # Absent /\ ~Row(k) => Readable(k)
  <2> SUFFICES ASSUME rows'[k] # Absent, ~Row(k) PROVE Readable(k)
    OBVIOUS
  <2>1. CASE rows'[k] = rows[k]
    BY <1>1, <1>4, <2>1 DEF FollowedOf
  <2>2. CASE Upsert /\ cmd.key = k
    <3>1. cmd.at = "upsert" /\ cmd.op = "reindex"
      BY <1>2, <2>2 DEF Upsert, CourseOf
    <3>2. Matching(k)
      BY <1>1, <1>2, <2>2, <3>1 DEF PathOf, FoundOf
    <3> QED
      BY <1>6, <3>2 DEF Matching
  <2>3. CASE cmd.key = k /\ cmd.batch # Absent
    BY <1>1, <1>4, <2>3 DEF FollowedOf, Held
  <2>4. CASE DropOrphan /\ cmd.key = k
    <3>1. rows[k] = rows'[k]
      <4>1. rows \in [Keys -> Values("body")]
        BY DEF TypeInv, CommandsType
      <4> QED
        BY <2>4, <4>1, DropOrphanFacts DEF TypeInv
    <3> QED
      BY <2>1, <3>1
  <2>5. CASE DeleteOrphan(k)
    <3>1. rows[k] = rows'[k]
      <4>1. rows \in [Keys -> Values("body")]
        BY DEF TypeInv, CommandsType
      <4> QED
        BY <2>5, <4>1, DeleteOrphanFacts DEF TypeInv
    <3> QED
      BY <2>1, <3>1
  <2> QED
    BY <2>1, <2>2, <2>3, <2>4, <2>5, RowsBefore
\* So is the hit that is recorded.
<1>8. cmd'.ok /\ Held' /\ cmd'.key = k => Readable(k)
  <2> SUFFICES ASSUME Held', cmd'.key = k PROVE Readable(k)
    OBVIOUS
  <2>1. CASE RecordHit
    <3>1. PICK c \in CommandState : Only({"faults", "dropped", "hit"}, cmd, c) /\ LocatedAs(c, cmd')
      BY <2>1, RecordHitFacts DEF TypeInv
    <3>2. c.key = cmd.key /\ cmd'.key = c.key /\ cmd.at = "hit"
      <4>1. c.key = cmd.key /\ cmd.at = "hit"
        BY <2>1, <3>1, RecordHitFacts DEF TypeInv, Only, Fields
      <4>2. cmd'.key = c.key
        BY <3>1 DEF LocatedAs, Only, Fields, CommandState
      <4> QED
        BY <4>1, <4>2
    <3> QED
      BY <1>2, <1>6, <3>2 DEF FoundOf
  <2>2. CASE Held /\ cmd'.key = cmd.key
    BY <1>1, <1>4, <2>2 DEF FollowedOf
  <2> QED
    BY <1>3, <2>1, <2>2
\* The row that is taken is that of an entry that cannot.
<1>9. ASSUME rows'[k] = Absent, Row(k)
      PROVE  /\ cmd'.at \in {"orphans", "close"}
             /\ ~Readable(k) \/ Visible(k, "body") = Absent
  <2>1. CASE rows[k] = Absent
    BY <1>2, <1>3, <1>9, <2>1 DEF FollowedOf
  <2>2. CASE DropOrphan /\ cmd.key = k
    <3>1. cmd.at = "orphan" /\ cmd'.at = "close" /\ cmd.part \in {"meta", "body"}
      BY <2>2, DropOrphanFacts DEF TypeInv, CommandState, Parts
    <3>2. Visible(k, cmd.part) = Absent
      BY <2>2, <3>1 DEF FollowedOf
    <3> QED
      BY <3>1, <3>2, CommandsAssumption DEF Readable
  <2>3. CASE DeleteOrphan(k)
    <3>1. cmd.at = "orphans" /\ k \in cmd.left /\ cmd.op = "reindex"
      BY <1>2, <2>3, DeleteOrphanFacts DEF TypeInv, CourseOf
    <3>2. k \notin cmd.found /\ cmd.walk = Keys /\ ~cmd.truncated
      BY <1>1, <3>1 DEF PathOf, BeforeDeletes
    <3>3. ~Matching(k)
      BY <1>2, <3>1, <3>2 DEF FoundOf, Collects
    <3> QED
      BY <1>3, <1>6, <3>1, <3>2, <3>3 DEF Matching
  <2>4. rows[k] # Absent => rows'[k] # rows[k]
    BY <1>9
  <2>5. ~(Upsert /\ cmd.key = k /\ rows[k] # Absent)
    <3> SUFFICES ASSUME Upsert, cmd.key = k, rows[k] # Absent PROVE FALSE
      OBVIOUS
    <3>1. rows \in [Keys -> Values("body")] /\ cmd.size \in Sizes \cup {0}
      BY <1>1 DEF TypeInv, CommandsType, GoesOn, CommandState
    <3>2. rows' = rows \/ rows'[k] = cmd.size
      BY <3>1, UpsertFacts DEF TypeInv
    <3> QED
      BY <1>9, <3>1, <3>2, CommandsAssumption
  <2>6. ~(Flushing /\ cmd.key = k /\ rows[k] # Absent)
    <3> SUFFICES ASSUME Flushing, cmd.key = k, rows[k] # Absent PROVE FALSE
      OBVIOUS
    <3>1. rows' = rows
      BY FlushingFacts DEF TypeInv, UpsertRow
    <3> QED
      BY <1>9, <3>1
  <2> QED
    BY <2>1, <2>2, <2>3, <2>4, <2>5, <2>6, RowsBefore
\* Cache.Get finds no file.
<1>10. cmd'.at = "orphan" /\ cmd'.key = k => VisibleIn(tiers, k, cmd'.part) = Absent /\ cmd'.part \in Parts
  <2> SUFFICES ASSUME cmd'.at = "orphan", cmd'.key = k PROVE VisibleIn(tiers, k, cmd'.part) = Absent
    BY <1>1 DEF GoesOn, CommandState
  <2>1. PICK c \in CommandState : Handled(c)
    BY <1>3, ReadHandled, FillHandled
  <2>2. c.at \in {"walk", "get"} /\ c.op = cmd.op
    BY <2>1 DEF Handled, Only, Fields
  <2>3. \/ GivenUp(c, cmd')
        \/ Only({"at"}, c, cmd')
        \/ \E v : Advanced(c, v, cmd')
        \/ Only({"span", "data"}, c, cmd')
    BY <2>1 DEF Handled
  <2>4. ~GivenUp(c, cmd')
    BY <2>2 DEF GivenUp
  <2>5. ~Only({"span", "data"}, c, cmd')
    BY <2>2 DEF Only, Fields
  <2>6. ASSUME NEW v, Advanced(c, v, cmd') PROVE FALSE
    BY <2>2, <2>6 DEF Advanced, Cut, Taken, LocatedAs, Only, Fields
  <2>7. Only({"at"}, c, cmd') /\ ("storage" \notin cmd'.dropped /\ Undisturbed(cmd, touched, c.key) =>
                                    VisibleIn(tiers, c.key, c.part) = Absent)
    BY <2>1, <2>4, <2>5, <2>6 DEF Handled
  <2>8. cmd'.key = c.key /\ cmd'.part = c.part
    BY <2>7 DEF Only, Fields
  <2>9. Undisturbed(cmd, touched, k)
    BY <1>1, QuietSees
  <2> QED
    BY <1>1, <2>7, <2>8, <2>9
<1>11. cmd'.at = "orphan" /\ cmd'.key = k => Visible(k, cmd.part)' = Absent
  <2>1. Visible(k, cmd.part)' = VisibleIn(tiers', k, cmd'.part)
    <3>1. Holding(k, cmd.part, {})' = {t \in Tiers : tiers'[t][k][cmd'.part] # Absent}
      BY DEF Holding
    <3> QED
      BY <3>1 DEF Visible, VisibleIn
  <2> QED
    BY <1>5, <1>10, <2>1
<1>12. rows'[k] = Absent /\ Row(k) => cmd'.at \notin Deleting /\ cmd'.at \notin BeforeDeletes \ {"orphans"}
  BY <1>9 DEF Deleting, BeforeDeletes
<1>13. ~PastMeta(k)'
  BY <1>4 DEF PastMeta
\* Without an index there is nothing to change.
<1>14. ~cmd'.indexed => (rows'[k] # Absent <=> Row(k))
  <2> SUFFICES ASSUME ~cmd.indexed PROVE rows'[k] # Absent <=> Row(k)
    BY <1>1, MatchingKept
  <2>1. cmd.op # "reindex" /\ cmd.at # "orphan" /\ ~Held
    BY <1>1 DEF PathOf, Held
  <2>2. ~Upsert /\ ~DropOrphan /\ ~DeleteOrphan(k)
    BY <1>2, <2>1 DEF Upsert, DropOrphan, DeleteOrphan, CourseOf
  <2>3. rows'[k] = rows[k]
    BY <2>1, <2>2, RowsBefore DEF Held
  <2> QED
    BY <2>3 DEF FollowedOf
<1> QED
  BY <1>2, <1>4, <1>5, <1>7, <1>8, <1>9, <1>11, <1>12, <1>13, <1>14 DEF FollowedOf

LEMMA CleanIs ==
    ASSUME NEW k
    PROVE  /\ Clean(k) => ~Readable(k)
           /\ Clean(k)' => ~Readable(k)'
           /\ Holding(k, "meta", {}) = {} => Clean(k)
<1>1. Clean(k) => VisibleIn(tiers, k, "meta") = Absent
  BY VisibleNone DEF Clean
<1>2. Clean(k)' => VisibleIn(tiers', k, "meta") = Absent
  BY VisibleNone DEF Clean
<1>3. Holding(k, "meta", {}) = {} => Clean(k)
  BY DEF Holding, Clean
<1> QED
  BY <1>1, <1>2, <1>3, VisibleIs, VisibleNext, CommandsAssumption DEF Readable

\* From then on rows are only made by the flush of the hit.
LEMMA FollowFlush ==
    ASSUME TypeInv, PathInv, cmd.at \notin BeforeDeletes, Flushing \/ Close,
           NEW k \in Keys, Alone(k)', FollowedOf(k)
    PROVE  FollowedOf(k)'
<1>1. Going /\ tiers' = tiers /\ rows \in [Keys -> Values("body")]
  BY DEF Going, Flushing, SwapHit, CommitHit, RequeueHit, Close, TypeInv, CommandsType
<1>2. /\ GoesOn /\ Alone(k) /\ cmd # Idle /\ cmd.dropped = {} /\ cmd'.dropped = {}
      /\ ~cmd'.overtaken /\ PathOf(cmd)
  BY <1>1, AloneBefore DEF Alone, PathInv
<1>3. /\ cmd'.key = cmd.key /\ cmd'.ok = cmd.ok /\ cmd'.left = cmd.left /\ cmd'.part = cmd.part
      /\ Held' => Held
      /\ \/ cmd'.at = cmd.at /\ cmd.at \in {"close"} \cup Deleting
         \/ cmd.at = "close" /\ cmd'.at = "done"
      /\ \/ rows' = rows
         \/ /\ cmd.at # "dropHit"
            /\ (cmd.hit # Absent /\ UpsertRow(cmd.hit)) \/ (cmd.batch # Absent /\ UpsertRow(cmd.batch))
  <2>1. CASE Flushing
    <3>1. cmd'.key = cmd.key /\ cmd'.ok = cmd.ok /\ cmd'.left = cmd.left /\ cmd'.part = cmd.part
          /\ cmd'.at = cmd.at /\ cmd.at \in {"close"} \cup Deleting
      BY <2>1, FlushKeeps DEF BeforeDeletes
    <3>2. Held' => Held
      BY <2>1, FlushingFacts DEF TypeInv, Held
    <3>3. rows' = rows \/ (cmd.batch # Absent /\ UpsertRow(cmd.batch) /\ cmd.at # "dropHit")
      BY <1>2, <2>1, FlushingFacts DEF TypeInv
    <3> QED
      BY <3>1, <3>2, <3>3
  <2>2. CASE Close
    BY <2>2, CloseFacts DEF TypeInv, Only, Fields, Held
  <2> QED
    BY <2>1, <2>2
<1>4. (InDeletion(k)' <=> InDeletion(k)) /\ (PastMeta(k)' <=> PastMeta(k))
  BY <1>3 DEF InDeletion, PastMeta, Deleting
<1>5. /\ Readable(k)' <=> Readable(k)
      /\ Visible(k, "body")' = Visible(k, "body")
  BY <1>1, VisibleIs, VisibleNext DEF Readable
<1>6. Clean(k)' <=> Clean(k)
  BY <1>1 DEF Clean
<1>7. \/ rows'[k] = rows[k]
      \/ /\ rows[k] = Absent /\ rows'[k] # Absent /\ cmd.key = k
         /\ Held /\ cmd.indexed /\ cmd.at # "dropHit"
  <2>1. Held => cmd.indexed
    BY <1>2 DEF PathOf, Held
  <2> QED
    BY <1>1, <1>3, <2>1 DEF UpsertRow, Held
<1>8. (Row(k)' <=> Row(k)) /\ cmd'.indexed = cmd.indexed /\ cmd'.at \notin BeforeDeletes
      /\ cmd'.at # "orphan"
  BY <1>2, <1>3, MatchingKept DEF Row, BeforeDeletes, Deleting
<1>9. cmd'.ok /\ rows'[k] # Absent /\ ~Row(k)' => Readable(k)' \/ InDeletion(k)'
  BY <1>3, <1>4, <1>5, <1>7, <1>8 DEF FollowedOf
<1>10. cmd'.ok /\ Held' /\ cmd'.key = k => Readable(k)' \/ InDeletion(k)'
  BY <1>3, <1>4, <1>5 DEF FollowedOf
<1>11. rows'[k] = Absent /\ Row(k)' =>
          /\ ~(cmd'.at \in Deleting /\ k \in cmd'.left) /\ (InDeletion(k)' => PastMeta(k)')
          /\ ~Readable(k)' \/ Visible(k, "body")' = Absent
  BY <1>3, <1>4, <1>5, <1>7, <1>8 DEF FollowedOf, Deleting
<1>12. ~cmd'.indexed => (rows'[k] # Absent <=> Row(k)')
  BY <1>7, <1>8 DEF FollowedOf
<1>13. InDeletion(k)' /\ cmd'.at = "dropHit" => rows'[k] = Absent
  BY <1>3, <1>4, <1>7 DEF FollowedOf
<1> QED
  BY <1>4, <1>6, <1>8, <1>9, <1>10, <1>11, <1>12, <1>13 DEF FollowedOf

LEMMA FollowDeleteNext ==
    ASSUME TypeInv, SeenInv, NEW j \in Keys, DeleteNext(j),
           NEW k \in Keys, Alone(k)', FollowedOf(k)
    PROVE  FollowedOf(k)'
<1>1. Going /\ ~DeleteFile /\ tiers' = tiers /\ rows' = rows /\ cmd.at = "delete" /\ j \in cmd.left
  BY DEF Going, DeleteNext, DeleteFile
<1>2. GoesOn /\ Alone(k) /\ cmd # Idle /\ cmd'.dropped = {}
  BY <1>1, AloneBefore
<1>3. PICK F \in FailingTiers :
         /\ AfterCall({"at", "key", "left", "part"}, F, cmd')
         /\ cmd'.key = j /\ cmd'.left = cmd.left \ {j}
         /\ \/ Holding(j, "meta", F) = {} /\ cmd'.at = "raced"
            \/ Holding(j, "meta", F) # {} /\ cmd'.at = "deleteFile" /\ cmd'.part = "meta"
  BY DeleteNextFacts DEF TypeInv
<1>4. F = {} /\ cmd'.ok = cmd.ok
  BY <1>2, <1>3 DEF AfterCall, Only, Fields
<1>5. ~InDeletion(k) /\ (InDeletion(k)' <=> k = j) /\ cmd'.at \in Deleting
  BY <1>1, <1>3 DEF InDeletion, Deleting
<1>6. (Readable(k)' <=> Readable(k)) /\ Visible(k, "body")' = Visible(k, "body")
  BY <1>1, AloneSees
<1>7. PastMeta(k)' => Clean(k)'
  <2> SUFFICES ASSUME PastMeta(k)' PROVE Clean(k)'
    OBVIOUS
  <2>1. k = j /\ cmd'.at = "raced"
    BY <1>3, <1>5 DEF PastMeta
  <2>2. Holding(k, "meta", {}) = {}
    BY <1>3, <1>4, <2>1
  <2>3. Clean(k)
    BY <2>2, CleanIs
  <2> QED
    BY <1>1, <2>3 DEF Clean
<1>8. (Row(k)' <=> Row(k)) /\ cmd'.indexed = cmd.indexed
  BY <1>2, MatchingKept DEF Row
<1>9. cmd'.ok /\ rows'[k] # Absent /\ ~Row(k)' => Readable(k)'
  BY <1>1, <1>4, <1>5, <1>6, <1>8 DEF FollowedOf
<1>10. cmd'.key = k => InDeletion(k)'
  BY <1>3, <1>5
<1>11. rows'[k] = Absent /\ Row(k)' =>
          /\ k \notin cmd'.left /\ ~InDeletion(k)'
          /\ ~Readable(k)' \/ Visible(k, "body")' = Absent
  BY <1>1, <1>3, <1>5, <1>6, <1>8 DEF FollowedOf, Deleting
<1>12. cmd'.at \notin BeforeDeletes
  BY <1>5 DEF BeforeDeletes, Deleting
<1>13. cmd'.at # "orphan" /\ cmd'.at # "dropHit"
  BY <1>3
<1>14. ~cmd'.indexed => (rows'[k] # Absent <=> Row(k)')
  BY <1>1, <1>8 DEF FollowedOf
<1> QED
  BY <1>7, <1>9, <1>10, <1>11, <1>12, <1>13, <1>14 DEF FollowedOf

LEMMA FollowDeleteFile ==
    ASSUME TypeInv, SeenInv, DeleteFile, NEW k \in Keys, Alone(k)', FollowedOf(k)
    PROVE  FollowedOf(k)'
<1>1. Going /\ rows' = rows /\ cmd.at = "deleteFile"
  BY DEF Going, DeleteFile
<1>2. GoesOn /\ Alone(k) /\ cmd # Idle
  BY <1>1, AloneBefore
<1>3. PICK F \in FailingTiers :
         /\ WrittenAs(tiers', Tiers \ F, cmd.key, cmd.part, Absent)
         /\ \/ /\ F # {} /\ Only({"at", "ok", "faults"}, cmd, cmd')
               /\ cmd'.at = "delete" /\ ~cmd'.ok
            \/ /\ F = {} /\ cmd.part = "meta" /\ Only({"part", "faults"}, cmd, cmd')
               /\ cmd'.part = "body"
            \/ /\ F = {} /\ cmd.part = "body" /\ Only({"at", "faults"}, cmd, cmd')
               /\ cmd'.at = "deleteRow"
  BY DeletedTiers
<1>4. /\ cmd'.key = cmd.key /\ cmd'.left = cmd.left /\ cmd'.hit = cmd.hit /\ cmd'.batch = cmd.batch
      /\ cmd'.ok => cmd.ok /\ F = {}
      /\ \/ cmd'.at = "delete" /\ ~cmd'.ok
         \/ F = {} /\ cmd.part = "meta" /\ cmd'.part = "body" /\ cmd'.at = "deleteFile"
         \/ F = {} /\ cmd.part = "body" /\ cmd'.at = "deleteRow"
  BY <1>1, <1>3 DEF Only, Fields
<1>5. /\ Row(k)' <=> Row(k)
      /\ InDeletion(k) <=> cmd.key = k
      /\ cmd'.at # "delete" => (InDeletion(k)' <=> cmd.key = k)
      /\ cmd'.at \notin BeforeDeletes /\ cmd.part \in Parts
  BY <1>1, <1>2, <1>4, MatchingKept DEF Row, InDeletion, Deleting, BeforeDeletes, GoesOn, CommandState
<1>9. /\ ~cmd'.indexed => (rows'[k] # Absent <=> Row(k)')
      /\ Held' <=> Held
  BY <1>1, <1>2, <1>4, <1>5, MatchingKept DEF FollowedOf, Held
<1>6. \A t \in Tiers, p \in Parts : tiers'[t][k][p] =
         IF t \in Tiers \ F /\ k = cmd.key /\ p = cmd.part THEN Absent ELSE tiers[t][k][p]
  BY <1>3 DEF WrittenAs
\* Another entry.
<1>7. CASE k # cmd.key
  <2>1. \A t \in Tiers, p \in Parts : tiers'[t][k][p] = tiers[t][k][p]
    BY <1>6, <1>7
  <2>2. /\ Readable(k)' <=> Readable(k)
        /\ Visible(k, "body")' = Visible(k, "body")
    <3>1. VisibleIn(tiers', k, "body") = VisibleIn(tiers, k, "body")
      BY <2>1, VisibleSame DEF Parts
    <3> QED
      BY <1>2, <2>1, <3>1, SameTiers, VisibleIs, VisibleNext
  <2>3. ~InDeletion(k) /\ ~InDeletion(k)' /\ ~PastMeta(k)'
    BY <1>4, <1>7 DEF InDeletion, PastMeta
  <2>4. rows'[k] = Absent /\ Row(k)' =>
           /\ k \notin cmd'.left
           /\ ~Readable(k)' \/ Visible(k, "body")' = Absent
    BY <1>1, <1>4, <1>5, <2>2 DEF FollowedOf, Deleting
  <2>5. cmd'.ok /\ rows'[k] # Absent /\ ~Row(k)' => Readable(k)'
    BY <1>1, <1>4, <1>5, <2>2, <2>3 DEF FollowedOf
  <2>6. cmd'.key # k /\ cmd'.at # "orphan"
    BY <1>4, <1>7
  <2> QED
    BY <1>5, <1>9, <2>3, <2>4, <2>5, <2>6 DEF FollowedOf
\* The entry itself: its metadata, then its body.
<1>8. CASE k = cmd.key
  <2>1. PastMeta(k)' => Clean(k)'
    <3> SUFFICES ASSUME PastMeta(k)' PROVE Clean(k)'
      OBVIOUS
    <3>1. F = {}
      BY <1>4 DEF PastMeta, InDeletion
    <3>2. CASE cmd.part = "meta"
      BY <1>6, <1>8, <3>1, <3>2 DEF Clean, Parts
    <3>3. CASE cmd.part = "body"
      <4>1. Clean(k)
        BY <1>1, <1>5, <1>8, <3>3 DEF FollowedOf, PastMeta
      <4> QED
        BY <1>6, <3>3, <4>1 DEF Clean, Parts
    <3> QED
      BY <1>5, <3>2, <3>3 DEF Parts
  <2>2. cmd'.ok => InDeletion(k)'
    BY <1>4, <1>5, <1>8
  <2>3. rows'[k] = Absent /\ Row(k)' => cmd.part = "body" /\ k \notin cmd'.left /\ ~Readable(k)'
    <3> SUFFICES ASSUME rows'[k] = Absent, Row(k)'
                 PROVE  cmd.part = "body" /\ k \notin cmd'.left /\ ~Readable(k)'
      OBVIOUS
    <3>1. PastMeta(k) /\ k \notin cmd.left
      BY <1>1, <1>5, <1>8 DEF FollowedOf, Deleting
    <3>2. cmd.part = "body" /\ Clean(k)
      BY <1>1, <3>1 DEF FollowedOf, PastMeta
    <3>3. Clean(k)'
      BY <1>6, <3>2 DEF Clean, Parts
    <3> QED
      BY <1>4, <3>1, <3>2, <3>3, CleanIs
  <2>4. cmd.part = "body" => (InDeletion(k)' => PastMeta(k)')
    BY <1>4 DEF InDeletion, PastMeta
  <2>5. cmd'.at # "orphan" /\ cmd'.at # "dropHit"
    BY <1>4
  <2> QED
    BY <1>5, <1>9, <2>1, <2>2, <2>3, <2>4, <2>5 DEF FollowedOf
<1> QED
  BY <1>7, <1>8

LEMMA FollowDeleteRow ==
    ASSUME TypeInv, SeenInv, PathInv, DeleteRow, NEW k \in Keys, Alone(k)', FollowedOf(k)
    PROVE  FollowedOf(k)'
<1>1. Going /\ ~DeleteFile /\ rows \in [Keys -> Values("body")]
  BY DEF Going, DeleteRow, DeleteFile, TypeInv, CommandsType
<1>2. /\ GoesOn /\ Alone(k) /\ cmd # Idle /\ cmd'.dropped = {}
      /\ ChoiceOf(cmd) /\ CourseOf(cmd) /\ PathOf(cmd)
  BY <1>1, AloneBefore DEF SeenInv, TypeInv, PathInv
<1>3. (Readable(k)' <=> Readable(k)) /\ Visible(k, "body")' = Visible(k, "body")
  BY <1>1, AloneSees
<1>4. (Row(k)' <=> Row(k)) /\ cmd'.indexed = cmd.indexed
  BY <1>2, MatchingKept DEF Row
<1>5. /\ cmd.at \in {"deleteRow", "raced"}
      /\ Only({"at", "out", "faults", "dropped"}, cmd, cmd')
      /\ \/ rows' = [rows EXCEPT ![cmd.key] = Absent] /\ cmd'.at = "dropHit"
         \/ rows' = rows /\ cmd'.at = "delete" /\ ~cmd.indexed
  BY <1>2, DeleteRowFacts DEF TypeInv
<1>6. /\ cmd'.ok = cmd.ok /\ cmd'.left = cmd.left /\ cmd'.key = cmd.key
      /\ cmd'.hit = cmd.hit /\ cmd'.batch = cmd.batch
      /\ cmd'.at \notin BeforeDeletes /\ cmd'.at # "orphan"
  BY <1>5 DEF Only, Fields, BeforeDeletes
<1>7. /\ InDeletion(k) <=> cmd.key = k
      /\ cmd.key = k => PastMeta(k) /\ cmd.op = "invalidate"
  BY <1>2, <1>5 DEF InDeletion, PastMeta, Deleting, CourseOf
<1>8. cmd.indexed \/ rows' = rows
  BY DEF DeleteRow
<1>9. Clean(k)' <=> Clean(k)
  BY DEF DeleteRow, Clean
<1>10. CASE rows' = [rows EXCEPT ![cmd.key] = Absent] /\ cmd'.at = "dropHit"
  <2>1. (InDeletion(k)' <=> cmd.key = k) /\ (PastMeta(k)' <=> cmd.key = k)
    BY <1>6, <1>10 DEF InDeletion, PastMeta, Deleting
  <2>2. cmd.key # k => rows'[k] = rows[k]
    BY <1>1, <1>10
  <2>3. cmd.key = k => rows'[k] = Absent /\ ~Readable(k) /\ k \notin cmd.left /\ Clean(k)
    BY <1>1, <1>2, <1>5, <1>7, <1>10, CleanIs DEF FollowedOf, ChoiceOf
  <2>4. rows'[k] = Absent /\ Row(k)' =>
           k \notin cmd'.left /\ (~Readable(k)' \/ Visible(k, "body")' = Absent)
    BY <1>3, <1>4, <1>5, <1>6, <2>2, <2>3 DEF FollowedOf, Deleting
  <2>5. cmd'.ok /\ rows'[k] # Absent /\ ~Row(k)' => Readable(k)'
    BY <1>3, <1>4, <1>6, <1>7, <2>2, <2>3 DEF FollowedOf
  <2>6. ~cmd'.indexed => (rows'[k] # Absent <=> Row(k)')
    BY <1>4, <1>8 DEF FollowedOf
  <2> QED
    BY <1>6, <1>9, <2>1, <2>3, <2>4, <2>5, <2>6 DEF FollowedOf
<1>11. CASE rows' = rows /\ cmd'.at = "delete" /\ ~cmd.indexed
  <2>1. ~Held' /\ (rows'[k] # Absent <=> Row(k)')
    BY <1>2, <1>4, <1>6, <1>11 DEF FollowedOf, PathOf, Held
  <2>2. ~InDeletion(k)' /\ ~PastMeta(k)'
    BY <1>11 DEF InDeletion, PastMeta
  <2> QED
    BY <1>6, <2>1, <2>2 DEF FollowedOf
<1> QED
  BY <1>5, <1>10, <1>11

\* The hit is dropped, and no batch is left that could bring the row back.
LEMMA FollowDropHit ==
    ASSUME TypeInv, SeenInv, DropHit \/ DeletesEnd, NEW k \in Keys, Alone(k)', FollowedOf(k)
    PROVE  FollowedOf(k)'
<1>1. Going /\ ~DeleteFile
  BY DEF Going, DropHit, DeletesEnd, DeleteFile
<1>2. GoesOn /\ Alone(k) /\ cmd # Idle /\ ~cmd'.overtaken
  BY <1>1, AloneBefore DEF Alone
<1>3. (Readable(k)' <=> Readable(k)) /\ Visible(k, "body")' = Visible(k, "body")
  BY <1>1, AloneSees
<1>4. (Row(k)' <=> Row(k)) /\ cmd'.indexed = cmd.indexed
  BY <1>2, MatchingKept DEF Row
<1>5. /\ rows' = rows /\ cmd'.at \in {"delete", "close"}
      /\ Only({"at", "hit", "overtaken"}, cmd, cmd')
      /\ \/ cmd.at = "dropHit" /\ cmd'.hit = Absent /\ cmd.batch = Absent
         \/ cmd.at = "delete" /\ cmd'.at = "close" /\ cmd'.hit = cmd.hit
  <2>1. CASE DropHit
    BY <1>2, <2>1, DropHitFacts DEF TypeInv
  <2>2. CASE DeletesEnd
    BY <2>2, EndFacts DEF TypeInv, DeletesEnd, Only, Fields
  <2> QED
    BY <2>1, <2>2
<1>6. /\ cmd'.ok = cmd.ok /\ cmd'.key = cmd.key /\ cmd'.left = cmd.left /\ cmd'.batch = cmd.batch
      /\ ~InDeletion(k)' /\ ~PastMeta(k)' /\ cmd'.at \notin BeforeDeletes /\ cmd'.at # "orphan"
  BY <1>5 DEF Only, Fields, InDeletion, PastMeta, BeforeDeletes, Deleting
<1>7. Held' /\ cmd'.key = k => Held /\ cmd.key = k /\ ~InDeletion(k)
  BY <1>5, <1>6 DEF Held, InDeletion
<1>8. InDeletion(k) => rows[k] = Absent
  BY <1>5 DEF FollowedOf, InDeletion
<1>9. rows'[k] = Absent /\ Row(k)' =>
         /\ ~(cmd'.at \in Deleting /\ k \in cmd'.left)
         /\ ~Readable(k)' \/ Visible(k, "body")' = Absent
  BY <1>3, <1>4, <1>5, <1>6 DEF FollowedOf, Deleting
<1>10. ~cmd'.indexed => (rows'[k] # Absent <=> Row(k)')
  BY <1>4, <1>5 DEF FollowedOf
<1>11. cmd'.ok /\ rows'[k] # Absent /\ ~Row(k)' => Readable(k)'
  BY <1>3, <1>4, <1>5, <1>6, <1>8 DEF FollowedOf
<1>12. cmd'.ok /\ Held' /\ cmd'.key = k => Readable(k)'
  BY <1>3, <1>6, <1>7 DEF FollowedOf
<1> QED
  BY <1>6, <1>9, <1>10, <1>11, <1>12 DEF FollowedOf

LEMMA FollowBegin ==
    ASSUME TypeInv, NEW i \in Invocations, Begin(i), NEW k \in Keys
    PROVE  FollowedOf(k)'
<1>1. /\ cmd = Idle /\ cmd' \in CommandState /\ BegunAs(i, cmd')
      /\ UNCHANGED <<tiers, rows, serve, served, buffered>>
  BY BeginFacts
<1>2. /\ cmd'.at \in {"query", "exists", "get", "list"} /\ ~Held'
      /\ cmd'.start.rows = IndexedKeys
  BY <1>1 DEF BegunAs, FreshAs, Held
<1>3. Row(k)' <=> rows'[k] # Absent
  BY <1>1, <1>2 DEF Row, IndexedKeys
<1>4. ~PastMeta(k)' /\ cmd'.at # "orphan"
  BY <1>2 DEF PastMeta, InDeletion, Deleting
<1> QED
  BY <1>2, <1>3, <1>4 DEF FollowedOf

LEMMA FollowAside ==
    ASSUME cmd \in CommandState, cmd' = cmd, NEW k \in Keys, rows'[k] = rows[k],
           \A t \in Tiers, part \in Parts : tiers'[t][k][part] = tiers[t][k][part], FollowedOf(k)
    PROVE  FollowedOf(k)'
<1>1. \A part \in Parts : VisibleIn(tiers', k, part) = VisibleIn(tiers, k, part)
  BY VisibleSame
<1>2. "meta" \in Parts /\ "body" \in Parts /\ cmd.part \in Parts
  BY DEF Parts, CommandState
<1>3. (Readable(k)' <=> Readable(k)) /\ Visible(k, "body")' = Visible(k, "body")
  BY <1>1, <1>2, VisibleIs, VisibleNext DEF Readable
<1>4. Visible(k, cmd.part)' = Visible(k, cmd.part)
  <2>1. Visible(k, cmd.part)' = VisibleIn(tiers', k, cmd'.part)
    <3>1. Holding(k, cmd.part, {})' = {t \in Tiers : tiers'[t][k][cmd'.part] # Absent}
      BY DEF Holding
    <3> QED
      BY <3>1 DEF Visible, VisibleIn
  <2>2. VisibleIn(tiers', k, cmd'.part) = VisibleIn(tiers, k, cmd.part)
    BY <1>1, <1>2
  <2> QED
    BY <2>1, <2>2, VisibleIs
<1>5. /\ Clean(k)' <=> Clean(k)
      /\ InDeletion(k)' <=> InDeletion(k)
      /\ PastMeta(k)' <=> PastMeta(k)
      /\ Row(k)' <=> Row(k)
      /\ Held' <=> Held
  BY <1>2 DEF Clean, InDeletion, PastMeta, Row, Held
<1> QED
  BY <1>3, <1>4, <1>5 DEF FollowedOf

LEMMA FollowServe ==
    ASSUME TypeInv, Serve, cmd # Idle, NEW k \in Keys, Alone(k)', FollowInv
    PROVE  FollowedOf(k)'
<1>1. ServeWrites /\ cmd' = cmd
  BY ServeGoes DEF ServeWrites
<1>2. Alone(k)
  BY <1>1 DEF Alone, Untouched, ServeWrites
<1>3. \A t \in Tiers, part \in Parts : tiers'[t][k][part] = tiers[t][k][part]
  <2>1. Untouched(k, {"put", "fill"})' /\ <<k, "delete">> \notin touched'
    BY DEF Alone, Untouched
  <2> QED
    BY <2>1, ServeTiers
<1>4. rows'[k] = rows[k]
  BY <1>1 DEF Alone, Untouched, ServeWrites
<1>5. cmd \in CommandState
  BY DEF TypeInv, CommandsType
<1> QED
  BY <1>1, <1>2, <1>3, <1>4, <1>5, FollowAside DEF FollowInv

LEMMA FollowStep ==
    ASSUME TypeInv, SeenInv, PathInv, FoundInv, FollowInv, Going, NEW k \in Keys, Alone(k)'
    PROVE  FollowedOf(k)'
<1>1. Alone(k) /\ cmd # Idle
  BY AloneBefore
<1>2. FollowedOf(k)
  BY <1>1 DEF FollowInv
<1>3. CASE cmd.at \in BeforeDeletes
  BY <1>2, <1>3, FollowBefore
<1>4. CASE cmd.at \notin BeforeDeletes
  <2>1. CASE Flushing \/ Close
    BY <1>2, <1>4, <2>1, FollowFlush
  <2>2. CASE \E j \in Keys : DeleteNext(j)
    BY <1>2, <2>2, FollowDeleteNext
  <2>3. CASE DeleteFile
    BY <1>2, <2>3, FollowDeleteFile
  <2>4. CASE DeleteRow
    BY <1>2, <2>4, FollowDeleteRow
  <2>5. CASE DropHit \/ DeletesEnd
    BY <1>2, <2>5, FollowDropHit
  <2> QED
    BY <1>4, <2>1, <2>2, <2>3, <2>4, <2>5, ZenonT(30)
       DEF Going, Flushing, Query, ExistsForShow, List, Fill, WalkEnds, DropOrphan, RecordHit, Size, Upsert,
           AllKeys, OrphansEnd, Read, DeleteOrphan, BeforeDeletes
<1> QED
  BY <1>3, <1>4

LEMMA FollowHolds ==
    ASSUME PagedTiers = {}
    PROVE  Spec => [](TypeInv /\ FollowInv)
<1>1. Init => FollowInv
  BY DEF Init, FollowInv, Idle
<1>2. TypeInv /\ SeenInv /\ PathInv /\ FoundInv /\ FollowInv /\ [Next]_vars => FollowInv'
  <2> SUFFICES ASSUME TypeInv, SeenInv, PathInv, FoundInv, FollowInv, [Next]_vars,
                      cmd' # Idle, NEW k \in Keys, Alone(k)'
               PROVE  FollowedOf(k)'
    BY DEF FollowInv
  <2>1. CASE UNCHANGED vars
    <3>1. cmd' = cmd /\ rows' = rows /\ tiers' = tiers /\ touched' = touched
      BY <2>1 DEF vars
    <3>2. cmd \in CommandState /\ FollowedOf(k)
      BY <3>1 DEF TypeInv, CommandsType, FollowInv, Alone, Untouched
    <3> QED
      BY <3>1, <3>2, FollowAside
  <2>2. CASE Serve
    <3>1. cmd # Idle
      BY <2>2, ServeGoes DEF ServeWrites
    <3> QED
      BY <2>2, <3>1, FollowServe
  <2>3. CASE Going
    BY <2>3, FollowStep
  <2>4. CASE \E i \in Invocations : Begin(i)
    BY <2>4, FollowBegin
  <2> QED
    BY <2>1, <2>2, <2>3, <2>4 DEF Next, CommandStep, Going
<1> QED
  BY <1>1, <1>2, FoundHolds, PTL DEF Spec

\* When a command is done, a row that it added is that of an entry that can be
\* read, and one that it took away is not: no row is taken for an orphan, and a hit
\* whose flush ends before Index.Delete or begins after it does not bring back the
\* row of an entry that the command has deleted itself.  For every entry that serve
\* leaves alone, where no tier's listing is cut at a page, no error is dropped and
\* no flush was under way during Index.Delete (Index.Delete, Index.Flush, Close,
\* DropOrphan, DeleteOrphan).
THEOREM RowsAlwaysFollow == ASSUME PagedTiers = {} PROVE Spec => []RowsFollow
<1>1. TypeInv /\ FollowInv => RowsFollow
  <2> SUFFICES ASSUME TypeInv, FollowInv, cmd.at = "done", cmd.dropped = {}, ~cmd.overtaken,
                      NEW k \in Keys, Untouched(k, {"put", "fill", "delete", "row"})
               PROVE  /\ cmd.ok /\ rows[k] # Absent /\ k \notin cmd.start.rows => Readable(k)
                      /\ rows[k] = Absent /\ k \in cmd.start.rows =>
                             ~Readable(k) \/ Visible(k, "body") = Absent
    BY DEF RowsFollow
  <2>1. cmd # Idle /\ Alone(k)
    BY CommandIs DEF TypeInv, Alone
  <2>2. FollowedOf(k) /\ ~InDeletion(k)
    BY <2>1 DEF FollowInv, InDeletion, Deleting
  <2> QED
    BY <2>2 DEF FollowedOf, Row
<1> QED
  BY <1>1, FollowHolds, PTL

=============================================================================
