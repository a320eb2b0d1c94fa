------------------------ MODULE CacheCommandsProofs ------------------------
(***************************************************************************)
(* Theorems about the cache commands beside a serve process, for any number *)
(* of keys and tiers, any filters and limits, any number of failing calls   *)
(* and of operations of serve, and whatever the tiers and the index hold    *)
(* when the command begins.                                                 *)
(***************************************************************************)
EXTENDS CacheCommands, FiniteSetTheorems, WellFoundedInduction, TLAPS

\* A set of naturals that is not empty has a least element.
LEMMA MinFacts ==
    ASSUME NEW S, S \subseteq Nat, S # {}
    PROVE  Min(S) \in S /\ \A y \in S : Min(S) <= y
<1>1. PICK x \in S : \A y \in S : ~(<<y, x>> \in OpToRel(<, Nat))
  BY NatLessThanWellFounded, WFMin
<1>2. \A y \in S : ~(y < x)
  BY <1>1 DEF OpToRel
<1>3. \A y \in S : x <= y
  BY <1>2
<1> QED
  BY <1>3 DEF Min

-----------------------------------------------------------------------------
(* The types.                                                                *)

\* What a tier may hold of a part.
Values(part) == IF part = "meta" THEN {Good, Damaged, Absent} ELSE Sizes \cup {0, Absent}

BeforeDeletes == {"query", "exists", "list", "walk", "get", "hit", "size", "orphan", "upsert",
                  "keys", "orphans"}
Deleting == {"delete", "deleteFile", "deleteRow", "raced", "dropHit"}
Steps    == BeforeDeletes \cup Deleting \cup {"close", "done"}

CommandState ==
    [op : {"invalidate", "list", "show", "reindex"}, dry : BOOLEAN, byKey : BOOLEAN,
     walk : SUBSET Keys, sql : SUBSET Keys, indexed : BOOLEAN, limit : Nat,
     at : Steps, key : Keys, part : Parts, data : Values("meta") \cup Values("body"),
     span : {0} \cup Tiers, listed : SUBSET Keys, found : SUBSET Keys, left : SUBSET Keys,
     hit : Values("body"), size : Sizes \cup {0}, out : SUBSET Keys, truncated : BOOLEAN,
     ok : BOOLEAN, batch : Values("body"), overtaken : BOOLEAN, inserted : SUBSET Keys,
     updated : SUBSET Keys, removed : SUBSET Keys,
     faults : 0..MaxFaults, dropped : SUBSET {"storage", "index", "size"},
     start : [readable : SUBSET Keys, rows : SUBSET Keys]]

Fields == {"op", "dry", "byKey", "walk", "sql", "indexed", "limit", "at", "key", "part", "data",
           "span", "listed", "found", "left", "hit", "size", "out", "truncated", "ok", "batch",
           "overtaken", "inserted", "updated", "removed", "faults", "dropped", "start"}

Only(S, c, d) == \A f \in Fields \ S : d[f] = c[f]

\* A serve process in an operation.
ServeState ==
    {Idle}
    \cup [at : {"putBody", "insert"}, key : Keys, size : Sizes]
    \cup [at : {"getBody", "hit", "dropRow", "deleteBody"}, key : Keys]
    \cup [at : {"fill"}, key : Keys, part : Parts, span : Tiers,
          data : Values("meta") \cup Values("body")]

\* What a command has read and not yet written into the first tiers.
HandOf(c) ==
    /\ c.at \notin {"walk", "get"} => c.span = 0
    /\ c.at = "walk" /\ c.span > 0 => c.part = "meta"
    /\ c.span > 0 => c.data \in Values(c.part) /\ c.data # Absent

InHand ==
    /\ cmd # Idle => HandOf(cmd)
    /\ serve.at = "fill" => serve.data \in Values(serve.part) /\ serve.data # Absent

CommandsType ==
    /\ tiers \in [Tiers -> [Keys -> Objects]]
    /\ rows \in [Keys -> Values("body")]
    /\ served \in 0..MaxServed
    /\ buffered \in [Keys -> Values("body")]
    /\ touched \subseteq Keys \X {"put", "fill", "delete", "row"}
    /\ cmd = Idle \/ cmd \in CommandState
    /\ serve \in ServeState
    /\ InHand

LEMMA Basics ==
    /\ Keys # {} /\ Sizes \subseteq Nat \ {0} /\ N \in Nat \ {0} /\ Tiers \subseteq Nat
    /\ MaxFaults \in Nat /\ MaxServed \in Nat
    /\ \A t : t \in Tiers <=> t \in Nat /\ 1 <= t /\ t <= N
  BY CommandsAssumption DEF Tiers

\* A command is not idle where it is.
LEMMA CommandIs ==
    ASSUME CommandsType, cmd.at # "idle"
    PROVE  cmd \in CommandState /\ cmd # Idle
  BY DEF CommandsType, Idle

LEMMA ServeIs ==
    ASSUME CommandsType
    PROVE  /\ serve.at \in {"putBody", "insert"} =>
                 serve \in [at : {"putBody", "insert"}, key : Keys, size : Sizes]
           /\ serve.at \in {"getBody", "hit", "dropRow", "deleteBody"} =>
                 serve \in [at : {"getBody", "hit", "dropRow", "deleteBody"}, key : Keys]
           /\ serve.at = "fill" =>
                 serve \in [at : {"fill"}, key : Keys, part : Parts, span : Tiers,
                            data : Values("meta") \cup Values("body")]
           /\ serve.at # "idle" => serve.key \in Keys
  BY DEF CommandsType, ServeState, Idle

-----------------------------------------------------------------------------
(* The tiers.                                                                *)

LEMMA HoldingFacts ==
    ASSUME NEW k, NEW part, NEW F
    PROVE  /\ Holding(k, part, F) \subseteq Tiers
           /\ Holding(k, part, F) # {} =>
                 /\ Min(Holding(k, part, F)) \in Tiers \ F
                 /\ tiers[Min(Holding(k, part, F))][k][part] # Absent
                 /\ \A t \in Tiers \ F :
                       t < Min(Holding(k, part, F)) => tiers[t][k][part] = Absent
<1> DEFINE H == Holding(k, part, F)
<1>1. H \subseteq Tiers /\ H = {t \in Tiers \ F : tiers[t][k][part] # Absent}
  BY DEF Holding
<1>2. ASSUME H # {} PROVE /\ Min(H) \in H /\ \A t \in H : Min(H) <= t
  BY <1>1, <1>2, MinFacts, Basics
<1> HIDE DEF H
<1>3. ASSUME H # {}, NEW t \in Tiers \ F, t < Min(H) PROVE tiers[t][k][part] = Absent
  <2>1. Min(H) \in Tiers /\ ~(Min(H) <= t)
    BY <1>1, <1>2, <1>3, Basics
  <2> QED
    BY <1>1, <1>2, <1>3, <2>1
<1> QED
  BY <1>1, <1>2, <1>3 DEF H

\* What Tiered.Get returns of the tiers W: what the first tier that has it holds.
VisibleIn(W, k, part) ==
    LET H == {t \in Tiers : W[t][k][part] # Absent}
    IN IF H = {} THEN Absent ELSE W[Min(H)][k][part]

LEMMA VisibleIs ==
    ASSUME NEW k, NEW part
    PROVE  Visible(k, part) = VisibleIn(tiers, k, part)
<1>1. Holding(k, part, {}) = {t \in Tiers : tiers[t][k][part] # Absent}
  BY DEF Holding
<1> QED
  BY <1>1 DEF Visible, VisibleIn

LEMMA VisibleNext ==
    ASSUME NEW k, NEW part
    PROVE  Visible(k, part)' = VisibleIn(tiers', k, part)
<1>1. Holding(k, part, {})' = {t \in Tiers : tiers'[t][k][part] # Absent}
  BY DEF Holding
<1> QED
  BY <1>1 DEF Visible, VisibleIn

LEMMA VisibleFirst ==
    ASSUME NEW W, NEW k, NEW part, NEW t \in Tiers, W[t][k][part] # Absent,
           \A s \in Tiers : s < t => W[s][k][part] = Absent
    PROVE  VisibleIn(W, k, part) = W[t][k][part]
<1> DEFINE H == {s \in Tiers : W[s][k][part] # Absent}
<1>1. t \in H /\ H \subseteq Nat /\ H \subseteq Tiers
  BY Basics
<1>2. Min(H) \in H /\ \A s \in H : Min(H) <= s
  BY <1>1, MinFacts
<1>3. Min(H) \in Tiers /\ W[Min(H)][k][part] # Absent /\ Min(H) <= t
  BY <1>1, <1>2
<1>4. Min(H) = t
  BY <1>3, Basics
<1> QED
  BY <1>1, <1>4 DEF VisibleIn

LEMMA VisibleSame ==
    ASSUME NEW W, NEW X, NEW k, NEW part, \A t \in Tiers : W[t][k][part] = X[t][k][part]
    PROVE  VisibleIn(W, k, part) = VisibleIn(X, k, part)
<1> DEFINE H == {t \in Tiers : W[t][k][part] # Absent}
           I == {t \in Tiers : X[t][k][part] # Absent}
<1>1. H = I
  OBVIOUS
<1> HIDE DEF I
<1>2. H # {} => Min(H) \in Tiers
  <2>1. H \subseteq Nat /\ H \subseteq Tiers
    BY Basics
  <2> QED
    BY <2>1, MinFacts
<1>3. VisibleIn(W, k, part) = IF H = {} THEN Absent ELSE W[Min(H)][k][part]
  BY DEF VisibleIn
<1>4. VisibleIn(X, k, part) = IF H = {} THEN Absent ELSE X[Min(H)][k][part]
  BY <1>1 DEF VisibleIn, I
<1> QED
  BY <1>2, <1>3, <1>4

LEMMA VisibleNone ==
    ASSUME NEW W, NEW k, NEW part
    PROVE  /\ VisibleIn(W, k, part) = Absent <=> \A t \in Tiers : W[t][k][part] = Absent
           /\ VisibleIn(W, k, part) # Absent =>
                 \E t \in Tiers : /\ W[t][k][part] = VisibleIn(W, k, part)
                                  /\ \A s \in Tiers : s < t => W[s][k][part] = Absent
<1> DEFINE H == {t \in Tiers : W[t][k][part] # Absent}
<1>1. CASE H = {}
  BY <1>1 DEF VisibleIn
<1>2. CASE H # {}
  <2>1. H \subseteq Nat /\ H \subseteq Tiers
    BY Basics
  <2>2. Min(H) \in H /\ \A s \in H : Min(H) <= s
    BY <1>2, <2>1, MinFacts
  <2>3. \A s \in Tiers : s < Min(H) => s \notin H
    <3> HIDE DEF H
    <3>1. \A m, s \in Nat : s < m /\ m <= s => FALSE
      OBVIOUS
    <3>2. \A s \in H : Min(H) \in Nat /\ s \in Nat
      BY <2>1, <2>2
    <3> QED
      BY <2>2, <3>1, <3>2
  <2>4. VisibleIn(W, k, part) = W[Min(H)][k][part]
    BY <1>2 DEF VisibleIn
  <2> QED
    BY <2>1, <2>2, <2>3, <2>4
<1> QED
  BY <1>1, <1>2

-----------------------------------------------------------------------------
(* What a command does next.                                                 *)

\* At most one tier fails in a call.
LEMMA TierFaults ==
    ASSUME cmd \in CommandState, NEW F \in FailingTiers
    PROVE  /\ F \subseteq Tiers /\ (F = {} \/ \E t \in Tiers : F = {t})
           /\ cmd.faults + Cardinality(F) \in 0..MaxFaults
<1>1. cmd.faults \in 0..MaxFaults /\ MaxFaults \in Nat
  BY Basics DEF CommandState
<1>2. F = {} \/ (cmd.faults < MaxFaults /\ \E t \in Tiers : F = {t})
  BY DEF FailingTiers, SqlMayFail
<1>3. CASE F = {}
  BY <1>1, <1>3, FS_EmptySet
<1>4. CASE cmd.faults < MaxFaults /\ \E t \in Tiers : F = {t}
  <2>1. Cardinality(F) = 1
    BY <1>4, FS_Singleton
  <2> QED
    BY <1>1, <1>4, <2>1
<1> QED
  BY <1>2, <1>3, <1>4

LEMMA FaultFacts ==
    ASSUME NEW c \in CommandState, NEW F, c.faults + Cardinality(F) \in 0..MaxFaults,
           NEW by \in {"storage", "index", "size"}
    PROVE  /\ Fault(c, F) \in CommandState /\ Only({"faults"}, c, Fault(c, F))
           /\ DroppedFault(c, F, by) \in CommandState
           /\ Only({"faults", "dropped"}, c, DroppedFault(c, F, by))
           /\ DroppedFault(c, F, by).dropped
                = IF F = {} THEN c.dropped ELSE c.dropped \cup {by}
<1> DEFINE n == c.faults + Cardinality(F)
           b == IF F = {} THEN c.dropped ELSE c.dropped \cup {by}
           f == Fault(c, F)
           d == DroppedFault(c, F, by)
<1>1. f = [c EXCEPT !.faults = n]
  BY DEF Fault
<1>2. b \in SUBSET {"storage", "index", "size"} /\ n \in 0..MaxFaults
  BY DEF CommandState
<1> HIDE DEF n
<1>3. f \in CommandState /\ Only({"faults"}, c, f)
  <2>1. f \in CommandState
    BY <1>1, <1>2 DEF CommandState
  <2> QED
    BY <1>1, <2>1 DEF CommandState, Only, Fields
<1>4. d = [f EXCEPT !.dropped = b]
  <2>1. f.dropped = c.dropped
    BY <1>3 DEF Only, Fields
  <2> QED
    BY <2>1 DEF DroppedFault
<1> HIDE DEF b, f, d
<1>5. d \in CommandState
  BY <1>2, <1>3, <1>4 DEF CommandState
<1>6. d.dropped = b /\ Only({"dropped"}, f, d)
  BY <1>3, <1>4 DEF CommandState, Only, Fields
<1>7. Only({"faults", "dropped"}, c, d)
  BY <1>3, <1>6 DEF Only
<1> QED
  BY <1>3, <1>5, <1>6, <1>7 DEF b, f, d

\* One more call of SQLite fails.
LEMMA SqlFaults ==
    ASSUME cmd \in CommandState, SqlMayFail
    PROVE  cmd.faults + Cardinality({1}) \in 0..MaxFaults
<1>1. Cardinality({1}) = 1
  BY FS_Singleton
<1> QED
  BY <1>1, Basics DEF CommandState, SqlMayFail

LEMMA NextFacts ==
    ASSUME NEW c \in CommandState
    PROVE  /\ Fails(c) \in CommandState /\ Only({"at", "ok"}, c, Fails(c))
           /\ Fails(c).at = "close" /\ ~Fails(c).ok
           /\ \A out \in SUBSET Keys :
                 /\ Ends(c, out) \in CommandState /\ Only({"at", "out"}, c, Ends(c, out))
                 /\ Ends(c, out).at = "close" /\ Ends(c, out).out = out
           /\ \A k \in Keys :
                 /\ Gets(c, k) \in CommandState /\ Only({"at", "key", "part"}, c, Gets(c, k))
                 /\ Gets(c, k).at = "get" /\ Gets(c, k).key = k /\ Gets(c, k).part = "meta"
           /\ Chosen(c) \in CommandState
           /\ c.dry => /\ Only({"at", "out"}, c, Chosen(c))
                       /\ Chosen(c).at = "close" /\ Chosen(c).out = c.found
           /\ ~c.dry => /\ Only({"at", "left"}, c, Chosen(c))
                        /\ Chosen(c).at = "delete" /\ Chosen(c).left = c.found
<1>1. {"close", "get", "delete"} \subseteq Steps /\ "meta" \in Parts
  BY DEF Steps, BeforeDeletes, Deleting, Parts
<1>2. Fails(c) \in CommandState /\ Only({"at", "ok"}, c, Fails(c))
      /\ Fails(c).at = "close" /\ ~Fails(c).ok
  BY <1>1 DEF Fails, CommandState, Only, Fields
<1>3. ASSUME NEW out \in SUBSET Keys
      PROVE  /\ Ends(c, out) \in CommandState /\ Only({"at", "out"}, c, Ends(c, out))
             /\ Ends(c, out).at = "close" /\ Ends(c, out).out = out
  BY <1>1 DEF Ends, CommandState, Only, Fields
<1>4. ASSUME NEW k \in Keys
      PROVE  /\ Gets(c, k) \in CommandState /\ Only({"at", "key", "part"}, c, Gets(c, k))
             /\ Gets(c, k).at = "get" /\ Gets(c, k).key = k /\ Gets(c, k).part = "meta"
  BY <1>1 DEF Gets, CommandState, Only, Fields
<1>5. c.found \in SUBSET Keys
  BY DEF CommandState
<1>6. CASE c.dry
  BY <1>2, <1>3, <1>4, <1>5, <1>6 DEF Chosen
<1>7. CASE ~c.dry
  <2>1. Chosen(c) = [c EXCEPT !.at = "delete", !.left = c.found]
    BY <1>7 DEF Chosen
  <2> DEFINE S == c.found
             d == [c EXCEPT !.at = "delete", !.left = S]
  <2> HIDE DEF S
  <2>2. S \in SUBSET Keys
    BY <1>5 DEF S
  <2>3. d \in CommandState
    BY <1>1, <2>2 DEF CommandState
  <2>4. Only({"at", "left"}, c, d) /\ d.at = "delete" /\ d.left = S
    BY <1>1, <2>2 DEF CommandState, Only, Fields
  <2>5. Chosen(c) = d
    BY <2>1 DEF S
  <2> HIDE DEF d
  <2> QED
    BY <1>2, <1>3, <1>4, <1>7, <2>3, <2>4, <2>5 DEF S
<1> QED
  BY <1>6, <1>7

\* Where the callback of Walk leaves a command.
Cut(c, d) ==
    /\ c.op = "list" /\ c.key \in c.walk /\ LimitReached(c)
    /\ Only({"at", "out", "truncated"}, c, d)
    /\ d.at = "close" /\ d.out = c.found /\ d.truncated

Taken(c, d) ==
    /\ c.key \in c.walk /\ ~(c.op = "list" /\ LimitReached(c))
    /\ d.found = c.found \cup {c.key}
    /\ IF c.op = "reindex" /\ ~c.dry THEN Only({"at", "found"}, c, d) /\ d.at = "size"
                                     ELSE Only({"found"}, c, d)

LEMMA VisitedFacts ==
    ASSUME NEW c \in CommandState
    PROVE  /\ Visited(c) \in CommandState
           /\ (c.key \notin c.walk /\ Visited(c) = c) \/ Cut(c, Visited(c)) \/ Taken(c, Visited(c))
<1>1. CASE c.key \notin c.walk
  BY <1>1 DEF Visited
<1>2. CASE c.key \in c.walk /\ c.op = "list" /\ LimitReached(c)
  <2> DEFINE e == Ends(c, c.found)
             d == [e EXCEPT !.truncated = TRUE]
  <2>1. Visited(c) = d
    BY <1>2 DEF Visited
  <2>2. /\ e \in CommandState /\ Only({"at", "out"}, c, e)
        /\ e.at = "close" /\ e.out = c.found
    BY NextFacts DEF CommandState
  <2> HIDE DEF e
  <2>3. /\ d \in CommandState /\ Only({"truncated"}, e, d) /\ d.truncated
        /\ d.at = e.at /\ d.out = e.out
    BY <2>2, ZenonT(30) DEF CommandState, Only, Fields
  <2> HIDE DEF d
  <2>4. Only({"at", "out", "truncated"}, c, d)
    BY <2>2, <2>3 DEF Only
  <2> QED
    BY <1>2, <2>1, <2>2, <2>3, <2>4 DEF Cut
<1>3. CASE c.key \in c.walk /\ ~(c.op = "list" /\ LimitReached(c))
  <2> DEFINE S == c.found \cup {c.key}
             d == [c EXCEPT !.found = S]
             e == [c EXCEPT !.at = "size", !.found = S]
  <2> HIDE DEF S
  <2>1. S \in SUBSET Keys /\ "size" \in Steps
    BY DEF S, CommandState, Steps, BeforeDeletes
  <2>2. d \in CommandState /\ e \in CommandState
    BY <2>1 DEF CommandState
  <2>3. Only({"found"}, c, d) /\ d.found = S
    BY <2>1 DEF CommandState, Only, Fields
  <2>4. Only({"at", "found"}, c, e) /\ e.at = "size" /\ e.found = S
    BY <2>1 DEF CommandState, Only, Fields
  <2>5. Visited(c) = IF c.op = "reindex" /\ ~c.dry THEN e ELSE d
    BY <1>3 DEF Visited, S
  <2> HIDE DEF d, e
  <2> QED
    BY <1>3, <2>2, <2>3, <2>4, <2>5 DEF S, Taken
<1> QED
  BY <1>1, <1>2, <1>3

\* Cache.Get has returned c's entry, and d comes next.
LocatedAs(c, d) ==
    /\ c.op # "invalidate" => Only({"at"}, c, d) /\ d.at = "size"
    /\ c.op = "invalidate" =>
          /\ d.found = {c.key}
          /\ c.dry  => Only({"at", "out", "found"}, c, d) /\ d.at = "close" /\ d.out = {c.key}
          /\ ~c.dry => Only({"at", "left", "found"}, c, d) /\ d.at = "delete" /\ d.left = {c.key}

LEMMA LocatedFacts ==
    ASSUME NEW c \in CommandState
    PROVE  Located(c) \in CommandState /\ LocatedAs(c, Located(c))
<1>1. CASE c.op # "invalidate"
  <2> DEFINE d == [c EXCEPT !.at = "size"]
  <2>1. d \in CommandState /\ Only({"at"}, c, d) /\ d.at = "size"
    BY DEF CommandState, Steps, BeforeDeletes, Only, Fields
  <2>2. Located(c) = d
    BY <1>1 DEF Located
  <2> HIDE DEF d
  <2> QED
    BY <1>1, <2>1, <2>2 DEF LocatedAs
<1>2. CASE c.op = "invalidate"
  <2> DEFINE S == {c.key}
             f == [c EXCEPT !.found = S]
  <2>1. S \in SUBSET Keys
    BY DEF CommandState
  <2>2. Located(c) = Chosen(f)
    BY <1>2 DEF Located
  <2> HIDE DEF S
  <2>3. f \in CommandState /\ Only({"found"}, c, f) /\ f.found = S
    BY <2>1 DEF CommandState, Only, Fields
  <2> HIDE DEF f
  <2>4. f.dry = c.dry
    BY <2>3 DEF Only, Fields
  <2>5. /\ Chosen(f) \in CommandState
        /\ f.dry => /\ Only({"at", "out"}, f, Chosen(f))
                    /\ Chosen(f).at = "close" /\ Chosen(f).out = f.found
        /\ ~f.dry => /\ Only({"at", "left"}, f, Chosen(f))
                     /\ Chosen(f).at = "delete" /\ Chosen(f).left = f.found
    BY <2>3, NextFacts
  <2>6. Chosen(f).found = S
    BY <2>3, <2>5 DEF Only, Fields
  <2>7. /\ c.dry  => Only({"at", "out", "found"}, c, Chosen(f))
        /\ ~c.dry => Only({"at", "left", "found"}, c, Chosen(f))
    BY <2>3, <2>4, <2>5 DEF Only
  <2> QED
    BY <1>2, <2>2, <2>3, <2>4, <2>5, <2>6, <2>7 DEF LocatedAs, S
<1> QED
  BY <1>1, <1>2

\* Tiered.Get has returned v to c, and d comes next.
Advanced(c, v, d) ==
    \/ c.at = "walk" /\ d = c /\ (v # Good \/ c.key \notin c.walk)
    \/ c.at = "walk" /\ v = Good /\ (Cut(c, d) \/ Taken(c, d))
    \/ c.at = "get" /\ c.part = "meta" /\ v = Good /\ Only({"part"}, c, d) /\ d.part = "body"
    \/ c.at = "get" /\ c.part = "meta" /\ v # Good /\ Only({"at", "ok"}, c, d) /\ d.at = "close"
          /\ ~d.ok
    \/ c.at = "get" /\ c.part = "body" /\ c.indexed /\ Only({"at"}, c, d) /\ d.at = "hit"
    \/ c.at = "get" /\ c.part = "body" /\ ~c.indexed /\ LocatedAs(c, d)

LEMMA GotFacts ==
    ASSUME NEW c \in CommandState, c.at \in {"walk", "get"}, NEW v
    PROVE  Got(c, v) \in CommandState /\ Advanced(c, v, Got(c, v))
<1>1. CASE c.at = "walk"
  <2>1. CASE v = Good
    BY <1>1, <2>1, VisitedFacts DEF Got, Advanced
  <2>2. CASE v # Good
    BY <1>1, <2>2 DEF Got, Advanced
  <2> QED
    BY <2>1, <2>2
<1>2. CASE c.at = "get" /\ c.part = "meta"
  <2>1. CASE v = Good
    <3> DEFINE d == [c EXCEPT !.part = "body"]
    <3>1. d \in CommandState /\ Only({"part"}, c, d) /\ d.part = "body"
      BY DEF CommandState, Parts, Only, Fields
    <3>2. Got(c, v) = d
      BY <1>2, <2>1 DEF Got
    <3> HIDE DEF d
    <3> QED
      BY <1>2, <2>1, <3>1, <3>2 DEF Advanced
  <2>2. CASE v # Good
    <3>1. Got(c, v) = Fails(c)
      BY <1>2, <2>2 DEF Got
    <3> QED
      BY <1>2, <2>2, <3>1, NextFacts DEF Advanced
  <2> QED
    BY <2>1, <2>2
<1>3. CASE c.at = "get" /\ c.part = "body"
  <2>1. Got(c, v) = Loaded(c)
    BY <1>3 DEF Got
  <2>2. CASE c.indexed
    <3> DEFINE d == [c EXCEPT !.at = "hit"]
    <3>1. d \in CommandState /\ Only({"at"}, c, d) /\ d.at = "hit"
      BY DEF CommandState, Steps, BeforeDeletes, Only, Fields
    <3>2. Got(c, v) = d
      BY <2>1, <2>2 DEF Loaded
    <3> HIDE DEF d
    <3> QED
      BY <1>3, <2>2, <3>1, <3>2 DEF Advanced
  <2>3. CASE ~c.indexed
    <3>1. Got(c, v) = Located(c)
      BY <2>1, <2>3 DEF Loaded
    <3> QED
      BY <1>3, <2>3, <3>1, LocatedFacts DEF Advanced
  <2> QED
    BY <2>2, <2>3
<1> QED
  BY <1>1, <1>2, <1>3 DEF CommandState, Parts

-----------------------------------------------------------------------------
(* The steps of a command, with what each of them leaves alone.              *)

\* c is the command after a call in which the tiers of F failed, unnoticed.
AfterCall(S, F, c) ==
    /\ c \in CommandState
    /\ Only(S \cup {"faults", "dropped"}, cmd, c)
    /\ c.dropped = IF F = {} THEN cmd.dropped ELSE cmd.dropped \cup {"storage"}

\* The entry or the command is given up.
GivenUp(c, d) ==
    \/ c.at = "walk" /\ d = c
    \/ c.at = "get" /\ Only({"at", "ok"}, c, d) /\ d.at = "close" /\ ~d.ok

LEMMA ReadFacts ==
    ASSUME CommandsType, NEW k \in Keys, Read(k)
    PROVE  /\ cmd \in CommandState /\ cmd' \in CommandState
           /\ cmd.at \in {"walk", "get"} /\ cmd.span = 0
           /\ IF cmd.at = "walk" THEN k \in cmd.listed ELSE k = cmd.key
           /\ UNCHANGED <<tiers, rows, serve, served, buffered, touched>>
           /\ \E F \in FailingTiers, c \in CommandState :
                 /\ AfterCall({"key", "listed", "part"}, F, c)
                 /\ c.key = k /\ c.listed = cmd.listed \ {k}
                 /\ c.part = IF cmd.at = "walk" THEN "meta" ELSE cmd.part
                 /\ LET H == Holding(k, c.part, F) IN
                    \/ H = {} /\ (\/ GivenUp(c, cmd')
                                  \/ /\ c.at = "get" /\ c.indexed
                                     /\ Only({"at"}, c, cmd') /\ cmd'.at = "orphan")
                    \/ /\ H # {} /\ Min(H) = 1
                       /\ Advanced(c, tiers[1][k][c.part], cmd')
                    \/ /\ H # {} /\ Min(H) # 1
                       /\ Only({"span", "data"}, c, cmd')
                       /\ cmd'.span = Min(H) - 1 /\ cmd'.data = tiers[Min(H)][k][c.part]
                    \/ F # {} /\ GivenUp(c, cmd')
<1>1. cmd \in CommandState /\ cmd # Idle
  BY CommandIs DEF Read
<1>2. PICK F \in FailingTiers :
        /\ cmd.at \in {"walk", "get"} /\ cmd.span = 0
        /\ IF cmd.at = "walk" THEN k \in cmd.listed ELSE k = cmd.key
        /\ LET c == [DroppedFault(cmd, F, "storage") EXCEPT
                        !.key = k, !.listed = @ \ {k}, !.part = IF cmd.at = "walk" THEN "meta" ELSE @]
               H == Holding(k, c.part, F)
           IN \/ cmd' = IF H = {} THEN Missed(c)
                        ELSE LET v == tiers[Min(H)][k][c.part]
                             IN IF Min(H) = 1 THEN Got(c, v)
                                ELSE [c EXCEPT !.span = Min(H) - 1, !.data = v]
              \/ F # {} /\ F \subseteq Holding(k, c.part, {}) /\ cmd' = Broken(c)
        /\ UNCHANGED <<tiers, rows, serve, served, buffered, touched>>
  BY DEF Read
<1> DEFINE f == DroppedFault(cmd, F, "storage")
           p == IF cmd.at = "walk" THEN "meta" ELSE cmd.part
           L == cmd.listed \ {k}
           c == [f EXCEPT !.key = k, !.listed = L, !.part = p]
           H == Holding(k, c.part, F)
<1>3. /\ f \in CommandState /\ Only({"faults", "dropped"}, cmd, f)
      /\ f.dropped = IF F = {} THEN cmd.dropped ELSE cmd.dropped \cup {"storage"}
  BY <1>1, TierFaults, FaultFacts
<1>4. f.listed = cmd.listed /\ f.part = cmd.part
  BY <1>3 DEF Only, Fields
<1>5. L \in SUBSET Keys /\ p \in Parts
  BY <1>1 DEF CommandState, Parts
<1>6. c = [f EXCEPT !.key = k, !.listed = @ \ {k}, !.part = IF cmd.at = "walk" THEN "meta" ELSE @]
  BY <1>4
<1>7. \/ cmd' = IF H = {} THEN Missed(c)
               ELSE IF Min(H) = 1 THEN Got(c, tiers[Min(H)][k][c.part])
               ELSE [c EXCEPT !.span = Min(H) - 1, !.data = tiers[Min(H)][k][c.part]]
      \/ F # {} /\ cmd' = Broken(c)
  BY <1>2, <1>6
<1> HIDE DEF L, p, f
<1>8. c \in CommandState
  BY <1>3, <1>5 DEF CommandState
<1>9. /\ Only({"key", "listed", "part"}, f, c) /\ c.key = k /\ c.listed = L /\ c.part = p
      /\ c.dropped = f.dropped
  BY <1>3, <1>5 DEF CommandState, Only, Fields
<1> HIDE DEF c
<1>10. AfterCall({"key", "listed", "part"}, F, c)
  BY <1>3, <1>8, <1>9 DEF AfterCall, Only
<1>11. c.at = cmd.at /\ c.span = 0
  BY <1>2, <1>10 DEF AfterCall, Only, Fields
<1>12. ASSUME H = {} \/ F # {}, cmd' = Broken(c)
       PROVE  cmd' \in CommandState /\ GivenUp(c, cmd')
  BY <1>2, <1>8, <1>11, <1>12, NextFacts DEF Broken, GivenUp
<1>13. ASSUME H = {}, cmd' = Missed(c)
       PROVE  /\ cmd' \in CommandState
              /\ \/ GivenUp(c, cmd')
                 \/ /\ c.at = "get" /\ c.indexed
                    /\ Only({"at"}, c, cmd') /\ cmd'.at = "orphan"
  <2>1. CASE c.at = "walk"
    BY <1>8, <1>13, <2>1 DEF Missed, GivenUp
  <2>2. CASE c.at = "get" /\ ~c.indexed
    BY <1>8, <1>13, <2>2, NextFacts DEF Missed, GivenUp
  <2>3. CASE c.at = "get" /\ c.indexed
    <3> DEFINE d == [c EXCEPT !.at = "orphan"]
    <3>1. d \in CommandState /\ Only({"at"}, c, d) /\ d.at = "orphan"
      BY <1>8 DEF CommandState, Steps, BeforeDeletes, Only, Fields
    <3>2. cmd' = d
      BY <1>13, <2>3 DEF Missed
    <3> HIDE DEF d
    <3> QED
      BY <2>3, <3>1, <3>2
  <2> QED
    BY <1>2, <1>11, <2>1, <2>2, <2>3
<1>14. ASSUME H # {}
       PROVE  /\ Min(H) \in Tiers /\ tiers[Min(H)][k][c.part] \in Values(c.part)
  <2>1. Min(H) \in Tiers
    BY <1>14, HoldingFacts
  <2>2. tiers[Min(H)][k] \in Objects /\ c.part \in Parts
    BY <1>8, <2>1 DEF CommandsType, CommandState
  <2> QED
    BY <2>1, <2>2 DEF Objects, Parts, Values
<1>15. ASSUME H # {}, Min(H) = 1, cmd' = Got(c, tiers[Min(H)][k][c.part])
       PROVE  cmd' \in CommandState /\ Advanced(c, tiers[1][k][c.part], cmd')
  BY <1>2, <1>8, <1>11, <1>15, GotFacts
<1>16. ASSUME H # {}, Min(H) # 1,
              cmd' = [c EXCEPT !.span = Min(H) - 1, !.data = tiers[Min(H)][k][c.part]]
       PROVE  /\ cmd' \in CommandState /\ Only({"span", "data"}, c, cmd')
              /\ cmd'.span = Min(H) - 1 /\ cmd'.data = tiers[Min(H)][k][c.part]
  <2> DEFINE n == Min(H) - 1
             v == tiers[Min(H)][k][c.part]
             d == [c EXCEPT !.span = n, !.data = v]
  <2>1. n \in Tiers /\ v \in Values("meta") \cup Values("body")
    BY <1>14, <1>16, Basics DEF Values
  <2> HIDE DEF n, v
  <2>2. d \in CommandState /\ Only({"span", "data"}, c, d) /\ d.span = n /\ d.data = v
    BY <1>8, <2>1 DEF CommandState, Only, Fields
  <2>3. cmd' = d
    BY <1>16 DEF n, v
  <2> HIDE DEF d
  <2> QED
    BY <2>2, <2>3 DEF n, v
<1>17. /\ cmd' \in CommandState
       /\ \/ H = {} /\ (\/ GivenUp(c, cmd')
                        \/ /\ c.at = "get" /\ c.indexed
                           /\ Only({"at"}, c, cmd') /\ cmd'.at = "orphan")
          \/ /\ H # {} /\ Min(H) = 1
             /\ Advanced(c, tiers[1][k][c.part], cmd')
          \/ /\ H # {} /\ Min(H) # 1
             /\ Only({"span", "data"}, c, cmd')
             /\ cmd'.span = Min(H) - 1 /\ cmd'.data = tiers[Min(H)][k][c.part]
          \/ F # {} /\ GivenUp(c, cmd')
  BY <1>7, <1>12, <1>13, <1>15, <1>16
<1> QED
  BY <1>1, <1>2, <1>8, <1>9, <1>10, <1>17 DEF L, p

LEMMA FillFacts ==
    ASSUME CommandsType, Fill
    PROVE  /\ cmd \in CommandState /\ cmd' \in CommandState
           /\ cmd.at \in {"walk", "get"} /\ cmd.span > 0
           /\ UNCHANGED <<rows, serve, served, buffered, touched>>
           /\ \E F \in FailingTiers, c \in CommandState :
                 /\ AfterCall({"span"}, F, c) /\ c.span = 0
                 /\ Advanced(c, cmd.data, cmd')
                 /\ LET full == Written((1..cmd.span) \ F, cmd.key, cmd.part, cmd.data)
                    IN \/ tiers' = full
                       \/ F # {} /\ F \subseteq 1..cmd.span
                          /\ tiers' = [full EXCEPT ![Min(F)][cmd.key][cmd.part] = Torn(cmd.part)]
<1>1. cmd \in CommandState /\ cmd # Idle
  BY CommandIs DEF Fill
<1>2. PICK F \in FailingTiers :
        /\ cmd.at \in {"walk", "get"} /\ cmd.span > 0
        /\ LET full == Written((1..cmd.span) \ F, cmd.key, cmd.part, cmd.data)
           IN \/ tiers' = full
              \/ F # {} /\ F \subseteq 1..cmd.span
                 /\ tiers' = [full EXCEPT ![Min(F)][cmd.key][cmd.part] = Torn(cmd.part)]
        /\ cmd' = Got([DroppedFault(cmd, F, "storage") EXCEPT !.span = 0], cmd.data)
        /\ UNCHANGED <<rows, serve, served, buffered, touched>>
  BY DEF Fill
<1> DEFINE f == DroppedFault(cmd, F, "storage")
           c == [f EXCEPT !.span = 0]
<1>3. /\ f \in CommandState /\ Only({"faults", "dropped"}, cmd, f)
      /\ f.dropped = IF F = {} THEN cmd.dropped ELSE cmd.dropped \cup {"storage"}
  BY <1>1, TierFaults, FaultFacts
<1> HIDE DEF f
<1>4. c \in CommandState /\ Only({"span"}, f, c) /\ c.span = 0 /\ c.dropped = f.dropped
  BY <1>3 DEF CommandState, Only, Fields
<1>5. cmd' = Got(c, cmd.data)
  BY <1>2 DEF f
<1> HIDE DEF c
<1>6. AfterCall({"span"}, F, c)
  BY <1>3, <1>4 DEF AfterCall, Only
<1>7. c.at \in {"walk", "get"}
  BY <1>2, <1>6 DEF AfterCall, Only, Fields
<1>8. cmd' \in CommandState /\ Advanced(c, cmd.data, cmd')
  BY <1>4, <1>5, <1>7, GotFacts
<1> QED
  BY <1>1, <1>2, <1>4, <1>6, <1>8

\* d is the command i when it begins.
FreshAs(i, d) ==
    /\ d.op = i.op /\ d.dry = i.dry /\ d.byKey = i.byKey /\ d.walk = i.walk /\ d.sql = i.sql
    /\ d.indexed = i.indexed /\ d.limit = i.limit
    /\ d.part = "meta" /\ d.span = 0 /\ d.listed = {} /\ d.found = {} /\ d.left = {}
    /\ d.hit = Absent /\ d.out = {} /\ ~d.truncated /\ d.ok
    /\ d.batch = Absent /\ ~d.overtaken
    /\ d.inserted = {} /\ d.updated = {} /\ d.removed = {} /\ d.faults = 0 /\ d.dropped = {}
    /\ d.start = [readable |-> {k \in Keys : Readable(k)}, rows |-> IndexedKeys]

BegunAs(i, d) ==
    /\ FreshAs(i, d)
    /\ \/ d.at = "query" /\ i.indexed /\ (i.op = "list" \/ (i.op = "show" /\ ~i.byKey))
       \/ d.at = "exists" /\ i.op = "show" /\ i.byKey
       \/ d.at = "get" /\ i.byKey /\ i.op # "show" /\ ~(i.op = "list" /\ i.indexed)
             /\ i.walk = {d.key}
       \/ d.at = "list" /\ ~i.byKey /\ ~(i.op = "list" /\ i.indexed)

LEMMA FreshFacts ==
    ASSUME NEW i, NEW c, FreshAs(i, c), NEW d, Only({"at", "key", "part"}, c, d), d.part = "meta"
    PROVE  FreshAs(i, d)
<1>1. /\ d.op = c.op /\ d.dry = c.dry /\ d.byKey = c.byKey /\ d.walk = c.walk /\ d.sql = c.sql
      /\ d.indexed = c.indexed /\ d.limit = c.limit
      /\ d.span = c.span /\ d.listed = c.listed /\ d.found = c.found /\ d.left = c.left
      /\ d.hit = c.hit /\ d.out = c.out /\ d.truncated = c.truncated /\ d.ok = c.ok
      /\ d.batch = c.batch /\ d.overtaken = c.overtaken
      /\ d.inserted = c.inserted /\ d.updated = c.updated /\ d.removed = c.removed
      /\ d.faults = c.faults /\ d.dropped = c.dropped /\ d.start = c.start
  BY DEF Only, Fields
<1> QED
  BY <1>1 DEF FreshAs

LEMMA BeginFacts ==
    ASSUME NEW i \in Invocations, Begin(i)
    PROVE  /\ cmd = Idle /\ cmd' \in CommandState /\ BegunAs(i, cmd') /\ touched' = {}
           /\ UNCHANGED <<tiers, rows, serve, served, buffered>>
<1>1. /\ i \in Command
      /\ i.byKey => i.walk = i.sql /\ \E k \in Keys : i.walk = {k}
  BY CommandsAssumption
<1> DEFINE K == CHOOSE k \in Keys : TRUE
           S == [readable |-> {k \in Keys : Readable(k)}, rows |-> IndexedKeys]
           c == [op |-> i.op, dry |-> i.dry, byKey |-> i.byKey, walk |-> i.walk, sql |-> i.sql,
                 indexed |-> i.indexed, limit |-> i.limit,
                 at |-> "list", key |-> K, part |-> "meta", data |-> Absent,
                 span |-> 0, listed |-> {}, found |-> {}, left |-> {}, hit |-> Absent,
                 size |-> 0, out |-> {}, truncated |-> FALSE, ok |-> TRUE,
                 batch |-> Absent, overtaken |-> FALSE,
                 inserted |-> {}, updated |-> {}, removed |-> {},
                 faults |-> 0, dropped |-> {}, start |-> S]
           q == i.indexed /\ (i.op = "list" \/ (i.op = "show" /\ ~i.byKey))
           e == i.op = "show" /\ i.byKey
           g == i.byKey /\ ~(i.op = "list" /\ i.indexed) /\ i.op # "show"
<1>2. /\ cmd = Idle /\ touched' = {}
      /\ UNCHANGED <<tiers, rows, serve, served, buffered>>
      /\ cmd' = CASE q -> [c EXCEPT !.at = "query"]
                  [] e -> [c EXCEPT !.at = "exists"]
                  [] g -> Gets(c, CHOOSE k \in i.walk : TRUE)
                  [] OTHER -> c
  BY DEF Begin
<1>3. K \in Keys /\ S \in [readable : SUBSET Keys, rows : SUBSET Keys]
  BY Basics DEF IndexedKeys
<1> HIDE DEF K
<1>4. c \in CommandState
  <2>1. /\ 0 \in 0..MaxFaults /\ "list" \in Steps /\ "meta" \in Parts
        /\ Absent \in Values("meta") \cup Values("body") /\ Absent \in Values("body")
    BY Basics DEF Steps, BeforeDeletes, Parts, Values
  <2> HIDE DEF S
  <2> QED
    BY <1>1, <1>3, <2>1 DEF Command, CommandState
<1>5. FreshAs(i, c) /\ c.at = "list" /\ c.part = "meta"
  BY DEF FreshAs
<1> HIDE DEF c, S
<1>6. CASE q
  <2> DEFINE d == [c EXCEPT !.at = "query"]
  <2>1. d \in CommandState /\ Only({"at"}, c, d) /\ d.at = "query"
    BY <1>4 DEF CommandState, Steps, BeforeDeletes, Only, Fields
  <2>2. cmd' = d
    BY <1>2, <1>6
  <2> HIDE DEF d
  <2>3. Only({"at", "key", "part"}, c, d) /\ d.part = "meta"
    BY <1>5, <2>1 DEF Only, Fields
  <2>4. BegunAs(i, d)
    BY <1>5, <1>6, <2>1, <2>3, FreshFacts DEF BegunAs
  <2> QED
    BY <1>2, <2>1, <2>2, <2>4
<1>7. CASE ~q /\ e
  <2> DEFINE d == [c EXCEPT !.at = "exists"]
  <2>1. d \in CommandState /\ Only({"at"}, c, d) /\ d.at = "exists"
    BY <1>4 DEF CommandState, Steps, BeforeDeletes, Only, Fields
  <2>2. cmd' = d
    BY <1>2, <1>7
  <2> HIDE DEF d
  <2>3. Only({"at", "key", "part"}, c, d) /\ d.part = "meta"
    BY <1>5, <2>1 DEF Only, Fields
  <2>4. BegunAs(i, d)
    BY <1>5, <1>7, <2>1, <2>3, FreshFacts DEF BegunAs
  <2> QED
    BY <1>2, <2>1, <2>2, <2>4
<1>8. CASE ~q /\ ~e /\ g
  <2>1. PICK k \in Keys : i.walk = {k}
    BY <1>1, <1>8
  <2>2. (CHOOSE j \in i.walk : TRUE) = k
    BY <2>1
  <2>3. cmd' = Gets(c, k)
    BY <1>2, <1>8, <2>2
  <2>4. /\ cmd' \in CommandState /\ Only({"at", "key", "part"}, c, cmd')
        /\ cmd'.at = "get" /\ cmd'.key = k /\ cmd'.part = "meta"
    BY <1>4, <2>3, NextFacts
  <2>5. BegunAs(i, cmd')
    BY <1>5, <1>8, <2>1, <2>4, FreshFacts DEF BegunAs
  <2> QED
    BY <1>2, <2>4, <2>5
<1>9. CASE ~q /\ ~e /\ ~g
  <2>1. cmd' = c
    BY <1>2, <1>9
  <2>2. ~i.byKey /\ ~(i.op = "list" /\ i.indexed)
    BY <1>1, <1>9 DEF Command
  <2>3. BegunAs(i, cmd')
    BY <1>5, <2>1, <2>2 DEF BegunAs
  <2> QED
    BY <1>2, <1>4, <2>1, <2>3
<1> QED
  BY <1>6, <1>7, <1>8, <1>9

LEMMA ListFacts ==
    ASSUME CommandsType, List
    PROVE  /\ cmd \in CommandState /\ cmd' \in CommandState /\ cmd.at = "list"
           /\ UNCHANGED <<tiers, rows, serve, served, buffered, touched>>
           /\ \E F \in FailingTiers, seen \in [Tiers -> SUBSET Keys] :
                 /\ AfterCall({"at", "listed"}, F, cmd')
                 /\ \A t \in Tiers : seen[t] \in IF t \in F THEN {{}} ELSE Listings(t)
                 /\ cmd'.at = "walk" /\ cmd'.listed = UNION {seen[t] : t \in Tiers}
<1>1. cmd \in CommandState /\ cmd # Idle
  BY CommandIs DEF List
<1>2. PICK F \in FailingTiers, seen \in [Tiers -> SUBSET Keys] :
        /\ cmd.at = "list"
        /\ \A t \in Tiers : seen[t] \in IF t \in F THEN {{}} ELSE Listings(t)
        /\ cmd' = [DroppedFault(cmd, F, "storage") EXCEPT
                      !.at = "walk", !.listed = UNION {seen[t] : t \in Tiers}]
        /\ UNCHANGED <<tiers, rows, serve, served, buffered, touched>>
  BY DEF List
<1> DEFINE f == DroppedFault(cmd, F, "storage")
           L == UNION {seen[t] : t \in Tiers}
           d == [f EXCEPT !.at = "walk", !.listed = L]
<1>3. /\ f \in CommandState /\ Only({"faults", "dropped"}, cmd, f)
      /\ f.dropped = IF F = {} THEN cmd.dropped ELSE cmd.dropped \cup {"storage"}
  BY <1>1, TierFaults, FaultFacts
<1>4. L \in SUBSET Keys
  OBVIOUS
<1>5. cmd' = d
  BY <1>2
<1> HIDE DEF f, L
<1>6. d \in CommandState
  BY <1>3, <1>4 DEF CommandState, Steps, BeforeDeletes
<1>7. Only({"at", "listed"}, f, d) /\ d.at = "walk" /\ d.listed = L /\ d.dropped = f.dropped
  BY <1>3, <1>4 DEF CommandState, Only, Fields
<1> HIDE DEF d
<1>8. AfterCall({"at", "listed"}, F, cmd')
  BY <1>3, <1>5, <1>6, <1>7 DEF AfterCall, Only
<1> QED
  BY <1>1, <1>2, <1>5, <1>6, <1>7, <1>8 DEF L

LEMMA SizeFacts ==
    ASSUME CommandsType, NEW k \in Keys, NEW F
    PROVE  BodySize(k, F) \in Sizes \cup {0, Absent}
<1> DEFINE H == Holding(k, "body", {})
<1>1. CASE H = {} \/ \E t \in F : t <= Min(H)
  BY <1>1 DEF BodySize
<1>2. CASE ~(H = {} \/ \E t \in F : t <= Min(H))
  <2>1. Min(H) \in Tiers
    BY <1>2, HoldingFacts
  <2>2. tiers[Min(H)][k] \in Objects
    BY <2>1 DEF CommandsType
  <2>3. BodySize(k, F) = tiers[Min(H)][k]["body"]
    BY <1>2 DEF BodySize
  <2> QED
    BY <2>2, <2>3 DEF Objects
<1> QED
  BY <1>1, <1>2

ResolvedAs(c, d) ==
    /\ Only({"at", "key", "part", "ok"}, c, d) /\ d.at \in {"get", "close"}
    /\ d.at = "get" => d.part = "meta" /\ d.ok = c.ok

LEMMA ResolvedFacts ==
    ASSUME NEW c \in CommandState
    PROVE  Resolved(c) \in CommandState /\ ResolvedAs(c, Resolved(c))
<1>1. CASE Cardinality(c.found) = 1
  <2>1. c.found # {} /\ c.found \subseteq Keys
    BY <1>1, FS_EmptySet, SMTT(30) DEF CommandState
  <2> DEFINE k == CHOOSE k \in c.found : TRUE
  <2>2. k \in Keys
    BY <2>1
  <2>3. Resolved(c) = Gets(c, k)
    BY <1>1 DEF Resolved
  <2> HIDE DEF k
  <2>4. /\ Gets(c, k) \in CommandState /\ Only({"at", "key", "part"}, c, Gets(c, k))
        /\ Gets(c, k).at = "get" /\ Gets(c, k).part = "meta"
    BY <2>2, NextFacts
  <2> HIDE DEF k
  <2>5. Gets(c, k).ok = c.ok
    BY <2>4 DEF Only, Fields
  <2> QED
    BY <2>3, <2>4, <2>5 DEF ResolvedAs, Only
<1>2. CASE Cardinality(c.found) # 1
  <2>1. Resolved(c) = Fails(c)
    BY <1>2 DEF Resolved
  <2>2. Fails(c) \in CommandState /\ Only({"at", "ok"}, c, Fails(c)) /\ Fails(c).at = "close"
    BY NextFacts
  <2> QED
    BY <2>1, <2>2 DEF ResolvedAs, Only
<1> QED
  BY <1>1, <1>2

\* The walk of c has come to its end, and d comes next.
ScannedAs(c, d) ==
    \/ (c.op = "list" \/ (c.op = "invalidate" /\ c.dry))
          /\ Only({"at", "out"}, c, d) /\ d.at = "close" /\ d.out = c.found
    \/ c.op = "invalidate" /\ ~c.dry /\ Only({"at", "left"}, c, d) /\ d.at = "delete"
          /\ d.left = c.found
    \/ c.op = "show" /\ ResolvedAs(c, d)
    \/ c.op = "reindex" /\ Only({"at"}, c, d) /\ d.at = "keys"

LEMMA WalkEndsFacts ==
    ASSUME CommandsType, WalkEnds
    PROVE  /\ cmd \in CommandState /\ cmd' \in CommandState
           /\ cmd.at = "walk" /\ cmd.span = 0 /\ cmd.listed = {}
           /\ ScannedAs(cmd, cmd')
           /\ UNCHANGED <<tiers, rows, serve, served, buffered, touched>>
<1>1. cmd \in CommandState /\ cmd # Idle
  BY CommandIs DEF WalkEnds
<1>2. /\ cmd.at = "walk" /\ cmd.span = 0 /\ cmd.listed = {} /\ cmd' = Scanned(cmd)
      /\ UNCHANGED <<tiers, rows, serve, served, buffered, touched>>
  BY DEF WalkEnds
<1>3. cmd' \in CommandState /\ ScannedAs(cmd, cmd')
  <2>1. CASE cmd.op = "invalidate"
    <3>1. cmd' = Chosen(cmd)
      BY <1>2, <2>1 DEF Scanned
    <3> QED
      BY <1>1, <2>1, <3>1, NextFacts DEF ScannedAs
  <2>2. CASE cmd.op = "list"
    <3>1. cmd' = Ends(cmd, cmd.found) /\ cmd.found \in SUBSET Keys
      BY <1>1, <1>2, <2>2 DEF Scanned, CommandState
    <3> QED
      BY <1>1, <2>2, <3>1, NextFacts DEF ScannedAs
  <2>3. CASE cmd.op = "show"
    <3>1. cmd' = Resolved(cmd)
      BY <1>2, <2>3 DEF Scanned
    <3> QED
      BY <1>1, <2>3, <3>1, ResolvedFacts DEF ScannedAs
  <2>4. CASE cmd.op = "reindex"
    <3> DEFINE d == [cmd EXCEPT !.at = "keys"]
    <3>1. d \in CommandState /\ Only({"at"}, cmd, d) /\ d.at = "keys"
      BY <1>1 DEF CommandState, Steps, BeforeDeletes, Only, Fields
    <3>2. cmd' = d
      BY <1>2, <2>4 DEF Scanned
    <3> HIDE DEF d
    <3> QED
      BY <2>4, <3>1, <3>2 DEF ScannedAs
  <2> QED
    BY <1>1, <2>1, <2>2, <2>3, <2>4 DEF CommandState
<1> QED
  BY <1>1, <1>2, <1>3

LEMMA RecordHitFacts ==
    ASSUME CommandsType, RecordHit
    PROVE  /\ cmd \in CommandState /\ cmd' \in CommandState /\ cmd.at = "hit"
           /\ UNCHANGED <<tiers, rows, serve, served, buffered, touched>>
           /\ \E F \in FailingTiers, c \in CommandState :
                 /\ Only({"faults", "dropped", "hit"}, cmd, c)
                 /\ c.dropped = IF F = {} THEN cmd.dropped ELSE cmd.dropped \cup {"size"}
                 /\ c.hit = IF BodySize(cmd.key, F) = Absent THEN 0 ELSE BodySize(cmd.key, F)
                 /\ LocatedAs(c, cmd')
<1>1. cmd \in CommandState /\ cmd # Idle
  BY CommandIs DEF RecordHit
<1>2. PICK F \in FailingTiers :
        LET n == BodySize(cmd.key, F)
        IN cmd' = Located([DroppedFault(cmd, F, "size") EXCEPT !.hit = IF n = Absent THEN 0 ELSE n])
  BY DEF RecordHit
<1>3. cmd.at = "hit" /\ UNCHANGED <<tiers, rows, serve, served, buffered, touched>>
  BY DEF RecordHit
<1> DEFINE f == DroppedFault(cmd, F, "size")
           n == BodySize(cmd.key, F)
           h == IF n = Absent THEN 0 ELSE n
           c == [f EXCEPT !.hit = h]
<1>4. /\ f \in CommandState /\ Only({"faults", "dropped"}, cmd, f)
      /\ f.dropped = IF F = {} THEN cmd.dropped ELSE cmd.dropped \cup {"size"}
  BY <1>1, TierFaults, FaultFacts
<1>5. h \in Values("body")
  BY <1>1, SizeFacts DEF CommandState, Values
<1>6. cmd' = Located(c)
  BY <1>2
<1> HIDE DEF f, h
<1>7. c \in CommandState /\ Only({"hit"}, f, c) /\ c.hit = h /\ c.dropped = f.dropped
  BY <1>4, <1>5 DEF CommandState, Only, Fields
<1> HIDE DEF c
<1>8. Only({"faults", "dropped", "hit"}, cmd, c)
  BY <1>4, <1>7 DEF Only
<1>9. cmd' \in CommandState /\ LocatedAs(c, cmd')
  BY <1>6, <1>7, LocatedFacts
<1> QED
  BY <1>1, <1>3, <1>4, <1>7, <1>8, <1>9 DEF h

\* A statement of SQLite has failed, unnoticed.
LEMMA LostRow ==
    ASSUME NEW c \in CommandState, c.faults = cmd.faults, cmd \in CommandState, SqlMayFail
    PROVE  LET d == DroppedFault(c, {1}, "index")
           IN  d \in CommandState /\ Only({"faults", "dropped"}, c, d) /\ d.dropped = c.dropped \cup {"index"}
<1>1. c.faults + Cardinality({1}) \in 0..MaxFaults
  BY SqlFaults
<1>2. /\ DroppedFault(c, {1}, "index") \in CommandState
      /\ Only({"faults", "dropped"}, c, DroppedFault(c, {1}, "index"))
      /\ DroppedFault(c, {1}, "index").dropped
           = IF {1} = {} THEN c.dropped ELSE c.dropped \cup {"index"}
  BY <1>1, FaultFacts
<1> QED
  BY <1>2

LEMMA DropOrphanFacts ==
    ASSUME CommandsType, DropOrphan
    PROVE  /\ cmd \in CommandState /\ cmd' \in CommandState /\ cmd.at = "orphan"
           /\ UNCHANGED <<tiers, serve, served, buffered, touched>>
           /\ Only({"at", "ok", "faults", "dropped"}, cmd, cmd') /\ cmd'.at = "close" /\ ~cmd'.ok
           /\ \/ rows' = [rows EXCEPT ![cmd.key] = Absent] /\ cmd'.dropped = cmd.dropped
              \/ rows' = rows /\ cmd'.dropped = cmd.dropped \cup {"index"}
<1>1. cmd \in CommandState /\ cmd # Idle
  BY CommandIs DEF DropOrphan
<1>2. /\ cmd.at = "orphan" /\ UNCHANGED <<tiers, serve, served, buffered, touched>>
      /\ \/ rows' = [rows EXCEPT ![cmd.key] = Absent] /\ cmd' = Fails(cmd)
         \/ SqlMayFail /\ cmd' = Fails(DroppedFault(cmd, {1}, "index")) /\ rows' = rows
  BY DEF DropOrphan
<1>3. CASE rows' = [rows EXCEPT ![cmd.key] = Absent] /\ cmd' = Fails(cmd)
  <2>1. /\ cmd' \in CommandState /\ Only({"at", "ok"}, cmd, cmd') /\ cmd'.at = "close" /\ ~cmd'.ok
    BY <1>1, <1>3, NextFacts
  <2> QED
    BY <1>1, <1>2, <1>3, <2>1 DEF Only, Fields
<1>4. CASE SqlMayFail /\ cmd' = Fails(DroppedFault(cmd, {1}, "index")) /\ rows' = rows
  <2> DEFINE f == DroppedFault(cmd, {1}, "index")
  <2>1. f \in CommandState /\ Only({"faults", "dropped"}, cmd, f) /\ f.dropped = cmd.dropped \cup {"index"}
    BY <1>1, <1>4, LostRow
  <2>2. cmd' = Fails(f)
    BY <1>4
  <2> HIDE DEF f
  <2>3. /\ cmd' \in CommandState /\ Only({"at", "ok"}, f, cmd') /\ cmd'.at = "close" /\ ~cmd'.ok
    BY <2>1, <2>2, NextFacts
  <2>4. cmd'.dropped = f.dropped
    BY <2>3 DEF Only, Fields
  <2>5. Only({"at", "ok", "faults", "dropped"}, cmd, cmd')
    BY <2>1, <2>3 DEF Only
  <2> QED
    BY <1>1, <1>2, <1>4, <2>1, <2>3, <2>4, <2>5
<1> QED
  BY <1>2, <1>3, <1>4

\* The command's own flush.
Flushing == SwapHit \/ CommitHit \/ RequeueHit

LEMMA FlushingFacts ==
    ASSUME CommandsType, Flushing
    PROVE  /\ cmd \in CommandState /\ cmd' \in CommandState
           /\ UNCHANGED <<tiers, serve, served, buffered, touched>>
           /\ Only({"hit", "batch", "overtaken", "faults"}, cmd, cmd')
           /\ \/ /\ cmd.at \in {"size"} \cup Deleting /\ cmd.hit # Absent
                 /\ cmd'.hit = Absent /\ cmd'.batch = cmd.hit
                 /\ cmd'.overtaken = cmd.overtaken /\ rows' = rows
              \/ /\ cmd.batch # Absent /\ UpsertRow(cmd.batch)
                 /\ cmd'.hit = cmd.hit /\ cmd'.batch = Absent
                 /\ cmd'.overtaken = (cmd.overtaken \/ cmd.at = "dropHit")
              \/ /\ cmd.batch # Absent /\ rows' = rows
                 /\ cmd'.hit = cmd.batch /\ cmd'.batch = Absent
                 /\ cmd'.overtaken = cmd.overtaken
<1>1. cmd # Idle
  BY DEF Flushing, SwapHit, CommitHit, RequeueHit, Idle
<1>2. cmd \in CommandState
  BY <1>1 DEF CommandsType
<1>3. cmd.hit \in Values("body") /\ cmd.batch \in Values("body") /\ Absent \in Values("body")
      /\ cmd.overtaken \in BOOLEAN
  BY <1>2 DEF CommandState, Values
<1>4. CASE SwapHit
  <2> DEFINE h == cmd.hit
             d == [cmd EXCEPT !.batch = h, !.hit = Absent]
  <2>1. h \in Values("body") /\ cmd' = d
    BY <1>3, <1>4 DEF SwapHit
  <2> HIDE DEF h
  <2>2. /\ d \in CommandState /\ Only({"hit", "batch"}, cmd, d)
        /\ d.hit = Absent /\ d.batch = h
    BY <1>2, <1>3, <2>1 DEF CommandState, Only, Fields
  <2> HIDE DEF d
  <2>3. /\ cmd'.overtaken = cmd.overtaken
        /\ Only({"hit", "batch", "overtaken", "faults"}, cmd, cmd')
    BY <2>1, <2>2 DEF Only, Fields
  <2> QED
    BY <1>2, <1>4, <2>1, <2>2, <2>3 DEF h, SwapHit, Deleting
<1>5. CASE CommitHit
  <2> DEFINE o == cmd.overtaken \/ cmd.at = "dropHit"
             d == [cmd EXCEPT !.batch = Absent, !.overtaken = o]
  <2>1. o \in BOOLEAN /\ cmd' = d
    BY <1>5 DEF CommitHit
  <2> HIDE DEF o
  <2>2. /\ d \in CommandState /\ Only({"batch", "overtaken"}, cmd, d)
        /\ d.batch = Absent /\ d.overtaken = o
    BY <1>2, <1>3, <2>1 DEF CommandState, Only, Fields
  <2> HIDE DEF d
  <2>3. /\ cmd'.hit = cmd.hit
        /\ Only({"hit", "batch", "overtaken", "faults"}, cmd, cmd')
    BY <2>1, <2>2 DEF Only, Fields
  <2> QED
    BY <1>2, <1>5, <2>1, <2>2, <2>3 DEF o, CommitHit
<1>6. CASE RequeueHit
  <2> DEFINE f == Fault(cmd, {1})
             b == cmd.batch
             d == [f EXCEPT !.hit = b, !.batch = Absent]
  <2>1. f \in CommandState /\ Only({"faults"}, cmd, f)
    BY <1>2, <1>6, SqlFaults, FaultFacts DEF RequeueHit
  <2>2. b \in Values("body") /\ cmd' = d
    BY <1>3, <1>6 DEF RequeueHit
  <2> HIDE DEF f, b
  <2>3. /\ d \in CommandState /\ Only({"hit", "batch"}, f, d)
        /\ d.hit = b /\ d.batch = Absent
    BY <1>3, <2>1, <2>2 DEF CommandState, Only, Fields
  <2> HIDE DEF d
  <2>4. Only({"hit", "batch", "overtaken", "faults"}, cmd, cmd')
    BY <2>1, <2>2, <2>3 DEF Only
  <2>5. cmd'.overtaken = cmd.overtaken
    BY <2>1, <2>2, <2>3 DEF Only, Fields
  <2> QED
    BY <1>2, <1>6, <2>2, <2>3, <2>4, <2>5 DEF b, RequeueHit
<1> QED
  BY <1>4, <1>5, <1>6 DEF Flushing

LEMMA CloseFacts ==
    ASSUME CommandsType, Close
    PROVE  /\ cmd \in CommandState /\ cmd' \in CommandState /\ cmd.at = "close" /\ cmd'.at = "done"
           /\ UNCHANGED <<tiers, serve, served, buffered, touched>>
           /\ Only({"at", "faults", "dropped"}, cmd, cmd') /\ cmd.batch = Absent
           /\ \/ cmd.hit = Absent /\ rows' = rows /\ cmd'.dropped = cmd.dropped
              \/ cmd.hit # Absent /\ UpsertRow(cmd.hit) /\ cmd'.dropped = cmd.dropped
              \/ cmd.hit # Absent /\ rows' = rows /\ cmd'.dropped = cmd.dropped \cup {"index"}
<1>1. cmd \in CommandState /\ cmd # Idle
  BY CommandIs DEF Close
<1>2. /\ cmd.at = "close" /\ cmd.batch = Absent /\ UNCHANGED <<tiers, serve, served, buffered, touched>>
      /\ \/ cmd.hit = Absent /\ rows' = rows /\ cmd' = [cmd EXCEPT !.at = "done"]
         \/ cmd.hit # Absent /\ UpsertRow(cmd.hit) /\ cmd' = [cmd EXCEPT !.at = "done"]
         \/ /\ cmd.hit # Absent /\ SqlMayFail /\ rows' = rows
            /\ cmd' = [DroppedFault(cmd, {1}, "index") EXCEPT !.at = "done"]
  BY DEF Close
<1>3. ASSUME NEW c \in CommandState, cmd' = [c EXCEPT !.at = "done"]
      PROVE  cmd' \in CommandState /\ Only({"at"}, c, cmd') /\ cmd'.at = "done"
             /\ cmd'.dropped = c.dropped
  <2> DEFINE d == [c EXCEPT !.at = "done"]
  <2>1. /\ d \in CommandState /\ Only({"at"}, c, d) /\ d.at = "done"
        /\ d.dropped = c.dropped
    BY <1>3 DEF CommandState, Steps, Only, Fields
  <2> QED
    BY <1>3, <2>1
<1>4. CASE cmd' = [cmd EXCEPT !.at = "done"]
  <2>1. cmd' \in CommandState /\ Only({"at"}, cmd, cmd') /\ cmd'.at = "done"
        /\ cmd'.dropped = cmd.dropped
    BY <1>1, <1>3, <1>4
  <2>2. Only({"at", "faults", "dropped"}, cmd, cmd')
    BY <2>1 DEF Only
  <2>3. \/ cmd.hit = Absent /\ rows' = rows
        \/ cmd.hit # Absent /\ UpsertRow(cmd.hit)
        \/ cmd.hit # Absent /\ rows' = rows /\ cmd'.dropped = cmd.dropped \cup {"index"}
    <3>1. CASE /\ cmd.hit # Absent /\ SqlMayFail /\ rows' = rows
               /\ cmd' = [DroppedFault(cmd, {1}, "index") EXCEPT !.at = "done"]
      <4> DEFINE f == DroppedFault(cmd, {1}, "index")
      <4>1. f \in CommandState /\ f.dropped = cmd.dropped \cup {"index"}
        BY <1>1, <3>1, LostRow
      <4>2. cmd' = [f EXCEPT !.at = "done"]
        BY <3>1
      <4> HIDE DEF f
      <4> QED
        BY <1>3, <3>1, <4>1, <4>2
    <3> QED
      BY <1>2, <3>1
  <2> QED
    BY <1>1, <1>2, <2>1, <2>2, <2>3
<1>5. CASE /\ cmd.hit # Absent /\ SqlMayFail /\ rows' = rows
           /\ cmd' = [DroppedFault(cmd, {1}, "index") EXCEPT !.at = "done"]
  <2> DEFINE f == DroppedFault(cmd, {1}, "index")
  <2>1. f \in CommandState /\ Only({"faults", "dropped"}, cmd, f) /\ f.dropped = cmd.dropped \cup {"index"}
    BY <1>1, <1>5, LostRow
  <2>2. cmd' = [f EXCEPT !.at = "done"]
    BY <1>5
  <2> HIDE DEF f
  <2>3. cmd' \in CommandState /\ Only({"at"}, f, cmd') /\ cmd'.at = "done"
        /\ cmd'.dropped = f.dropped
    BY <1>3, <2>1, <2>2
  <2>4. Only({"at", "faults", "dropped"}, cmd, cmd')
    BY <2>1, <2>3 DEF Only
  <2> QED
    BY <1>1, <1>2, <1>5, <2>1, <2>3, <2>4
<1> QED
  BY <1>2, <1>4, <1>5

LEMMA DeleteNextFacts ==
    ASSUME CommandsType, NEW k \in Keys, DeleteNext(k)
    PROVE  /\ cmd \in CommandState /\ cmd' \in CommandState
           /\ cmd.at = "delete" /\ k \in cmd.left
           /\ UNCHANGED <<tiers, rows, serve, served, buffered, touched>>
           /\ cmd'.key = k /\ cmd'.left = cmd.left \ {k}
           /\ \E F \in FailingTiers :
                 /\ AfterCall({"at", "key", "left", "part"}, F, cmd')
                 /\ \/ Holding(k, "meta", F) = {} /\ cmd'.at = "raced"
                    \/ Holding(k, "meta", F) # {} /\ cmd'.at = "deleteFile" /\ cmd'.part = "meta"
<1>1. cmd \in CommandState /\ cmd # Idle
  BY CommandIs DEF DeleteNext
<1>2. PICK F \in FailingTiers :
        /\ cmd.at = "delete" /\ k \in cmd.left
        /\ LET c == [DroppedFault(cmd, F, "storage") EXCEPT !.key = k, !.left = @ \ {k}]
           IN cmd' = IF Holding(k, "meta", F) = {} THEN [c EXCEPT !.at = "raced"]
                     ELSE [c EXCEPT !.at = "deleteFile", !.part = "meta"]
        /\ UNCHANGED <<tiers, rows, serve, served, buffered, touched>>
  BY DEF DeleteNext
<1> DEFINE f == DroppedFault(cmd, F, "storage")
           L == cmd.left \ {k}
           c == [f EXCEPT !.key = k, !.left = L]
           d == [c EXCEPT !.at = "raced"]
           e == [c EXCEPT !.at = "deleteFile", !.part = "meta"]
<1>3. /\ f \in CommandState /\ Only({"faults", "dropped"}, cmd, f)
      /\ f.dropped = IF F = {} THEN cmd.dropped ELSE cmd.dropped \cup {"storage"}
  BY <1>1, TierFaults, FaultFacts
<1>4. f.left = cmd.left
  BY <1>3 DEF Only, Fields
<1>5. L \in SUBSET Keys
  BY <1>1 DEF CommandState
<1>6. cmd' = IF Holding(k, "meta", F) = {} THEN d ELSE e
  BY <1>2, <1>4
<1> HIDE DEF f, L
<1>7. c \in CommandState /\ Only({"key", "left"}, f, c) /\ c.key = k /\ c.left = L
      /\ c.dropped = f.dropped
  BY <1>3, <1>5 DEF CommandState, Only, Fields
<1> HIDE DEF c
<1>8. d \in CommandState /\ Only({"at"}, c, d) /\ d.at = "raced" /\ d.key = k /\ d.left = L
      /\ d.dropped = c.dropped
  BY <1>7 DEF CommandState, Steps, Deleting, Only, Fields
<1>9. e \in CommandState /\ Only({"at", "part"}, c, e) /\ e.at = "deleteFile" /\ e.part = "meta"
      /\ e.key = k /\ e.left = L /\ e.dropped = c.dropped
  BY <1>7 DEF CommandState, Steps, Deleting, Parts, Only, Fields
<1> HIDE DEF d, e
<1>10. AfterCall({"at", "key", "left", "part"}, F, d)
  BY <1>3, <1>7, <1>8 DEF AfterCall, Only
<1>11. AfterCall({"at", "key", "left", "part"}, F, e)
  BY <1>3, <1>7, <1>9 DEF AfterCall, Only
<1>12. CASE Holding(k, "meta", F) = {}
  BY <1>1, <1>2, <1>6, <1>8, <1>10, <1>12 DEF L
<1>13. CASE Holding(k, "meta", F) # {}
  BY <1>1, <1>2, <1>6, <1>9, <1>11, <1>13 DEF L
<1> QED
  BY <1>12, <1>13

LEMMA DeleteFileFacts ==
    ASSUME CommandsType, DeleteFile
    PROVE  /\ cmd \in CommandState /\ cmd' \in CommandState /\ cmd.at = "deleteFile"
           /\ UNCHANGED <<rows, serve, served, buffered, touched>>
           /\ cmd'.dropped = cmd.dropped
           /\ \E F \in FailingTiers :
                 /\ tiers' = Written(Tiers \ F, cmd.key, cmd.part, Absent)
                 /\ \/ /\ F # {} /\ Only({"at", "ok", "faults"}, cmd, cmd')
                       /\ cmd'.at = "delete" /\ ~cmd'.ok
                    \/ /\ F = {} /\ cmd.part = "meta" /\ Only({"part", "faults"}, cmd, cmd')
                       /\ cmd'.part = "body"
                    \/ /\ F = {} /\ cmd.part = "body" /\ Only({"at", "faults"}, cmd, cmd')
                       /\ cmd'.at = "deleteRow"
<1>1. cmd \in CommandState /\ cmd # Idle
  BY CommandIs DEF DeleteFile
<1>2. PICK F \in FailingTiers :
        /\ cmd.at = "deleteFile"
        /\ tiers' = Written(Tiers \ F, cmd.key, cmd.part, Absent)
        /\ LET c == Fault(cmd, F)
           IN cmd' = CASE AnyFailed(F) -> [c EXCEPT !.at = "delete", !.ok = FALSE]
                       [] ~AnyFailed(F) /\ cmd.part = "meta" -> [c EXCEPT !.part = "body"]
                       [] ~AnyFailed(F) /\ cmd.part = "body" -> [c EXCEPT !.at = "deleteRow"]
        /\ UNCHANGED <<rows, serve, served, buffered, touched>>
  BY DEF DeleteFile
<1> DEFINE c == Fault(cmd, F)
           p == [c EXCEPT !.at = "delete", !.ok = FALSE]
           q == [c EXCEPT !.part = "body"]
           r == [c EXCEPT !.at = "deleteRow"]
<1>3. c \in CommandState /\ Only({"faults"}, cmd, c)
  BY <1>1, TierFaults, FaultFacts
<1>4. cmd' = CASE AnyFailed(F) -> p
               [] ~AnyFailed(F) /\ cmd.part = "meta" -> q
               [] ~AnyFailed(F) /\ cmd.part = "body" -> r
  BY <1>2
<1> HIDE DEF c
<1>5. p \in CommandState /\ Only({"at", "ok"}, c, p) /\ p.at = "delete" /\ ~p.ok
  BY <1>3, ZenonT(30) DEF CommandState, Steps, Deleting, Only, Fields
<1>6. q \in CommandState /\ Only({"part"}, c, q) /\ q.part = "body"
  BY <1>3 DEF CommandState, Parts, Only, Fields
<1>7. r \in CommandState /\ Only({"at"}, c, r) /\ r.at = "deleteRow"
  BY <1>3 DEF CommandState, Steps, Deleting, Only, Fields
<1> HIDE DEF p, q, r
<1>8. cmd.part \in Parts
  BY <1>1 DEF CommandState
<1>9. CASE F # {}
  <2>1. cmd' = p
    BY <1>4, <1>9 DEF AnyFailed
  <2>2. Only({"at", "ok", "faults"}, cmd, p)
    BY <1>3, <1>5 DEF Only
  <2>3. p.dropped = cmd.dropped
    BY <2>2 DEF Only, Fields
  <2> QED
    BY <1>1, <1>2, <1>5, <1>9, <2>1, <2>2, <2>3
<1>10. CASE F = {} /\ cmd.part = "meta"
  <2>1. cmd' = q
    BY <1>4, <1>10 DEF AnyFailed
  <2>2. Only({"part", "faults"}, cmd, q)
    BY <1>3, <1>6 DEF Only
  <2>3. q.dropped = cmd.dropped
    BY <2>2 DEF Only, Fields
  <2> QED
    BY <1>1, <1>2, <1>6, <1>10, <2>1, <2>2, <2>3
<1>11. CASE F = {} /\ cmd.part = "body"
  <2>1. cmd' = r
    BY <1>4, <1>11 DEF AnyFailed
  <2>2. Only({"at", "faults"}, cmd, r)
    BY <1>3, <1>7 DEF Only
  <2>3. r.dropped = cmd.dropped
    BY <2>2 DEF Only, Fields
  <2> QED
    BY <1>1, <1>2, <1>7, <1>11, <2>1, <2>2, <2>3
<1> QED
  BY <1>8, <1>9, <1>10, <1>11 DEF Parts

LEMMA DeleteRowFacts ==
    ASSUME CommandsType, DeleteRow
    PROVE  /\ cmd \in CommandState /\ cmd' \in CommandState
           /\ cmd.at \in {"deleteRow", "raced"} /\ cmd'.at \in {"delete", "dropHit"}
           /\ UNCHANGED <<tiers, serve, served, buffered, touched>>
           /\ Only({"at", "out", "faults", "dropped"}, cmd, cmd')
           /\ cmd'.out = IF cmd.at = "raced" THEN cmd.out ELSE cmd.out \cup {cmd.key}
           /\ \/ /\ rows' = [rows EXCEPT ![cmd.key] = Absent] /\ cmd'.at = "dropHit"
                 /\ cmd'.dropped = cmd.dropped
              \/ rows' = rows /\ cmd'.at = "delete" /\ cmd'.dropped = cmd.dropped \cup {"index"}
              \/ rows' = rows /\ cmd'.at = "delete" /\ cmd'.dropped = cmd.dropped /\ ~cmd.indexed
<1>1. cmd \in CommandState /\ cmd # Idle
  BY CommandIs DEF DeleteRow
<1> DEFINE S == IF cmd.at = "raced" THEN cmd.out ELSE cmd.out \cup {cmd.key}
           c == [cmd EXCEPT !.out = S]
<1>2. /\ cmd.at \in {"deleteRow", "raced"}
      /\ UNCHANGED <<tiers, serve, served, buffered, touched>>
      /\ \/ rows' = [rows EXCEPT ![cmd.key] = Absent] /\ cmd' = [c EXCEPT !.at = "dropHit"]
         \/ SqlMayFail /\ cmd' = [DroppedFault(c, {1}, "index") EXCEPT !.at = "delete"]
               /\ rows' = rows
         \/ ~cmd.indexed /\ cmd' = [c EXCEPT !.at = "delete"] /\ rows' = rows
  BY DEF DeleteRow
<1>3. S \in SUBSET Keys
  BY <1>1 DEF CommandState
<1> HIDE DEF S
<1>4. c \in CommandState /\ Only({"out"}, cmd, c) /\ c.out = S
  BY <1>1, <1>3 DEF CommandState, Only, Fields
<1> HIDE DEF c
<1>5. c.dropped = cmd.dropped /\ c.faults = cmd.faults
  BY <1>4 DEF Only, Fields
<1>6. ASSUME NEW e \in CommandState, NEW a \in {"delete", "dropHit"}, cmd' = [e EXCEPT !.at = a]
      PROVE  cmd' \in CommandState /\ Only({"at"}, e, cmd') /\ cmd'.at = a
             /\ cmd'.dropped = e.dropped /\ cmd'.out = e.out
  <2> DEFINE d == [e EXCEPT !.at = a]
  <2>1. a \in Steps
    BY DEF Steps, Deleting
  <2>2. d \in CommandState /\ Only({"at"}, e, d) /\ d.at = a
    BY <2>1 DEF CommandState, Only, Fields
  <2> HIDE DEF d
  <2>3. d.dropped = e.dropped /\ d.out = e.out
    BY <2>2 DEF Only, Fields
  <2> QED
    BY <1>6, <2>2, <2>3 DEF d
<1>7. ASSUME NEW a \in {"delete", "dropHit"}, cmd' = [c EXCEPT !.at = a]
      PROVE  /\ cmd' \in CommandState /\ Only({"at", "out", "faults", "dropped"}, cmd, cmd')
             /\ cmd'.at = a /\ cmd'.dropped = cmd.dropped /\ cmd'.out = S
  <2>1. cmd' \in CommandState /\ Only({"at"}, c, cmd') /\ cmd'.at = a
        /\ cmd'.dropped = c.dropped /\ cmd'.out = c.out
    BY <1>4, <1>6, <1>7
  <2>2. Only({"at", "out", "faults", "dropped"}, cmd, cmd')
    BY <1>4, <2>1 DEF Only
  <2> QED
    BY <1>4, <1>5, <2>1, <2>2
<1>8. CASE rows' = [rows EXCEPT ![cmd.key] = Absent] /\ cmd' = [c EXCEPT !.at = "dropHit"]
  BY <1>1, <1>2, <1>7, <1>8 DEF S
<1>9. CASE SqlMayFail /\ rows' = rows /\ cmd' = [DroppedFault(c, {1}, "index") EXCEPT !.at = "delete"]
  <2> DEFINE f == DroppedFault(c, {1}, "index")
  <2>1. f \in CommandState /\ Only({"faults", "dropped"}, c, f) /\ f.dropped = c.dropped \cup {"index"}
    BY <1>1, <1>4, <1>5, <1>9, LostRow
  <2>2. cmd' = [f EXCEPT !.at = "delete"]
    BY <1>9
  <2> HIDE DEF f
  <2>3. cmd' \in CommandState /\ Only({"at"}, f, cmd') /\ cmd'.at = "delete"
        /\ cmd'.dropped = f.dropped /\ cmd'.out = f.out
    BY <1>6, <2>1, <2>2
  <2>4. Only({"at", "out", "faults", "dropped"}, cmd, cmd')
    BY <1>4, <2>1, <2>3 DEF Only
  <2>5. f.out = c.out
    BY <2>1 DEF Only, Fields
  <2> QED
    BY <1>1, <1>2, <1>4, <1>5, <1>9, <2>1, <2>3, <2>4, <2>5 DEF S
<1>10. CASE ~cmd.indexed /\ cmd' = [c EXCEPT !.at = "delete"] /\ rows' = rows
  BY <1>1, <1>2, <1>7, <1>10 DEF S
<1> QED
  BY <1>2, <1>8, <1>9, <1>10

LEMMA DropHitFacts ==
    ASSUME CommandsType, DropHit
    PROVE  /\ cmd \in CommandState /\ cmd' \in CommandState
           /\ cmd.at = "dropHit" /\ cmd'.at = "delete"
           /\ UNCHANGED <<tiers, rows, serve, served, buffered, touched>>
           /\ Only({"at", "hit", "overtaken"}, cmd, cmd') /\ cmd'.hit = Absent
           /\ cmd'.overtaken = (cmd.overtaken \/ cmd.batch # Absent)
<1>1. cmd \in CommandState /\ cmd # Idle
  BY CommandIs DEF DropHit
<1> DEFINE f == [cmd EXCEPT !.hit = Absent]
           o == cmd.overtaken \/ cmd.batch # Absent
           d == [f EXCEPT !.at = "delete", !.overtaken = o]
<1>2. f \in CommandState /\ Only({"hit"}, cmd, f) /\ f.hit = Absent
  BY <1>1 DEF CommandState, Values, Only, Fields
<1>3. f.overtaken = cmd.overtaken /\ o \in BOOLEAN
  BY <1>2 DEF Only, Fields
<1>4. cmd' = d
  BY <1>3 DEF DropHit, DropsHit
<1> HIDE DEF f, o
<1>5. d \in CommandState /\ Only({"at", "overtaken"}, f, d) /\ d.at = "delete" /\ d.overtaken = o
  <2> DEFINE e == [f EXCEPT !.at = "delete"]
  <2>1. e \in CommandState /\ Only({"at"}, f, e) /\ e.at = "delete"
    BY <1>2 DEF CommandState, Steps, Deleting, Only, Fields
  <2>2. d = [e EXCEPT !.overtaken = o]
    OBVIOUS
  <2> HIDE DEF e, d
  <2>3. d \in CommandState /\ Only({"overtaken"}, e, d) /\ d.overtaken = o
    BY <1>3, <2>1, <2>2 DEF CommandState, Only, Fields
  <2> QED
    BY <2>1, <2>3 DEF Only, Fields
<1> HIDE DEF d
<1>6. d.hit = f.hit /\ Only({"at", "hit", "overtaken"}, cmd, d)
  BY <1>2, <1>5 DEF Only, Fields
<1> QED
  BY <1>1, <1>2, <1>4, <1>5, <1>6 DEF DropHit, o

LEMMA EndFacts ==
    ASSUME CommandsType, DeletesEnd \/ OrphansEnd
    PROVE  /\ cmd \in CommandState /\ cmd' \in CommandState
           /\ cmd.at = IF DeletesEnd THEN "delete" ELSE "orphans"
           /\ cmd.left = {}
           /\ UNCHANGED <<tiers, rows, serve, served, buffered, touched>>
           /\ Only({"at"}, cmd, cmd') /\ cmd'.at = "close"
<1>1. cmd \in CommandState
  BY CommandIs DEF DeletesEnd, OrphansEnd
<1> DEFINE d == [cmd EXCEPT !.at = "close"]
<1>2. d \in CommandState /\ Only({"at"}, cmd, d) /\ d.at = "close"
  BY <1>1 DEF CommandState, Steps, Only, Fields
<1>3. cmd' = d
  BY DEF DeletesEnd, OrphansEnd
<1> HIDE DEF d
<1> QED
  BY <1>1, <1>2, <1>3 DEF DeletesEnd, OrphansEnd

\* A failing statement that ends the command.
LEMMA SqlFails ==
    ASSUME cmd \in CommandState, SqlMayFail, cmd' = Fails(Fault(cmd, {1}))
    PROVE  /\ cmd' \in CommandState /\ Only({"at", "ok", "faults"}, cmd, cmd')
           /\ cmd'.at = "close" /\ ~cmd'.ok
<1> DEFINE f == Fault(cmd, {1})
<1>1. f \in CommandState /\ Only({"faults"}, cmd, f)
  BY SqlFaults, FaultFacts
<1> HIDE DEF f
<1>2. /\ Fails(f) \in CommandState /\ Only({"at", "ok"}, f, Fails(f))
      /\ Fails(f).at = "close" /\ ~Fails(f).ok
  BY <1>1, NextFacts
<1>3. cmd' = Fails(f)
  BY DEF f
<1> QED
  BY <1>1, <1>2, <1>3 DEF Only

\* The listing from the index.
QueriedAs(c, d) ==
    LET matching == IndexedKeys \cap c.sql IN
    \/ Only({"at", "ok", "faults"}, c, d) /\ d.at = "close" /\ ~d.ok
    \/ c.op = "show" /\ Only({"at", "found", "key", "part", "ok"}, c, d)
          /\ d.at \in {"get", "close"} /\ (d.at = "get" => d.part = "meta" /\ d.ok = c.ok)
    \/ c.op = "list" /\ c.limit > 0 /\ Cardinality(matching) > c.limit
          /\ Only({"at", "out", "truncated"}, c, d) /\ d.at = "close" /\ d.truncated
          /\ d.out \in kSubset(c.limit, matching)
    \/ c.op = "list" /\ ~(c.limit > 0 /\ Cardinality(matching) > c.limit)
          /\ Only({"at", "out"}, c, d) /\ d.at = "close" /\ d.out = matching

LEMMA QueryFacts ==
    ASSUME CommandsType, Query
    PROVE  /\ cmd \in CommandState /\ cmd' \in CommandState /\ cmd.at = "query"
           /\ UNCHANGED <<tiers, rows, serve, served, buffered, touched>>
           /\ QueriedAs(cmd, cmd')
<1>1. cmd \in CommandState /\ cmd # Idle
  BY CommandIs DEF Query
<1> DEFINE M == IndexedKeys \cap cmd.sql
           long == cmd.limit > 0 /\ Cardinality(M) > cmd.limit
<1>2. /\ cmd.at = "query" /\ UNCHANGED <<tiers, rows, serve, served, buffered, touched>>
      /\ \/ SqlMayFail /\ cmd' = Fails(Fault(cmd, {1}))
         \/ cmd.op = "show" /\ cmd' = Resolved([cmd EXCEPT !.found = M])
         \/ cmd.op = "list" /\ cmd' = Fails(cmd)
         \/ cmd.op = "list" /\ long /\ \E S \in kSubset(cmd.limit, M) :
                                          cmd' = [Ends(cmd, S) EXCEPT !.truncated = TRUE]
         \/ cmd.op = "list" /\ ~long /\ cmd' = Ends(cmd, M)
  BY DEF Query
<1>3. M \in SUBSET Keys
  BY DEF IndexedKeys
<1> HIDE DEF long
<1>4. CASE SqlMayFail /\ cmd' = Fails(Fault(cmd, {1}))
  BY <1>1, <1>2, <1>4, SqlFails DEF QueriedAs
<1>5. CASE cmd.op = "show" /\ cmd' = Resolved([cmd EXCEPT !.found = M])
  <2> DEFINE S == M
             c == [cmd EXCEPT !.found = S]
  <2> HIDE DEF S
  <2>1. c \in CommandState /\ Only({"found"}, cmd, c)
    <3>1. S \in SUBSET Keys
      BY <1>3 DEF S
    <3> QED
      BY <1>1, <3>1 DEF CommandState, Only, Fields
  <2>2. cmd' = Resolved(c)
    BY <1>5 DEF S
  <2> HIDE DEF c
  <2>3. cmd' \in CommandState /\ ResolvedAs(c, cmd')
    BY <2>1, <2>2, ResolvedFacts
  <2>4. Only({"at", "found", "key", "part", "ok"}, cmd, cmd')
    BY <2>1, <2>3 DEF ResolvedAs, Only
  <2>5. c.ok = cmd.ok
    BY <2>1 DEF Only, Fields
  <2> QED
    BY <1>1, <1>2, <1>5, <2>3, <2>4, <2>5 DEF ResolvedAs, QueriedAs
<1>6. CASE cmd.op = "list" /\ cmd' = Fails(cmd)
  <2>1. /\ cmd' \in CommandState /\ Only({"at", "ok"}, cmd, cmd') /\ cmd'.at = "close" /\ ~cmd'.ok
    BY <1>1, <1>6, NextFacts
  <2>2. Only({"at", "ok", "faults"}, cmd, cmd')
    BY <2>1 DEF Only
  <2> QED
    BY <1>1, <1>2, <2>1, <2>2 DEF QueriedAs
<1>7. CASE cmd.op = "list" /\ long /\ \E S \in kSubset(cmd.limit, M) :
                                          cmd' = [Ends(cmd, S) EXCEPT !.truncated = TRUE]
  <2>1. PICK S \in kSubset(cmd.limit, M) : cmd' = [Ends(cmd, S) EXCEPT !.truncated = TRUE]
    BY <1>7
  <2>2. S \in SUBSET Keys
    BY <1>3, <2>1 DEF kSubset
  <2> DEFINE e == Ends(cmd, S)
             d == [e EXCEPT !.truncated = TRUE]
  <2>3. /\ e \in CommandState /\ Only({"at", "out"}, cmd, e) /\ e.at = "close" /\ e.out = S
    BY <1>1, <2>2, NextFacts
  <2>4. cmd' = d
    BY <2>1
  <2> HIDE DEF e
  <2>5. /\ d \in CommandState /\ Only({"truncated"}, e, d) /\ d.truncated
        /\ d.at = e.at /\ d.out = e.out
    BY <2>3 DEF CommandState, Only, Fields
  <2> HIDE DEF d
  <2>6. Only({"at", "out", "truncated"}, cmd, d)
    BY <2>3, <2>5 DEF Only
  <2> QED
    BY <1>1, <1>2, <1>7, <2>1, <2>3, <2>4, <2>5, <2>6 DEF QueriedAs, long
<1>8. CASE cmd.op = "list" /\ ~long /\ cmd' = Ends(cmd, M)
  <2>1. /\ Ends(cmd, M) \in CommandState /\ Only({"at", "out"}, cmd, Ends(cmd, M))
        /\ Ends(cmd, M).at = "close" /\ Ends(cmd, M).out = M
    BY <1>1, <1>3, NextFacts
  <2> QED
    BY <1>1, <1>2, <1>8, <2>1 DEF QueriedAs, long
<1> QED
  BY <1>2, <1>4, <1>5, <1>6, <1>7, <1>8

LEMMA ExistsFacts ==
    ASSUME CommandsType, ExistsForShow, cmd.walk # {}
    PROVE  /\ cmd \in CommandState /\ cmd' \in CommandState /\ cmd.at = "exists"
           /\ UNCHANGED <<tiers, rows, serve, served, buffered, touched>>
           /\ Only({"at", "key", "part", "ok", "faults", "dropped"}, cmd, cmd')
           /\ cmd'.at \in {"get", "close"}
           /\ cmd'.at = "get" => cmd'.part = "meta" /\ cmd'.ok = cmd.ok
           /\ \E F \in FailingTiers :
                 cmd'.dropped = IF F = {} THEN cmd.dropped ELSE cmd.dropped \cup {"storage"}
<1>1. cmd \in CommandState /\ cmd # Idle
  BY CommandIs DEF ExistsForShow
<1> DEFINE k == CHOOSE k \in cmd.walk : TRUE
<1>2. k \in Keys
  <2>1. k \in cmd.walk
    OBVIOUS
  <2>2. cmd.walk \subseteq Keys
    BY <1>1 DEF CommandState
  <2> QED
    BY <2>1, <2>2
<1> HIDE DEF k
<1>3. PICK F \in FailingTiers :
        cmd' = IF Holding(k, "meta", F) = {} THEN Fails(DroppedFault(cmd, F, "storage"))
               ELSE Gets(DroppedFault(cmd, F, "storage"), k)
  BY DEF ExistsForShow, k
<1> DEFINE f == DroppedFault(cmd, F, "storage")
<1>4. /\ f \in CommandState /\ Only({"faults", "dropped"}, cmd, f)
      /\ f.dropped = IF F = {} THEN cmd.dropped ELSE cmd.dropped \cup {"storage"}
  BY <1>1, TierFaults, FaultFacts
<1>5. cmd' = Fails(f) \/ cmd' = Gets(f, k)
  BY <1>3
<1> HIDE DEF f
<1>6. /\ cmd' \in CommandState /\ Only({"at", "key", "part", "ok"}, f, cmd')
      /\ cmd'.at \in {"get", "close"}
      /\ cmd'.at = "get" => cmd'.part = "meta" /\ cmd'.ok = f.ok
  <2>1. CASE cmd' = Fails(f)
    <3>1. cmd' \in CommandState /\ Only({"at", "ok"}, f, cmd') /\ cmd'.at = "close"
      BY <1>4, <2>1, NextFacts
    <3> QED
      BY <3>1 DEF Only
  <2>2. CASE cmd' = Gets(f, k)
    <3>1. /\ cmd' \in CommandState /\ Only({"at", "key", "part"}, f, cmd')
          /\ cmd'.at = "get" /\ cmd'.part = "meta"
      BY <1>2, <1>4, <2>2, NextFacts
    <3>2. cmd'.ok = f.ok
      BY <3>1 DEF Only, Fields
    <3> QED
      BY <3>1, <3>2 DEF Only
  <2> QED
    BY <1>5, <2>1, <2>2
<1>7. Only({"at", "key", "part", "ok", "faults", "dropped"}, cmd, cmd')
  BY <1>4, <1>6 DEF Only
<1>8. cmd'.dropped = f.dropped /\ f.ok = cmd.ok
  BY <1>4, <1>6 DEF Only, Fields
<1> QED
  BY <1>1, <1>4, <1>6, <1>7, <1>8 DEF ExistsForShow

LEMMA SizeStepFacts ==
    ASSUME CommandsType, Size
    PROVE  /\ cmd \in CommandState /\ cmd' \in CommandState /\ cmd.at = "size"
           /\ UNCHANGED <<tiers, rows, serve, served, buffered, touched>>
           /\ \E F \in FailingTiers :
                 LET n == BodySize(cmd.key, F) IN
                 \/ /\ cmd.op = "reindex" /\ AfterCall({"at", "size"}, F, cmd')
                    /\ cmd'.at = "upsert" /\ cmd'.size = IF n = Absent THEN 0 ELSE n
                 \/ /\ cmd.op # "reindex" /\ n = Absent
                    /\ Only({"at", "ok", "faults"}, cmd, cmd') /\ cmd'.at = "close" /\ ~cmd'.ok
                 \/ /\ cmd.op # "reindex" /\ n # Absent
                    /\ Only({"at", "out", "faults"}, cmd, cmd') /\ cmd'.at = "close"
                    /\ cmd'.out = {cmd.key}
<1>1. cmd \in CommandState /\ cmd # Idle
  BY CommandIs DEF Size
<1>2. cmd.at = "size" /\ UNCHANGED <<tiers, rows, serve, served, buffered, touched>>
  BY DEF Size
<1>3. PICK F \in FailingTiers :
        cmd' = CASE cmd.op = "reindex" ->
                          [DroppedFault(cmd, F, "storage") EXCEPT !.at = "upsert",
                              !.size = IF BodySize(cmd.key, F) = Absent THEN 0
                                       ELSE BodySize(cmd.key, F)]
                 [] cmd.op # "reindex" /\ BodySize(cmd.key, F) = Absent -> Fails(Fault(cmd, F))
                 [] cmd.op # "reindex" /\ BodySize(cmd.key, F) # Absent ->
                          Ends(Fault(cmd, F), {cmd.key})
  BY DEF Size
<1> DEFINE n == BodySize(cmd.key, F)
           s == IF n = Absent THEN 0 ELSE n
           f == DroppedFault(cmd, F, "storage")
           g == Fault(cmd, F)
           d == [f EXCEPT !.at = "upsert", !.size = s]
<1>4. /\ f \in CommandState /\ Only({"faults", "dropped"}, cmd, f)
      /\ f.dropped = IF F = {} THEN cmd.dropped ELSE cmd.dropped \cup {"storage"}
      /\ g \in CommandState /\ Only({"faults"}, cmd, g)
  BY <1>1, TierFaults, FaultFacts
<1>5. s \in Sizes \cup {0}
  BY <1>1, SizeFacts DEF CommandState
<1>6. cmd' = CASE cmd.op = "reindex" -> d
               [] cmd.op # "reindex" /\ n = Absent -> Fails(g)
               [] cmd.op # "reindex" /\ n # Absent -> Ends(g, {cmd.key})
  BY <1>3
<1> HIDE DEF n, s, f, g
<1>7. CASE cmd.op = "reindex"
  <2>1. d \in CommandState /\ Only({"at", "size"}, f, d) /\ d.at = "upsert" /\ d.size = s
        /\ d.dropped = f.dropped
    BY <1>4, <1>5, ZenonT(30) DEF CommandState, Steps, BeforeDeletes, Only, Fields
  <2>2. cmd' = d
    BY <1>6, <1>7
  <2> HIDE DEF d
  <2>3. AfterCall({"at", "size"}, F, d)
    BY <1>4, <2>1 DEF AfterCall, Only
  <2> QED
    BY <1>1, <1>2, <1>7, <2>1, <2>2, <2>3 DEF n, s
<1>8. CASE cmd.op # "reindex" /\ n = Absent
  <2>1. cmd' = Fails(g)
    BY <1>6, <1>8
  <2>2. cmd' \in CommandState /\ Only({"at", "ok"}, g, cmd') /\ cmd'.at = "close" /\ ~cmd'.ok
    BY <1>4, <2>1, NextFacts
  <2>3. Only({"at", "ok", "faults"}, cmd, cmd')
    BY <1>4, <2>2 DEF Only
  <2> QED
    BY <1>1, <1>2, <1>8, <2>2, <2>3 DEF n
<1>9. CASE cmd.op # "reindex" /\ n # Absent
  <2>1. cmd' = Ends(g, {cmd.key}) /\ {cmd.key} \in SUBSET Keys
    BY <1>1, <1>6, <1>9 DEF CommandState
  <2>2. cmd' \in CommandState /\ Only({"at", "out"}, g, cmd') /\ cmd'.at = "close"
        /\ cmd'.out = {cmd.key}
    BY <1>4, <2>1, NextFacts, ZenonT(30)
  <2>3. Only({"at", "out", "faults"}, cmd, cmd')
    BY <1>4, <2>2 DEF Only
  <2> QED
    BY <1>1, <1>2, <1>9, <2>2, <2>3 DEF n
<1> QED
  BY <1>7, <1>8, <1>9

LEMMA UpsertFacts ==
    ASSUME CommandsType, Upsert
    PROVE  /\ cmd \in CommandState /\ cmd' \in CommandState /\ cmd.at = "upsert"
           /\ UNCHANGED <<tiers, serve, served, buffered, touched>>
           /\ \/ /\ rows' = [rows EXCEPT ![cmd.key] = cmd.size] /\ cmd'.at = "walk"
                 /\ IF Probed(cmd.key)
                    THEN /\ Only({"at", "updated"}, cmd, cmd')
                         /\ cmd'.updated = cmd.updated \cup {cmd.key}
                    ELSE /\ Only({"at", "inserted"}, cmd, cmd')
                         /\ cmd'.inserted = cmd.inserted \cup {cmd.key}
              \/ /\ rows' = rows /\ Only({"at", "ok", "faults"}, cmd, cmd')
                 /\ cmd'.at = "close" /\ ~cmd'.ok
<1>1. cmd \in CommandState /\ cmd # Idle
  BY CommandIs DEF Upsert
<1> DEFINE U == cmd.updated \cup {cmd.key}
           I == cmd.inserted \cup {cmd.key}
           d == [cmd EXCEPT !.at = "walk", !.updated = U]
           e == [cmd EXCEPT !.at = "walk", !.inserted = I]
<1>2. /\ cmd.at = "upsert" /\ UNCHANGED <<tiers, serve, served, buffered, touched>>
      /\ \/ /\ rows' = [rows EXCEPT ![cmd.key] = cmd.size]
            /\ cmd' = IF Probed(cmd.key) THEN d ELSE e
         \/ SqlMayFail /\ cmd' = Fails(Fault(cmd, {1})) /\ rows' = rows
  BY DEF Upsert
<1>3. U \in SUBSET Keys /\ I \in SUBSET Keys
  BY <1>1 DEF CommandState
<1> HIDE DEF U, I
<1>4. d \in CommandState /\ Only({"at", "updated"}, cmd, d) /\ d.at = "walk" /\ d.updated = U
  BY <1>1, <1>3 DEF CommandState, Steps, BeforeDeletes, Only, Fields
<1>5. e \in CommandState /\ Only({"at", "inserted"}, cmd, e) /\ e.at = "walk" /\ e.inserted = I
  BY <1>1, <1>3 DEF CommandState, Steps, BeforeDeletes, Only, Fields
<1> HIDE DEF d, e
<1>6. CASE /\ rows' = [rows EXCEPT ![cmd.key] = cmd.size]
           /\ cmd' = IF Probed(cmd.key) THEN d ELSE e
  BY <1>1, <1>2, <1>4, <1>5, <1>6 DEF U, I
<1>7. CASE SqlMayFail /\ cmd' = Fails(Fault(cmd, {1})) /\ rows' = rows
  BY <1>1, <1>2, <1>7, SqlFails
<1> QED
  BY <1>2, <1>6, <1>7

LEMMA AllKeysFacts ==
    ASSUME CommandsType, AllKeys
    PROVE  /\ cmd \in CommandState /\ cmd' \in CommandState /\ cmd.at = "keys"
           /\ UNCHANGED <<tiers, rows, serve, served, buffered, touched>>
           /\ \/ /\ Only({"at", "ok", "faults"}, cmd, cmd') /\ cmd'.at = "close" /\ ~cmd'.ok
              \/ /\ cmd.dry /\ Only({"at", "out", "inserted", "updated", "removed"}, cmd, cmd')
                 /\ cmd'.at = "close"
                 /\ cmd'.inserted = cmd.found \ IndexedKeys
                 /\ cmd'.updated = cmd.found \cap IndexedKeys
                 /\ cmd'.removed = Orphans
              \/ /\ ~cmd.dry /\ Only({"at", "left"}, cmd, cmd')
                 /\ cmd'.at = "orphans" /\ cmd'.left = Orphans
<1>1. cmd \in CommandState /\ cmd # Idle
  BY CommandIs DEF AllKeys
<1> DEFINE I == cmd.found \ IndexedKeys
           U == cmd.found \cap IndexedKeys
           R == Orphans
           c == Ends(cmd, {})
           d == [c EXCEPT !.inserted = I, !.updated = U, !.removed = R]
           e == [cmd EXCEPT !.at = "orphans", !.left = R]
<1>2. /\ cmd.at = "keys" /\ UNCHANGED <<tiers, rows, serve, served, buffered, touched>>
      /\ \/ SqlMayFail /\ cmd' = Fails(Fault(cmd, {1}))
         \/ cmd' = IF cmd.dry THEN d ELSE e
  BY DEF AllKeys
<1>3. I \in SUBSET Keys /\ U \in SUBSET Keys /\ R \in SUBSET Keys
  BY <1>1 DEF CommandState, Orphans, IndexedKeys
<1>4. c \in CommandState /\ Only({"at", "out"}, cmd, c) /\ c.at = "close"
  BY <1>1, NextFacts
<1> HIDE DEF I, U, R, c
<1>5. /\ d \in CommandState /\ Only({"inserted", "updated", "removed"}, c, d)
      /\ d.inserted = I /\ d.updated = U /\ d.removed = R /\ d.at = c.at
  BY <1>3, <1>4 DEF CommandState, Only, Fields
<1>6. e \in CommandState /\ Only({"at", "left"}, cmd, e) /\ e.at = "orphans" /\ e.left = R
  BY <1>1, <1>3 DEF CommandState, Steps, BeforeDeletes, Only, Fields
<1> HIDE DEF d, e
<1>7. Only({"at", "out", "inserted", "updated", "removed"}, cmd, d)
  BY <1>4, <1>5 DEF Only
<1>8. CASE SqlMayFail /\ cmd' = Fails(Fault(cmd, {1}))
  BY <1>1, <1>2, <1>8, SqlFails
<1>9. CASE cmd' = IF cmd.dry THEN d ELSE e
  BY <1>1, <1>2, <1>4, <1>5, <1>6, <1>7, <1>9 DEF I, U, R
<1> QED
  BY <1>2, <1>8, <1>9

LEMMA DeleteOrphanFacts ==
    ASSUME CommandsType, NEW k \in Keys, DeleteOrphan(k)
    PROVE  /\ cmd \in CommandState /\ cmd' \in CommandState
           /\ cmd.at = "orphans" /\ k \in cmd.left
           /\ UNCHANGED <<tiers, serve, served, buffered, touched>>
           /\ \/ /\ rows' = [rows EXCEPT ![k] = Absent] /\ Only({"left", "removed"}, cmd, cmd')
                 /\ cmd'.left = cmd.left \ {k} /\ cmd'.removed = cmd.removed \cup {k}
              \/ /\ rows' = rows /\ Only({"at", "ok", "faults"}, cmd, cmd')
                 /\ cmd'.at = "close" /\ ~cmd'.ok
<1>1. cmd \in CommandState /\ cmd # Idle
  BY CommandIs DEF DeleteOrphan
<1> DEFINE L == cmd.left \ {k}
           R == cmd.removed \cup {k}
           d == [cmd EXCEPT !.left = L, !.removed = R]
<1>2. /\ cmd.at = "orphans" /\ k \in cmd.left
      /\ UNCHANGED <<tiers, serve, served, buffered, touched>>
      /\ \/ rows' = [rows EXCEPT ![k] = Absent] /\ cmd' = d
         \/ SqlMayFail /\ cmd' = Fails(Fault(cmd, {1})) /\ rows' = rows
  BY DEF DeleteOrphan
<1>3. L \in SUBSET Keys /\ R \in SUBSET Keys
  BY <1>1 DEF CommandState
<1> HIDE DEF L, R
<1>4. d \in CommandState /\ Only({"left", "removed"}, cmd, d) /\ d.left = L /\ d.removed = R
  BY <1>1, <1>3 DEF CommandState, Only, Fields
<1> HIDE DEF d
<1>5. CASE rows' = [rows EXCEPT ![k] = Absent] /\ cmd' = d
  BY <1>1, <1>2, <1>4, <1>5 DEF L, R
<1>6. CASE SqlMayFail /\ cmd' = Fails(Fault(cmd, {1})) /\ rows' = rows
  BY <1>1, <1>2, <1>6, SqlFails
<1> QED
  BY <1>2, <1>5, <1>6

-----------------------------------------------------------------------------
(* Writes of the tiers.                                                      *)

\* A tier after a write.
Replaced(g, k, part, v) == [g EXCEPT ![k][part] = v]

LEMMA ReplacedFacts ==
    ASSUME NEW g \in [Keys -> Objects], NEW k \in Keys, NEW part \in Parts,
           NEW v \in Values(part)
    PROVE  /\ Replaced(g, k, part, v) \in [Keys -> Objects]
           /\ \A j \in Keys, p \in Parts :
                 Replaced(g, k, part, v)[j][p] = IF j = k /\ p = part THEN v ELSE g[j][p]
<1> DEFINE o == [g[k] EXCEPT ![part] = v]
           A == [g EXCEPT ![k] = o]
<1>1. g[k] \in Objects
  OBVIOUS
<1>2. o \in Objects /\ o[part] = v /\ \A p \in Parts \ {part} : o[p] = g[k][p]
  <2>1. CASE part = "meta"
    BY <1>1, <2>1 DEF Objects, Values, Parts
  <2>2. CASE part = "body"
    BY <1>1, <2>2 DEF Objects, Values, Parts
  <2> QED
    BY <2>1, <2>2 DEF Parts
<1>3. Replaced(g, k, part, v) = A
  BY DEF Replaced
<1> HIDE DEF o
<1>4. A \in [Keys -> Objects] /\ \A j \in Keys : A[j] = IF j = k THEN o ELSE g[j]
  BY <1>1, <1>2
<1> HIDE DEF A
<1> QED
  BY <1>2, <1>3, <1>4

\* W is the tiers after the write.
WrittenAs(W, T, k, part, v) ==
    /\ W \in [Tiers -> [Keys -> Objects]]
    /\ \A t \in Tiers, j \in Keys, p \in Parts :
          W[t][j][p] = IF t \in T /\ j = k /\ p = part THEN v ELSE tiers[t][j][p]

LEMMA WrittenFacts ==
    ASSUME tiers \in [Tiers -> [Keys -> Objects]], NEW T, NEW k \in Keys, NEW part \in Parts,
           NEW v \in Values(part)
    PROVE  WrittenAs(Written(T, k, part, v), T, k, part, v)
<1>1. \A t \in Tiers : tiers[t] \in [Keys -> Objects]
  OBVIOUS
<1>2. \A t \in Tiers :
         /\ Replaced(tiers[t], k, part, v) \in [Keys -> Objects]
         /\ \A j \in Keys, p \in Parts : Replaced(tiers[t], k, part, v)[j][p] =
               IF j = k /\ p = part THEN v ELSE tiers[t][j][p]
  BY <1>1, ReplacedFacts
<1>3. Written(T, k, part, v) =
         [t \in Tiers |-> IF t \in T THEN Replaced(tiers[t], k, part, v) ELSE tiers[t]]
  BY DEF Written, Replaced
<1> QED
  BY <1>1, <1>2, <1>3 DEF WrittenAs

\* After a Fill that read v, the tiers hold at k and part, below span, what was
\* read, but where a tier failed.
FilledAs(T, k, part, v, clean) ==
    /\ tiers' \in [Tiers -> [Keys -> Objects]]
    /\ \A t \in Tiers, j \in Keys, p \in Parts :
          t \notin T \/ j # k \/ p # part => tiers'[t][j][p] = tiers[t][j][p]
    /\ clean => \A t \in Tiers : t \in T => tiers'[t][k][part] = v

LEMMA TornFacts ==
    ASSUME tiers \in [Tiers -> [Keys -> Objects]], NEW T, NEW F, NEW k \in Keys,
           NEW part \in Parts, NEW v \in Values(part),
           F = {} \/ \E t \in Tiers : F = {t},
           LET full == Written(T \ F, k, part, v)
           IN \/ tiers' = full
              \/ F # {} /\ F \subseteq T
                 /\ tiers' = [full EXCEPT ![Min(F)][k][part] = Torn(part)]
    PROVE  FilledAs(T, k, part, v, F = {})
<1> DEFINE U == T \ F
           full == Written(U, k, part, v)
<1>0. \/ tiers' = full
      \/ F # {} /\ F \subseteq T /\ tiers' = [full EXCEPT ![Min(F)][k][part] = Torn(part)]
  OBVIOUS
<1> HIDE DEF U
<1>1. /\ full \in [Tiers -> [Keys -> Objects]]
      /\ \A t \in Tiers, j \in Keys, p \in Parts :
            full[t][j][p] = IF t \in U /\ j = k /\ p = part THEN v ELSE tiers[t][j][p]
  <2>1. WrittenAs(Written(U, k, part, v), U, k, part, v)
    BY WrittenFacts, Zenon
  <2> QED
    BY <2>1 DEF WrittenAs
<1> HIDE DEF full
<1>2. CASE tiers' = full
  BY <1>1, <1>2 DEF FilledAs, U
<1>3. CASE F # {} /\ F \subseteq T /\ tiers' = [full EXCEPT ![Min(F)][k][part] = Torn(part)]
  <2>1. PICK s \in Tiers : F = {s}
    BY <1>3
  <2>2. Min(F) = s
    BY <2>1, Basics DEF Min
  <2>3. Torn(part) \in Values(part)
    BY DEF Torn, Values
  <2> DEFINE A == Replaced(full[s], k, part, Torn(part))
  <2>4. /\ A \in [Keys -> Objects]
        /\ \A j \in Keys, p \in Parts :
              A[j][p] = IF j = k /\ p = part THEN Torn(part) ELSE full[s][j][p]
    <3>1. full[s] \in [Keys -> Objects]
      BY <1>1
    <3> QED
      BY <2>3, <3>1, ReplacedFacts, SMTT(30)
  <2>5. tiers' = [full EXCEPT ![s] = A]
    BY <1>3, <2>2 DEF Replaced
  <2> HIDE DEF A
  <2>6. tiers' \in [Tiers -> [Keys -> Objects]]
    BY <1>1, <2>4, <2>5
  <2>7. \A t \in Tiers : tiers'[t] = IF t = s THEN A ELSE full[t]
    BY <1>1, <2>5
  <2>8. s \in T
    BY <1>3, <2>1
  <2>9. ASSUME NEW t \in Tiers, NEW j \in Keys, NEW p \in Parts, t \notin T \/ j # k \/ p # part
        PROVE  tiers'[t][j][p] = tiers[t][j][p]
    <3>1. CASE t = s
      <4>1. j # k \/ p # part
        BY <2>8, <2>9, <3>1
      <4> QED
        BY <1>1, <2>4, <2>7, <3>1, <4>1
    <3>2. CASE t # s
      BY <1>1, <2>7, <2>9, <3>2 DEF U
    <3> QED
      BY <3>1, <3>2
  <2> QED
    BY <1>3, <2>6, <2>9 DEF FilledAs
<1> QED
  BY <1>0, <1>2, <1>3

-----------------------------------------------------------------------------
(* Type correctness.                                                         *)

\* Where a command of each kind can be.
CourseOf(c) ==
    /\ c.byKey => \E k \in Keys : c.walk = {k}
    /\ c.at = "exists" => c.op = "show" /\ c.byKey
    /\ c.at = "query" => c.op \in {"list", "show"} /\ c.indexed
    /\ c.at = "size" => c.op # "invalidate"
    /\ c.at \in {"upsert", "keys", "orphans"} => c.op = "reindex"
    /\ c.at \in Deleting => c.op = "invalidate" /\ ~c.dry
    /\ c.at \in {"get", "hit"} /\ c.op # "show" => c.byKey /\ c.walk = {c.key}
    /\ c.op = "reindex" => ~c.byKey /\ c.hit = Absent
    /\ c.batch # Absent => c.op # "reindex" /\ c.at \in {"size", "close"} \cup Deleting

TypeInv == CommandsType /\ (cmd # Idle => CourseOf(cmd))

\* The place of d follows from that of c.
Follows(c, d) == CourseOf(c) /\ HandOf(c) => CourseOf(d) /\ HandOf(d)

LEMMA AtClose ==
    ASSUME NEW c, NEW d, Only({"at", "ok", "out", "left", "found", "faults", "dropped",
                               "truncated", "inserted", "updated", "removed"}, c, d),
           d.at = "close" \/ (d.at = "done" /\ c.batch = Absent), c.span = 0
    PROVE  Follows(c, d)
<1>1. d.byKey = c.byKey /\ d.walk = c.walk /\ d.span = c.span /\ d.op = c.op
      /\ d.hit = c.hit /\ d.batch = c.batch
  BY DEF Only, Fields
<1> QED
  BY <1>1 DEF Follows, CourseOf, HandOf, Deleting

LEMMA LocatedFollows ==
    ASSUME NEW c, NEW d, LocatedAs(c, d), c.span = 0
    PROVE  Follows(c, d)
<1>1. d.byKey = c.byKey /\ d.walk = c.walk /\ d.span = c.span /\ d.op = c.op /\ d.dry = c.dry
      /\ d.hit = c.hit /\ d.batch = c.batch
  BY DEF LocatedAs, Only, Fields
<1>2. d.at \in {"size", "close", "delete"}
      /\ (d.at = "size" => c.op # "invalidate")
      /\ (d.at = "delete" => c.op = "invalidate" /\ ~c.dry)
  BY DEF LocatedAs
<1> QED
  BY <1>1, <1>2 DEF Follows, CourseOf, HandOf, Deleting

LEMMA AdvancedFollows ==
    ASSUME NEW c, NEW v, NEW d, Advanced(c, v, d), c.span = 0
    PROVE  Follows(c, d)
<1>1. CASE d = c
  BY <1>1 DEF Follows
<1>2. CASE Cut(c, d)
  <2>1. d.byKey = c.byKey /\ d.walk = c.walk /\ d.span = c.span /\ d.at = "close"
        /\ d.op = c.op /\ d.hit = c.hit /\ d.batch = c.batch
    BY <1>2 DEF Cut, Only, Fields
  <2> QED
    BY <2>1 DEF Follows, CourseOf, HandOf, Deleting
<1>3. CASE c.at = "walk" /\ Taken(c, d)
  <2>1. /\ d.byKey = c.byKey /\ d.walk = c.walk /\ d.span = c.span /\ d.op = c.op
        /\ d.hit = c.hit /\ d.batch = c.batch
        /\ d.part = c.part
    BY <1>3 DEF Taken, Only, Fields
  <2>2. d.at = "walk" \/ (d.at = "size" /\ c.op = "reindex")
    BY <1>3 DEF Taken, Only, Fields
  <2> QED
    BY <1>3, <2>1, <2>2 DEF Follows, CourseOf, HandOf, Deleting
<1>4. CASE c.at = "get" /\ Only({"part"}, c, d)
  <2>1. /\ d.byKey = c.byKey /\ d.walk = c.walk /\ d.span = c.span /\ d.op = c.op
        /\ d.hit = c.hit /\ d.batch = c.batch
        /\ d.key = c.key /\ d.at = "get"
    BY <1>4 DEF Only, Fields
  <2> QED
    BY <1>4, <2>1 DEF Follows, CourseOf, HandOf, Deleting
<1>5. CASE Only({"at", "ok"}, c, d) /\ d.at = "close"
  <2>1. d.byKey = c.byKey /\ d.walk = c.walk /\ d.span = c.span /\ d.op = c.op
        /\ d.hit = c.hit /\ d.batch = c.batch
    BY <1>5 DEF Only, Fields
  <2> QED
    BY <1>5, <2>1 DEF Follows, CourseOf, HandOf, Deleting
<1>6. CASE c.at = "get" /\ Only({"at"}, c, d) /\ d.at = "hit"
  <2>1. /\ d.byKey = c.byKey /\ d.walk = c.walk /\ d.span = c.span /\ d.op = c.op
        /\ d.hit = c.hit /\ d.batch = c.batch
        /\ d.key = c.key
    BY <1>6 DEF Only, Fields
  <2> QED
    BY <1>6, <2>1 DEF Follows, CourseOf, HandOf, Deleting
<1>7. CASE LocatedAs(c, d)
  BY <1>7, LocatedFollows
<1> QED
  BY <1>1, <1>2, <1>3, <1>4, <1>5, <1>6, <1>7 DEF Advanced

\* What no step of a command changes, once it has begun.
Settings == {"op", "dry", "byKey", "walk", "sql", "indexed", "limit", "start"}

LEMMA AdvancedKeeps ==
    ASSUME NEW c, NEW v, NEW d, Advanced(c, v, d)
    PROVE  /\ \A f \in Settings : d[f] = c[f]
           /\ d.dropped = c.dropped /\ d.listed = c.listed /\ d.span = c.span /\ d.key = c.key
           /\ d.hit = c.hit /\ d.batch = c.batch /\ d.overtaken = c.overtaken
  BY DEF Advanced, Cut, Taken, LocatedAs, Only, Fields, Settings

LEMMA NotIdle ==
    ASSUME NEW c \in CommandState
    PROVE  c # Idle
<1>1. c.at # "idle"
  BY DEF CommandState, Steps, BeforeDeletes, Deleting
<1> QED
  BY <1>1 DEF Idle

\* A step of a command that has begun.
Going ==
    \/ Query \/ ExistsForShow \/ List \/ Fill \/ WalkEnds \/ DropOrphan
    \/ SwapHit \/ CommitHit \/ RequeueHit \/ Close
    \/ DeleteFile \/ DeleteRow \/ DropHit \/ DeletesEnd
    \/ RecordHit \/ Size \/ Upsert \/ AllKeys \/ OrphansEnd
    \/ \E k \in Keys : Read(k) \/ DeleteNext(k) \/ DeleteOrphan(k)

\* What every such step leaves.
Kept(S) == \A f \in S : cmd'[f] = cmd[f]

GoesOn ==
    /\ cmd \in CommandState /\ cmd' \in CommandState
    /\ Kept(Settings) /\ cmd.dropped \subseteq cmd'.dropped
    /\ cmd.overtaken => cmd'.overtaken
    /\ Follows(cmd, cmd')
    /\ UNCHANGED <<serve, served, buffered, touched>>

LEMMA ReadGoes ==
    ASSUME TypeInv, NEW k \in Keys, Read(k)
    PROVE  GoesOn /\ UNCHANGED <<tiers, rows>>
<1>1. PICK F \in FailingTiers, c \in CommandState :
         /\ AfterCall({"key", "listed", "part"}, F, c)
         /\ c.key = k /\ c.listed = cmd.listed \ {k}
         /\ c.part = IF cmd.at = "walk" THEN "meta" ELSE cmd.part
         /\ LET H == Holding(k, c.part, F) IN
            \/ H = {} /\ (\/ GivenUp(c, cmd')
                          \/ /\ c.at = "get" /\ c.indexed
                             /\ Only({"at"}, c, cmd') /\ cmd'.at = "orphan")
            \/ /\ H # {} /\ Min(H) = 1
               /\ Advanced(c, tiers[1][k][c.part], cmd')
            \/ /\ H # {} /\ Min(H) # 1
               /\ Only({"span", "data"}, c, cmd')
               /\ cmd'.span = Min(H) - 1 /\ cmd'.data = tiers[Min(H)][k][c.part]
            \/ F # {} /\ GivenUp(c, cmd')
  BY ReadFacts DEF TypeInv
<1>2. /\ cmd \in CommandState /\ cmd' \in CommandState
      /\ cmd.at \in {"walk", "get"} /\ cmd.span = 0
      /\ IF cmd.at = "walk" THEN k \in cmd.listed ELSE k = cmd.key
      /\ UNCHANGED <<tiers, rows, serve, served, buffered, touched>>
  BY ReadFacts DEF TypeInv
<1>3. /\ c.at = cmd.at /\ c.span = 0 /\ c.byKey = cmd.byKey /\ c.walk = cmd.walk /\ c.op = cmd.op
      /\ c.data = cmd.data /\ c.dropped = IF F = {} THEN cmd.dropped ELSE cmd.dropped \cup {"storage"}
      /\ (\A f \in Settings : c[f] = cmd[f]) /\ c.hit = cmd.hit /\ c.batch = cmd.batch
      /\ c.overtaken = cmd.overtaken
  BY <1>1, <1>2 DEF AfterCall, Only, Fields, Settings
<1>4. cmd.at = "get" => c.key = cmd.key
  BY <1>1, <1>2
<1>5. Follows(cmd, c)
  BY <1>1, <1>2, <1>3, <1>4 DEF Follows, CourseOf, HandOf, Deleting
<1>6. /\ \A f \in Settings : cmd'[f] = c[f]
      /\ c.dropped = cmd'.dropped /\ c.overtaken = cmd'.overtaken /\ Follows(c, cmd')
  <2>1. CASE GivenUp(c, cmd')
    <3>1. CASE cmd' = c
      BY <3>1 DEF Follows
    <3>2. CASE Only({"at", "ok"}, c, cmd') /\ cmd'.at = "close"
      <4>1. Follows(c, cmd')
        <5>1. Only({"at", "ok", "out", "left", "found", "faults", "dropped",
                    "truncated", "inserted", "updated", "removed"}, c, cmd')
          BY <3>2 DEF Only
        <5> QED
          BY <1>3, <3>2, <5>1, AtClose
      <4> QED
        BY <3>2, <4>1 DEF Only, Fields, Settings
    <3> QED
      BY <2>1, <3>1, <3>2 DEF GivenUp
  <2>2. CASE c.at = "get" /\ Only({"at"}, c, cmd') /\ cmd'.at = "orphan"
    <3>1. /\ cmd'.byKey = c.byKey /\ cmd'.walk = c.walk /\ cmd'.span = c.span /\ cmd'.op = c.op
          /\ cmd'.hit = c.hit /\ cmd'.batch = c.batch
      BY <2>2 DEF Only, Fields
    <3>2. Follows(c, cmd')
      BY <1>3, <2>2, <3>1 DEF Follows, CourseOf, HandOf, Deleting
    <3> QED
      BY <2>2, <3>2 DEF Only, Fields, Settings
  <2>3. ASSUME NEW v, Advanced(c, v, cmd')
        PROVE  /\ \A f \in Settings : cmd'[f] = c[f]
               /\ c.dropped = cmd'.dropped /\ c.overtaken = cmd'.overtaken /\ Follows(c, cmd')
    BY <1>3, <2>3, AdvancedFollows, AdvancedKeeps
  <2>4. CASE /\ Holding(k, c.part, F) # {}
             /\ Only({"span", "data"}, c, cmd')
             /\ cmd'.data = tiers[Min(Holding(k, c.part, F))][k][c.part]
    <3> DEFINE H == Holding(k, c.part, F)
    <3>1. Min(H) \in Tiers /\ tiers[Min(H)][k][c.part] # Absent
      BY <2>4, HoldingFacts
    <3>2. tiers[Min(H)][k] \in Objects /\ c.part \in Parts
      BY <3>1 DEF TypeInv, CommandsType, CommandState
    <3>3. tiers[Min(H)][k][c.part] \in Values(c.part)
      BY <3>2 DEF Objects, Parts, Values
    <3>4. /\ cmd'.byKey = c.byKey /\ cmd'.walk = c.walk /\ cmd'.part = c.part /\ cmd'.key = c.key
          /\ cmd'.op = c.op /\ cmd'.at = c.at /\ cmd'.hit = c.hit /\ cmd'.batch = c.batch
      BY <2>4 DEF Only, Fields
    <3>5. Follows(c, cmd')
      BY <1>1, <1>2, <1>3, <2>4, <3>1, <3>3, <3>4 DEF Follows, CourseOf, HandOf, Deleting
    <3> QED
      BY <2>4, <3>5 DEF Only, Fields, Settings
  <2> QED
    BY <1>1, <2>1, <2>2, <2>3, <2>4
<1> QED
  BY <1>2, <1>3, <1>5, <1>6 DEF GoesOn, Kept, Follows

LEMMA FillGoes ==
    ASSUME TypeInv, Fill
    PROVE  /\ GoesOn /\ UNCHANGED rows
           /\ cmd.at \in {"walk", "get"} /\ cmd.span > 0
           /\ FilledAs(1..cmd.span, cmd.key, cmd.part, cmd.data, "storage" \notin cmd'.dropped)
<1>1. /\ cmd \in CommandState /\ cmd' \in CommandState
      /\ cmd.at \in {"walk", "get"} /\ cmd.span > 0
      /\ UNCHANGED <<rows, serve, served, buffered, touched>>
  BY FillFacts DEF TypeInv
<1>2. PICK F \in FailingTiers, c \in CommandState :
        /\ AfterCall({"span"}, F, c) /\ c.span = 0
        /\ Advanced(c, cmd.data, cmd')
        /\ LET full == Written((1..cmd.span) \ F, cmd.key, cmd.part, cmd.data)
           IN \/ tiers' = full
              \/ F # {} /\ F \subseteq 1..cmd.span
                 /\ tiers' = [full EXCEPT ![Min(F)][cmd.key][cmd.part] = Torn(cmd.part)]
  BY FillFacts DEF TypeInv
<1>3. /\ c.at = cmd.at /\ c.byKey = cmd.byKey /\ c.walk = cmd.walk /\ c.op = cmd.op
      /\ c.part = cmd.part /\ c.key = cmd.key
      /\ c.dropped = IF F = {} THEN cmd.dropped ELSE cmd.dropped \cup {"storage"}
      /\ (\A f \in Settings : c[f] = cmd[f]) /\ c.hit = cmd.hit /\ c.batch = cmd.batch
      /\ c.overtaken = cmd.overtaken
  BY <1>2 DEF AfterCall, Only, Fields, Settings
<1>4. Follows(cmd, c)
  BY <1>1, <1>2, <1>3 DEF Follows, CourseOf, HandOf, Deleting
<1>5. /\ \A f \in Settings : cmd'[f] = c[f]
      /\ c.dropped = cmd'.dropped /\ c.overtaken = cmd'.overtaken /\ Follows(c, cmd')
  BY <1>2, AdvancedFollows, AdvancedKeeps
<1>6. FilledAs(1..cmd.span, cmd.key, cmd.part, cmd.data, F = {})
  <2>1. /\ tiers \in [Tiers -> [Keys -> Objects]] /\ cmd.key \in Keys /\ cmd.part \in Parts
        /\ cmd.data \in Values(cmd.part)
    BY <1>1, NotIdle DEF TypeInv, CommandsType, CommandState, InHand, HandOf
  <2>2. F = {} \/ \E t \in Tiers : F = {t}
    BY <1>1, TierFaults
  <2> QED
    BY <1>2, <2>1, <2>2, TornFacts, ZenonT(30)
<1>7. "storage" \notin cmd'.dropped => F = {}
  BY <1>3, <1>5
<1> QED
  BY <1>1, <1>3, <1>4, <1>5, <1>6, <1>7 DEF GoesOn, Kept, Follows, FilledAs

\* A step that leaves the place in the tiers and the hand alone.
\* The variables of a command that its own steps may change.
Locals == {"at", "ok", "out", "left", "found", "hit", "batch", "overtaken", "faults", "dropped", "truncated",
           "inserted", "updated", "removed", "size", "listed", "key", "part"}

LEMMA SimplyGoes ==
    ASSUME TypeInv, cmd \in CommandState, cmd' \in CommandState, Only(Locals, cmd, cmd'),
           cmd.dropped \subseteq cmd'.dropped, cmd.overtaken => cmd'.overtaken,
           cmd.at \notin {"walk", "get"} \/ cmd.span = 0,
           CourseOf(cmd) => CourseOf(cmd'),
           UNCHANGED <<serve, served, buffered, touched>>
    PROVE  GoesOn
<1>1. (\A f \in Settings : cmd'[f] = cmd[f]) /\ cmd'.span = cmd.span /\ cmd'.data = cmd.data
  BY DEF Only, Fields, Settings, Locals
<1>2. HandOf(cmd)
  BY NotIdle DEF TypeInv, CommandsType, InHand
<1>3. cmd.span = 0 /\ cmd.span \in {0} \cup Tiers
  BY <1>2 DEF HandOf
<1>4. HandOf(cmd')
  BY <1>1, <1>3 DEF HandOf
<1> QED
  BY <1>1, <1>4 DEF GoesOn, Kept, Follows

LEMMA CallGoes ==
    ASSUME TypeInv,
           List \/ RecordHit \/ ExistsForShow \/ Size \/ (\E k \in Keys : DeleteNext(k)) \/ DeleteFile
    PROVE  GoesOn /\ UNCHANGED rows
<1> USE DEF TypeInv
<1>1. CASE List
  <2>1. /\ cmd \in CommandState /\ cmd' \in CommandState /\ cmd.at = "list" /\ cmd'.at = "walk"
        /\ UNCHANGED <<tiers, rows, serve, served, buffered, touched>>
        /\ Only({"at", "listed"} \cup {"faults", "dropped"}, cmd, cmd')
        /\ cmd.dropped \subseteq cmd'.dropped
    BY <1>1, ListFacts DEF AfterCall
  <2>2. Only(Locals, cmd, cmd') /\ cmd'.byKey = cmd.byKey /\ cmd'.walk = cmd.walk
        /\ cmd'.op = cmd.op /\ cmd'.hit = cmd.hit /\ cmd'.batch = cmd.batch
        /\ cmd'.overtaken = cmd.overtaken
    BY <2>1 DEF Only, Fields, Locals
  <2>3. CourseOf(cmd) => CourseOf(cmd')
    BY <2>1, <2>2 DEF CourseOf, Deleting
  <2> QED
    BY <2>1, <2>2, <2>3, SimplyGoes
<1>2. CASE RecordHit
  <2>1. PICK F \in FailingTiers, c \in CommandState :
                 /\ Only({"faults", "dropped", "hit"}, cmd, c)
                 /\ c.dropped = IF F = {} THEN cmd.dropped ELSE cmd.dropped \cup {"size"}
                 /\ LocatedAs(c, cmd')
    BY <1>2, RecordHitFacts
  <2>2. /\ cmd \in CommandState /\ cmd' \in CommandState /\ cmd.at = "hit"
        /\ UNCHANGED <<tiers, rows, serve, served, buffered, touched>>
    BY <1>2, RecordHitFacts
  <2>3. /\ c.byKey = cmd.byKey /\ c.walk = cmd.walk /\ c.span = cmd.span /\ c.op = cmd.op
        /\ c.at = cmd.at /\ c.key = cmd.key /\ c.batch = cmd.batch
    BY <2>1 DEF Only, Fields
  <2>4. cmd.span = 0 /\ HandOf(cmd)
    BY <2>2, NotIdle DEF CommandsType, InHand, HandOf
  <2>5. Follows(c, cmd')
    BY <2>1, <2>3, <2>4, LocatedFollows
  <2>6. CourseOf(cmd) => CourseOf(c) /\ HandOf(c)
    BY <2>2, <2>3, <2>4 DEF CourseOf, HandOf, Deleting
  <2>7. Only(Locals, cmd, cmd')
    BY <2>1 DEF LocatedAs, Only, Fields, Locals
  <2>8. cmd'.dropped = c.dropped /\ cmd'.overtaken = cmd.overtaken
    BY <2>1 DEF LocatedAs, Only, Fields
  <2> QED
    BY <2>1, <2>2, <2>5, <2>6, <2>7, <2>8, SimplyGoes DEF Follows
<1>3. CASE ExistsForShow
  <2>1. cmd \in CommandState /\ cmd.at = "exists"
    BY <1>3, CommandIs DEF ExistsForShow
  <2>2. CourseOf(cmd) /\ cmd.walk # {} /\ cmd.op = "show"
    BY <2>1, NotIdle DEF CourseOf
  <2>3. /\ cmd' \in CommandState
        /\ UNCHANGED <<tiers, rows, serve, served, buffered, touched>>
        /\ Only({"at", "key", "part", "ok", "faults", "dropped"}, cmd, cmd')
        /\ cmd'.at \in {"get", "close"}
        /\ cmd.dropped \subseteq cmd'.dropped
    BY <1>3, <2>2, ExistsFacts
  <2>4. /\ Only(Locals, cmd, cmd') /\ cmd'.byKey = cmd.byKey /\ cmd'.walk = cmd.walk
        /\ cmd'.op = cmd.op /\ cmd'.hit = cmd.hit /\ cmd'.batch = cmd.batch
        /\ cmd'.overtaken = cmd.overtaken
        /\ cmd'.op = cmd.op
    BY <2>3 DEF Only, Fields, Locals
  <2>5. CourseOf(cmd) => CourseOf(cmd')
    BY <2>1, <2>2, <2>3, <2>4 DEF CourseOf, Deleting
  <2> QED
    BY <2>1, <2>3, <2>4, <2>5, SimplyGoes
<1>4. CASE Size
  <2>1. /\ cmd \in CommandState /\ cmd' \in CommandState /\ cmd.at = "size"
        /\ UNCHANGED <<tiers, rows, serve, served, buffered, touched>>
        /\ \/ /\ cmd.op = "reindex" /\ cmd'.at = "upsert" /\ cmd.dropped \subseteq cmd'.dropped
              /\ Only({"at", "size"} \cup {"faults", "dropped"}, cmd, cmd')
           \/ Only({"at", "ok", "faults"}, cmd, cmd') /\ cmd'.at = "close"
           \/ Only({"at", "out", "faults"}, cmd, cmd') /\ cmd'.at = "close"
    BY <1>4, SizeStepFacts DEF AfterCall
  <2>2. /\ Only(Locals, cmd, cmd') /\ cmd'.byKey = cmd.byKey /\ cmd'.walk = cmd.walk
        /\ cmd'.op = cmd.op /\ cmd'.hit = cmd.hit /\ cmd'.batch = cmd.batch
        /\ cmd'.overtaken = cmd.overtaken
        /\ cmd'.op = cmd.op /\ cmd.dropped \subseteq cmd'.dropped
    BY <2>1 DEF Only, Fields, Locals
  <2>3. CourseOf(cmd) => CourseOf(cmd')
    BY <2>1, <2>2 DEF CourseOf, Deleting
  <2> QED
    BY <2>1, <2>2, <2>3, SimplyGoes
<1>5. ASSUME NEW k \in Keys, DeleteNext(k) PROVE GoesOn /\ UNCHANGED rows
  <2>1. /\ cmd \in CommandState /\ cmd' \in CommandState /\ cmd.at = "delete"
        /\ cmd'.at \in {"raced", "deleteFile"}
        /\ UNCHANGED <<tiers, rows, serve, served, buffered, touched>>
        /\ Only({"at", "key", "left", "part"} \cup {"faults", "dropped"}, cmd, cmd')
        /\ cmd.dropped \subseteq cmd'.dropped
    BY <1>5, DeleteNextFacts DEF AfterCall
  <2>2. /\ Only(Locals, cmd, cmd') /\ cmd'.byKey = cmd.byKey /\ cmd'.walk = cmd.walk
        /\ cmd'.op = cmd.op /\ cmd'.hit = cmd.hit /\ cmd'.batch = cmd.batch
        /\ cmd'.overtaken = cmd.overtaken
        /\ cmd'.op = cmd.op /\ cmd'.dry = cmd.dry
    BY <2>1 DEF Only, Fields, Locals
  <2>3. CourseOf(cmd) => CourseOf(cmd')
    BY <2>1, <2>2 DEF CourseOf, Deleting
  <2> QED
    BY <2>1, <2>2, <2>3, SimplyGoes
<1>6. CASE DeleteFile
  <2>1. /\ cmd \in CommandState /\ cmd' \in CommandState /\ cmd.at = "deleteFile"
        /\ UNCHANGED <<rows, serve, served, buffered, touched>>
        /\ cmd'.dropped = cmd.dropped
        /\ \/ Only({"at", "ok", "faults"}, cmd, cmd') /\ cmd'.at = "delete"
           \/ Only({"part", "faults"}, cmd, cmd')
           \/ Only({"at", "faults"}, cmd, cmd') /\ cmd'.at = "deleteRow"
    BY <1>6, DeleteFileFacts
  <2>2. /\ Only(Locals, cmd, cmd') /\ cmd'.byKey = cmd.byKey /\ cmd'.walk = cmd.walk
        /\ cmd'.op = cmd.op /\ cmd'.hit = cmd.hit /\ cmd'.batch = cmd.batch
        /\ cmd'.overtaken = cmd.overtaken
        /\ cmd'.op = cmd.op /\ cmd'.dry = cmd.dry /\ cmd'.at \in Deleting
    BY <2>1 DEF Only, Fields, Locals, Deleting
  <2>3. CourseOf(cmd) => CourseOf(cmd')
    BY <2>1, <2>2 DEF CourseOf, Deleting
  <2> QED
    BY <2>1, <2>2, <2>3, SimplyGoes
<1> QED
  BY <1>1, <1>2, <1>3, <1>4, <1>5, <1>6

\* The same for the steps that call no tier.
LEMMA LocalGoes ==
    ASSUME TypeInv,
           \/ Query \/ WalkEnds \/ DropOrphan \/ Flushing \/ Close \/ DeleteRow \/ DropHit
           \/ DeletesEnd \/ Upsert \/ AllKeys \/ OrphansEnd \/ \E k \in Keys : DeleteOrphan(k)
    PROVE  GoesOn /\ UNCHANGED tiers
<1> USE DEF TypeInv
<1> DEFINE Simple == /\ cmd \in CommandState /\ cmd' \in CommandState /\ UNCHANGED tiers
                     /\ UNCHANGED <<serve, served, buffered, touched>>
                     /\ cmd.at \notin {"walk", "get"} \/ cmd.span = 0
<1>1. ASSUME Simple, Only(Locals, cmd, cmd'), cmd.dropped \subseteq cmd'.dropped,
             cmd'.hit \in {cmd.hit, Absent}, cmd'.batch = cmd.batch,
             cmd.overtaken => cmd'.overtaken,
             \/ cmd.at \notin {"size", "close"} \cup Deleting \/ cmd.batch = Absent
             \/ cmd'.at \in {"size", "close"} \cup Deleting,
             \/ cmd'.at \in {"close", "done", "walk"}
             \/ cmd'.at \in Deleting /\ (cmd.at \in Deleting \/ (cmd.op = "invalidate" /\ ~cmd.dry))
             \/ cmd'.at = cmd.at /\ cmd.at = "size"
             \/ cmd'.at \in {"keys", "orphans"} /\ cmd.op = "reindex"
             \/ cmd'.at = "get" /\ cmd.op = "show"
      PROVE  GoesOn /\ UNCHANGED tiers
  <2>1. /\ cmd'.byKey = cmd.byKey /\ cmd'.walk = cmd.walk
        /\ cmd'.op = cmd.op /\ cmd'.dry = cmd.dry
    BY <1>1 DEF Only, Fields, Locals
  <2>2. CourseOf(cmd) => CourseOf(cmd')
    BY <1>1, <2>1 DEF CourseOf, Deleting
  <2> QED
    BY <1>1, <2>2, SimplyGoes
<1>2. ASSUME NEW S, S \subseteq Locals \ {"dropped", "hit", "batch", "overtaken"}, Only(S, cmd, cmd')
      PROVE  /\ Only(Locals, cmd, cmd') /\ cmd.dropped \subseteq cmd'.dropped
             /\ cmd'.hit = cmd.hit /\ cmd'.batch = cmd.batch
             /\ cmd'.overtaken = cmd.overtaken
  BY <1>2 DEF Only, Fields, Locals
<1> HIDE DEF Simple
<1>3. CASE Query
  <2>1. Simple /\ QueriedAs(cmd, cmd') /\ cmd.at = "query"
    BY <1>3, QueryFacts DEF Simple
  <2>2. Only({"at", "ok", "faults", "found", "key", "part", "out", "truncated"}, cmd, cmd')
    BY <2>1 DEF QueriedAs, Only
  <2>3. cmd'.at = "close" \/ (cmd'.at = "get" /\ cmd.op = "show")
    BY <2>1 DEF QueriedAs
  <2> QED
    BY <1>1, <1>2, <2>1, <2>2, <2>3 DEF Locals, Deleting
<1>4. CASE WalkEnds
  <2>1. Simple /\ ScannedAs(cmd, cmd') /\ cmd.at = "walk"
    BY <1>4, WalkEndsFacts DEF Simple
  <2>2. Only({"at", "out", "left", "key", "part", "ok"}, cmd, cmd')
    BY <2>1 DEF ScannedAs, ResolvedAs, Only
  <2>3. \/ cmd'.at = "close" \/ (cmd'.at = "get" /\ cmd.op = "show")
        \/ cmd'.at = "delete" /\ cmd.op = "invalidate" /\ ~cmd.dry
        \/ cmd'.at = "keys" /\ cmd.op = "reindex"
    BY <2>1 DEF ScannedAs, ResolvedAs
  <2>4. /\ Only(Locals, cmd, cmd') /\ cmd.dropped \subseteq cmd'.dropped
        /\ cmd'.hit = cmd.hit /\ cmd'.batch = cmd.batch
        /\ cmd'.overtaken = cmd.overtaken
    BY <1>2, <2>2 DEF Locals
  <2> QED
    BY <1>1, <2>1, <2>3, <2>4 DEF Deleting
<1>5. CASE DropOrphan
  <2>1. /\ Simple /\ Only({"at", "ok", "faults", "dropped"}, cmd, cmd') /\ cmd'.at = "close"
        /\ cmd.dropped \subseteq cmd'.dropped
    BY <1>5, DropOrphanFacts DEF Simple
  <2>2. Only(Locals, cmd, cmd') /\ cmd'.hit = cmd.hit /\ cmd'.batch = cmd.batch /\ cmd'.overtaken = cmd.overtaken
    BY <2>1 DEF Only, Fields, Locals
  <2> QED
    BY <1>1, <2>1, <2>2
<1>6. CASE Flushing
  <2>1. /\ Simple /\ Only({"hit", "batch", "overtaken", "faults"}, cmd, cmd')
        /\ cmd.overtaken => cmd'.overtaken
        /\ \/ cmd.at \in {"size"} \cup Deleting /\ cmd.hit # Absent
           \/ cmd.batch # Absent /\ cmd'.hit \in {cmd.hit, cmd.batch} /\ cmd'.batch = Absent
    <3>1. /\ cmd \in CommandState /\ cmd' \in CommandState
          /\ UNCHANGED <<tiers, serve, served, buffered, touched>>
          /\ Only({"hit", "batch", "overtaken", "faults"}, cmd, cmd')
          /\ cmd.overtaken => cmd'.overtaken
          /\ \/ cmd.at \in {"size"} \cup Deleting /\ cmd.hit # Absent
             \/ cmd.batch # Absent /\ cmd'.hit \in {cmd.hit, cmd.batch} /\ cmd'.batch = Absent
      BY <1>6, FlushingFacts
    <3>2. CourseOf(cmd)
      BY <3>1, NotIdle
    <3>3. cmd.at \notin {"walk", "get"}
      BY <3>1, <3>2 DEF CourseOf, Deleting
    <3> QED
      BY <3>1, <3>3 DEF Simple
  <2>2. /\ cmd'.at = cmd.at /\ cmd'.byKey = cmd.byKey /\ cmd'.walk = cmd.walk /\ cmd'.key = cmd.key
        /\ cmd'.op = cmd.op /\ cmd'.dry = cmd.dry /\ cmd'.indexed = cmd.indexed
        /\ cmd'.dropped = cmd.dropped /\ Only(Locals, cmd, cmd')
    BY <2>1 DEF Only, Fields, Locals
  <2>3. CourseOf(cmd) => CourseOf(cmd')
    BY <2>1, <2>2 DEF CourseOf
  <2> QED
    BY <2>1, <2>2, <2>3, SimplyGoes DEF Simple
<1>7. CASE Close
  <2>1. /\ Simple /\ Only({"at", "faults", "dropped"}, cmd, cmd') /\ cmd'.at = "done"
        /\ cmd.dropped \subseteq cmd'.dropped /\ cmd.batch = Absent
    BY <1>7, CloseFacts DEF Simple
  <2>2. Only(Locals, cmd, cmd') /\ cmd'.hit = cmd.hit /\ cmd'.batch = cmd.batch /\ cmd'.overtaken = cmd.overtaken
    BY <2>1 DEF Only, Fields, Locals
  <2> QED
    BY <1>1, <2>1, <2>2
<1>8. CASE DeleteRow \/ DropHit
  <2>1. CASE DeleteRow
    <3>1. /\ Simple /\ Only({"at", "out", "faults", "dropped"}, cmd, cmd')
          /\ cmd.at \in {"deleteRow", "raced"} /\ cmd'.at \in {"delete", "dropHit"}
          /\ cmd.dropped \subseteq cmd'.dropped
      BY <2>1, DeleteRowFacts DEF Simple
    <3>2. Only(Locals, cmd, cmd') /\ cmd'.hit = cmd.hit /\ cmd'.batch = cmd.batch /\ cmd'.overtaken = cmd.overtaken
      BY <3>1 DEF Only, Fields, Locals
    <3> QED
      BY <1>1, <3>1, <3>2 DEF Deleting
  <2>2. CASE DropHit
    <3>1. /\ Simple /\ Only({"at", "hit", "overtaken"}, cmd, cmd') /\ cmd'.hit = Absent
          /\ cmd.at = "dropHit" /\ cmd'.at = "delete" /\ (cmd.overtaken => cmd'.overtaken)
      BY <2>2, DropHitFacts DEF Simple
    <3>2. Only(Locals, cmd, cmd') /\ cmd'.batch = cmd.batch /\ cmd'.dropped = cmd.dropped
      BY <3>1 DEF Only, Fields, Locals
    <3> QED
      BY <1>1, <3>1, <3>2 DEF Deleting
  <2> QED
    BY <1>8, <2>1, <2>2
<1>9. CASE DeletesEnd \/ OrphansEnd
  <2>1. Simple /\ Only({"at"}, cmd, cmd') /\ cmd'.at = "close"
    BY <1>9, EndFacts DEF Simple
  <2> QED
    BY <1>1, <1>2, <2>1 DEF Locals
<1>10. CASE Upsert
  <2>1. /\ Simple /\ Only({"at", "updated", "inserted", "ok", "faults"}, cmd, cmd')
        /\ cmd.at = "upsert" /\ cmd'.at \in {"walk", "close"}
    BY <1>10, UpsertFacts DEF Simple, Only
  <2> QED
    BY <1>1, <1>2, <2>1 DEF Locals, Deleting
<1>11. CASE AllKeys
  <2>1. cmd \in CommandState /\ cmd.at = "keys"
    BY <1>11, AllKeysFacts
  <2>2. cmd.op = "reindex"
    BY <2>1, NotIdle DEF CourseOf
  <2>3. /\ Simple
        /\ Only({"at", "ok", "faults", "out", "inserted", "updated", "removed", "left"}, cmd, cmd')
        /\ cmd'.at \in {"orphans", "close"}
    BY <1>11, AllKeysFacts DEF Simple, Only
  <2> QED
    BY <1>1, <1>2, <2>1, <2>2, <2>3 DEF Locals, Deleting
<1>12. ASSUME NEW k \in Keys, DeleteOrphan(k) PROVE GoesOn /\ UNCHANGED tiers
  <2>1. cmd \in CommandState /\ cmd.at = "orphans"
    BY <1>12, DeleteOrphanFacts
  <2>2. cmd.op = "reindex"
    BY <2>1, NotIdle DEF CourseOf
  <2>3. /\ Simple /\ Only({"left", "removed", "at", "ok", "faults"}, cmd, cmd')
        /\ cmd'.at = "close" \/ Only({"left", "removed"}, cmd, cmd')
    BY <1>12, DeleteOrphanFacts DEF Simple, Only
  <2>4. cmd'.at \in {"orphans", "close"}
    BY <2>1, <2>3 DEF Only, Fields
  <2> QED
    BY <1>1, <1>2, <2>1, <2>2, <2>3, <2>4 DEF Locals, Deleting
<1> QED
  BY <1>3, <1>4, <1>5, <1>6, <1>7, <1>8, <1>9, <1>10, <1>11, <1>12

LEMMA RowsStep ==
    ASSUME TypeInv, Going
    PROVE  rows' \in [Keys -> Values("body")]
<1> USE DEF TypeInv
<1>1. rows \in [Keys -> Values("body")] /\ Absent \in Values("body")
  BY DEF CommandsType, Values
<1>2. CASE UNCHANGED rows
  BY <1>1, <1>2
<1>3. ASSUME cmd \in CommandState, UpsertRow(cmd.hit) \/ UpsertRow(cmd.batch)
      PROVE  rows' \in [Keys -> Values("body")]
  <2>1. cmd.hit \in Values("body") /\ cmd.batch \in Values("body") /\ cmd.key \in Keys
    BY <1>3 DEF CommandState
  <2> QED
    BY <1>1, <1>3, <2>1 DEF UpsertRow
<1>4. CASE Query \/ WalkEnds \/ DeletesEnd \/ AllKeys \/ OrphansEnd
  BY <1>2, <1>4, QueryFacts, WalkEndsFacts, EndFacts, AllKeysFacts
<1>5. CASE List \/ RecordHit \/ ExistsForShow \/ Size \/ DeleteFile
           \/ \E k \in Keys : DeleteNext(k)
  BY <1>2, <1>5, CallGoes
<1>6. CASE Fill
  BY <1>2, <1>6, FillFacts
<1>7. CASE \E k \in Keys : Read(k)
  BY <1>2, <1>7, ReadFacts
<1>8. CASE DropOrphan
  BY <1>1, <1>8, DropOrphanFacts
<1>9. CASE Flushing
  BY <1>2, <1>3, <1>9, FlushingFacts
<1>10. CASE Close
  BY <1>1, <1>3, <1>10, CloseFacts
<1>11. CASE DeleteRow \/ DropHit
  BY <1>1, <1>2, <1>11, DeleteRowFacts, DropHitFacts
<1>12. CASE Upsert
  <2>1. cmd \in CommandState
    BY <1>12, UpsertFacts
  <2>2. cmd.size \in Values("body")
    BY <2>1 DEF CommandState, Values
  <2> QED
    BY <1>1, <1>12, <2>2, UpsertFacts
<1>13. CASE \E k \in Keys : DeleteOrphan(k)
  BY <1>1, <1>13, DeleteOrphanFacts
<1> QED
  BY <1>4, <1>5, <1>6, <1>7, <1>8, <1>9, <1>10, <1>11, <1>12, <1>13 DEF Going, Flushing

\* The tiers after a delete of a file.
LEMMA DeletedTiers ==
    ASSUME TypeInv, DeleteFile
    PROVE  /\ cmd \in CommandState /\ cmd.key \in Keys /\ cmd.part \in Parts
           /\ \E F \in FailingTiers :
                 /\ WrittenAs(tiers', Tiers \ F, cmd.key, cmd.part, Absent)
                 /\ \/ /\ F # {} /\ Only({"at", "ok", "faults"}, cmd, cmd')
                       /\ cmd'.at = "delete" /\ ~cmd'.ok
                    \/ /\ F = {} /\ cmd.part = "meta" /\ Only({"part", "faults"}, cmd, cmd')
                       /\ cmd'.part = "body"
                    \/ /\ F = {} /\ cmd.part = "body" /\ Only({"at", "faults"}, cmd, cmd')
                       /\ cmd'.at = "deleteRow"
<1>1. cmd \in CommandState /\ cmd.key \in Keys /\ cmd.part \in Parts
  BY DeleteFileFacts DEF TypeInv, CommandState
<1>2. PICK F \in FailingTiers :
        /\ tiers' = Written(Tiers \ F, cmd.key, cmd.part, Absent)
        /\ \/ /\ F # {} /\ Only({"at", "ok", "faults"}, cmd, cmd')
              /\ cmd'.at = "delete" /\ ~cmd'.ok
           \/ /\ F = {} /\ cmd.part = "meta" /\ Only({"part", "faults"}, cmd, cmd')
              /\ cmd'.part = "body"
           \/ /\ F = {} /\ cmd.part = "body" /\ Only({"at", "faults"}, cmd, cmd')
              /\ cmd'.at = "deleteRow"
  BY DeleteFileFacts DEF TypeInv
<1>3. tiers \in [Tiers -> [Keys -> Objects]] /\ Absent \in Values(cmd.part)
  BY DEF TypeInv, CommandsType, Values
<1> DEFINE T == Tiers \ F
<1> HIDE DEF T
<1>4. WrittenAs(Written(T, cmd.key, cmd.part, Absent), T, cmd.key, cmd.part, Absent)
  BY <1>1, <1>3, WrittenFacts, Zenon
<1> QED
  BY <1>1, <1>2, <1>4 DEF T

LEMMA GoingType ==
    ASSUME TypeInv, Going
    PROVE  TypeInv' /\ GoesOn
<1>1. GoesOn
  BY ReadGoes, FillGoes, CallGoes, LocalGoes DEF Going, Flushing
<1>2. tiers' \in [Tiers -> [Keys -> Objects]]
  <2>1. tiers \in [Tiers -> [Keys -> Objects]]
    BY DEF TypeInv, CommandsType
  <2>2. CASE Fill
    BY <2>2, FillGoes DEF FilledAs
  <2>3. CASE DeleteFile
    BY <2>3, DeletedTiers DEF WrittenAs
  <2>4. CASE List \/ RecordHit \/ ExistsForShow \/ Size \/ \E k \in Keys : DeleteNext(k)
    BY <2>1, <2>4, ListFacts, RecordHitFacts, SizeStepFacts, DeleteNextFacts
       DEF ExistsForShow, TypeInv
  <2> QED
    BY <2>1, <2>2, <2>3, <2>4, LocalGoes, ReadGoes DEF Going, Flushing
<1>3. cmd # Idle /\ cmd' # Idle
  BY <1>1, NotIdle DEF GoesOn
<1>4. CourseOf(cmd') /\ HandOf(cmd')
  BY <1>1, <1>3 DEF TypeInv, CommandsType, InHand, GoesOn, Follows
<1>5. rows' \in [Keys -> Values("body")]
  BY RowsStep
<1>6. CommandsType'
  BY <1>1, <1>2, <1>4, <1>5 DEF TypeInv, CommandsType, InHand, GoesOn
<1> QED
  BY <1>1, <1>4, <1>6 DEF TypeInv

LEMMA BeginType ==
    ASSUME TypeInv, NEW i \in Invocations, Begin(i)
    PROVE  TypeInv'
<1>1. /\ cmd = Idle /\ cmd' \in CommandState /\ BegunAs(i, cmd') /\ touched' = {}
      /\ UNCHANGED <<tiers, rows, serve, served, buffered>>
  BY BeginFacts
<1>2. HandOf(cmd')
  BY <1>1 DEF BegunAs, FreshAs, HandOf
<1>3. CourseOf(cmd')
  <2>1. /\ i.byKey => \E k \in Keys : i.walk = {k}
        /\ i.op = "reindex" => ~i.byKey
    BY CommandsAssumption
  <2> QED
    BY <1>1, <2>1 DEF BegunAs, FreshAs, CourseOf, Deleting
<1> QED
  BY <1>1, <1>2, <1>3 DEF TypeInv, CommandsType, InHand

\* What a step of serve does to the tiers and to the rows, and what it notes.
ServeWrites ==
    /\ cmd' = cmd /\ touched \subseteq touched'
    /\ \/ tiers' = tiers
       \/ \E k \in Keys, part \in Parts, T \in SUBSET Nat : \E v \in Values(part) :
             /\ WrittenAs(tiers', T, k, part, v)
             /\ \/ <<k, "put">> \in touched'
                \/ T = Tiers /\ v = Absent /\ <<k, "delete">> \in touched'
                \/ /\ serve.at = "fill" /\ T = 1..serve.span /\ k = serve.key
                   /\ part = serve.part /\ v = serve.data /\ <<k, "fill">> \in touched'
    /\ \A k \in Keys : \/ rows'[k] = rows[k]
                       \/ <<k, "put">> \in touched' \/ <<k, "row">> \in touched'
                       \/ <<k, "delete">> \in touched' /\ rows'[k] = Absent

\* The rest of the type.
ServeTypes ==
    /\ tiers' \in [Tiers -> [Keys -> Objects]]
    /\ rows' \in [Keys -> Values("body")]
    /\ served' \in 0..MaxServed
    /\ buffered' \in [Keys -> Values("body")]
    /\ touched' \subseteq Keys \X {"put", "fill", "delete", "row"}
    /\ serve' \in ServeState
    /\ serve'.at = "fill" => serve'.data \in Values(serve'.part) /\ serve'.data # Absent

LEMMA ServeReadFacts ==
    ASSUME TypeInv, NEW k \in Keys, NEW part \in Parts, ServeRead(k, part)
    PROVE  /\ serve' \in ServeState
           /\ serve'.at \in {"dropRow", "fill", "getBody", "hit", "idle"}
           /\ serve'.at = "fill" =>
                 /\ serve'.key = k /\ serve'.part = part
                 /\ serve'.data \in Values(part) /\ serve'.data # Absent
                 /\ serve'.data = VisibleIn(tiers, k, part) /\ serve'.span + 1 \in Tiers
                 /\ tiers[serve'.span + 1][k][part] = serve'.data
                 /\ \A t \in 1..serve'.span : tiers[t][k][part] = Absent
<1> DEFINE H == Holding(k, part, {})
           m == Min(H)
           v == tiers[m][k][part]
<1>1. serve' = CASE H = {} -> [at |-> "dropRow", key |-> k]
                 [] H # {} /\ m > 1 ->
                        [at |-> "fill", key |-> k, part |-> part, span |-> m - 1, data |-> v]
                 [] H # {} /\ m = 1 -> ServeGot(k, part, tiers[1][k][part])
  BY DEF ServeRead
<1>2. H # {} => /\ m \in Tiers /\ v # Absent
                /\ \A t \in Tiers : t < m => tiers[t][k][part] = Absent
  BY HoldingFacts
<1> HIDE DEF H, m
<1>3. CASE H = {}
  <2>1. serve' = [at |-> "dropRow", key |-> k]
    BY <1>1, <1>3
  <2> QED
    BY <2>1 DEF ServeState
<1>4. CASE H # {} /\ m = 1
  <2>1. serve' = ServeGot(k, part, tiers[1][k][part])
    BY <1>1, <1>4
  <2> QED
    BY <2>1 DEF ServeGot, ServeState, Idle, Parts
<1>5. CASE H # {} /\ m # 1
  <2>1. m \in Tiers /\ m > 1 /\ m - 1 \in Tiers /\ m \in Nat
    BY <1>2, <1>5, Basics
  <2>2. tiers[m][k] \in Objects
    BY <2>1 DEF TypeInv, CommandsType
  <2>3. v \in Values(part)
    BY <2>2 DEF Objects, Values, Parts
  <2> DEFINE s == m - 1
  <2>4. s + 1 = m /\ s \in Tiers
    BY <2>1
  <2>5. \A t \in 1..s : t \in Tiers /\ t < m
    BY <2>1, Basics
  <2>6. v = VisibleIn(tiers, k, part)
    BY <1>5, VisibleIs DEF Visible, H, m
  <2>7. serve' = [at |-> "fill", key |-> k, part |-> part, span |-> s, data |-> v]
    BY <1>1, <1>5, <2>1
  <2> HIDE DEF s
  <2>8. v \in Values("meta") \cup Values("body")
    BY <2>3 DEF Parts
  <2>9. /\ serve'.at = "fill" /\ serve'.key = k /\ serve'.part = part /\ serve'.span = s
        /\ serve'.data = v
    BY <2>7
  <2>10. serve' \in ServeState
    BY <2>4, <2>7, <2>8 DEF ServeState
  <2> QED
    BY <1>2, <1>5, <2>3, <2>4, <2>5, <2>6, <2>9, <2>10
<1> QED
  BY <1>3, <1>4, <1>5

LEMMA ServeGetGoes ==
    ASSUME TypeInv, (\E k \in Keys : ServeGet(k)) \/ ServeGetBody
    PROVE  ServeWrites /\ ServeTypes
<1>1. PICK k \in Keys, part \in Parts :
        /\ ServeRead(k, part) /\ served' \in 0..MaxServed
        /\ UNCHANGED <<tiers, rows, cmd, buffered, touched>>
  <2>1. CASE ServeGetBody
    <3>1. serve.key \in Keys
      BY <2>1, ServeIs DEF ServeGetBody, TypeInv
    <3> QED
      BY <2>1, <3>1 DEF ServeGetBody, TypeInv, CommandsType, Parts
  <2>2. CASE \E k \in Keys : ServeGet(k)
    <3>1. PICK k \in Keys : ServeGet(k)
      BY <2>2
    <3>2. served' \in 0..MaxServed
      BY <3>1, Basics DEF ServeGet, Begun, TypeInv, CommandsType
    <3> QED
      BY <3>1, <3>2 DEF ServeGet, Parts
  <2> QED
    BY <2>1, <2>2
<1>2. /\ serve' \in ServeState
      /\ serve'.at = "fill" => serve'.data \in Values(serve'.part) /\ serve'.data # Absent
  BY <1>1, ServeReadFacts
<1> QED
  BY <1>1, <1>2 DEF ServeWrites, ServeTypes, TypeInv, CommandsType

LEMMA ServePutGoes ==
    ASSUME TypeInv, (\E k \in Keys : ServePut(k)) \/ ServePutBody \/ ServeInsert
    PROVE  ServeWrites /\ ServeTypes
<1>0. tiers \in [Tiers -> [Keys -> Objects]] /\ Tiers \in SUBSET Nat
  BY Basics DEF TypeInv, CommandsType
<1>1. ASSUME NEW k \in Keys, ServePut(k) PROVE ServeWrites /\ ServeTypes
  <2>1. PICK size \in Sizes :
          /\ served < MaxServed /\ served' = served + 1
          /\ tiers' = Written(Tiers, k, "meta", Good)
          /\ serve' = [at |-> "putBody", key |-> k, size |-> size]
          /\ touched' = touched \cup {<<k, "put">>}
          /\ UNCHANGED <<rows, cmd, buffered>>
    BY <1>1 DEF ServePut, Begun, Touch
  <2>2. Good \in Values("meta") /\ "meta" \in Parts
    BY DEF Values, Parts
  <2>3. WrittenAs(tiers', Tiers, k, "meta", Good)
    BY <1>0, <2>1, <2>2, WrittenFacts
  <2>4. serve' \in ServeState /\ serve'.at # "fill"
    BY <2>1 DEF ServeState
  <2>5. served' \in 0..MaxServed
    BY <2>1, Basics DEF TypeInv, CommandsType
  <2>6. <<k, "put">> \in touched' /\ touched \subseteq touched'
    BY <2>1
  <2>7. ServeWrites
    BY <1>0, <2>1, <2>2, <2>3, <2>6 DEF ServeWrites
  <2>8. ServeTypes
    BY <1>0, <2>1, <2>3, <2>4, <2>5 DEF ServeTypes, TypeInv, CommandsType, WrittenAs
  <2> QED
    BY <2>7, <2>8
<1>2. CASE ServePutBody
  <2>1. /\ serve \in [at : {"putBody", "insert"}, key : Keys, size : Sizes]
        /\ serve.key \in Keys /\ serve.size \in Sizes
    BY <1>2, ServeIs DEF ServePutBody, TypeInv
  <2>2. /\ tiers' = Written(Tiers, serve.key, "body", serve.size)
        /\ serve' = [serve EXCEPT !.at = "insert"]
        /\ touched' = touched \cup {<<serve.key, "put">>}
        /\ UNCHANGED <<rows, cmd, served, buffered>>
    BY <1>2 DEF ServePutBody, Touch
  <2>3. serve.size \in Values("body") /\ "body" \in Parts
    BY <2>1 DEF Values, Parts
  <2>4. WrittenAs(tiers', Tiers, serve.key, "body", serve.size)
    BY <1>0, <2>1, <2>2, <2>3, WrittenFacts
  <2>5. serve' \in ServeState /\ serve'.at # "fill"
    BY <2>1, <2>2 DEF ServeState
  <2>6. <<serve.key, "put">> \in touched' /\ touched \subseteq touched'
    BY <2>2
  <2>7. ServeWrites
    BY <1>0, <2>1, <2>2, <2>3, <2>4, <2>6 DEF ServeWrites
  <2>8. ServeTypes
    BY <1>0, <2>1, <2>2, <2>4, <2>5 DEF ServeTypes, TypeInv, CommandsType, WrittenAs
  <2> QED
    BY <2>7, <2>8
<1>3. CASE ServeInsert
  <2>1. /\ serve \in [at : {"putBody", "insert"}, key : Keys, size : Sizes]
        /\ serve.key \in Keys /\ serve.size \in Values("body")
    BY <1>3, ServeIs DEF ServeInsert, TypeInv, Values
  <2>2. /\ rows' = [rows EXCEPT ![serve.key] = serve.size] /\ serve' = Idle
        /\ touched' = touched \cup {<<serve.key, "put">>}
        /\ UNCHANGED <<tiers, cmd, served, buffered>>
    BY <1>3 DEF ServeInsert, Touch
  <2>3. serve' \in ServeState /\ serve'.at # "fill"
    BY <2>2 DEF ServeState, Idle
  <2> QED
    BY <2>1, <2>2, <2>3 DEF ServeWrites, ServeTypes, TypeInv, CommandsType
<1> QED
  BY <1>1, <1>2, <1>3

LEMMA ServeFillGoes ==
    ASSUME TypeInv, ServeFill
    PROVE  ServeWrites /\ ServeTypes
<1>1. /\ serve \in [at : {"fill"}, key : Keys, part : Parts, span : Tiers,
                    data : Values("meta") \cup Values("body")]
      /\ serve.at = "fill" /\ serve.data \in Values(serve.part)
  BY ServeIs DEF ServeFill, TypeInv, CommandsType, InHand
<1>2. serve.key \in Keys /\ serve.part \in Parts /\ serve.span \in Tiers
  BY <1>1
<1>3. /\ tiers' = Written(1..serve.span, serve.key, serve.part, serve.data)
      /\ serve' = ServeGot(serve.key, serve.part, serve.data)
      /\ touched' = touched \cup {<<serve.key, "fill">>}
      /\ UNCHANGED <<rows, cmd, served, buffered>>
  BY DEF ServeFill, Touch
<1> DEFINE T == 1..serve.span
<1>4. T \in SUBSET Nat
  BY <1>2, Basics
<1> HIDE DEF T
<1>5. tiers \in [Tiers -> [Keys -> Objects]]
  BY DEF TypeInv, CommandsType
<1>6. WrittenAs(Written(T, serve.key, serve.part, serve.data), T, serve.key, serve.part, serve.data)
  BY <1>1, <1>2, <1>5, WrittenFacts, Zenon
<1>7. WrittenAs(tiers', T, serve.key, serve.part, serve.data)
  BY <1>3, <1>6 DEF T
<1>8. <<serve.key, "fill">> \in touched' /\ touched \subseteq touched'
  BY <1>3
<1>9. serve' \in ServeState /\ serve'.at # "fill"
  BY <1>2, <1>3 DEF ServeGot, ServeState, Idle, Parts
<1>10. ServeWrites
  <2>1. T = 1..serve.span
    BY DEF T
  <2> QED
    BY <1>1, <1>2, <1>3, <1>4, <1>7, <1>8, <2>1 DEF ServeWrites
<1>11. ServeTypes
  BY <1>2, <1>3, <1>7, <1>9 DEF ServeTypes, TypeInv, CommandsType, WrittenAs
<1> QED
  BY <1>10, <1>11

LEMMA ServeIndexGoes ==
    ASSUME TypeInv, ServeHit \/ ServeFlush \/ ServeDropRow
    PROVE  ServeWrites /\ ServeTypes
<1>1. CASE ServeHit
  <2>1. serve.key \in Keys
    BY <1>1, ServeIs DEF ServeHit, TypeInv
  <2> DEFINE n == BodySize(serve.key, {})
  <2>2. n \in Sizes \cup {0, Absent}
    BY <2>1, SizeFacts DEF TypeInv
  <2>3. /\ buffered' = [buffered EXCEPT ![serve.key] = IF n = Absent THEN 0 ELSE n]
        /\ serve' = Idle /\ UNCHANGED <<tiers, rows, cmd, served, touched>>
    BY <1>1 DEF ServeHit
  <2> HIDE DEF n
  <2>4. buffered' \in [Keys -> Values("body")]
    BY <2>2, <2>3 DEF TypeInv, CommandsType, Values
  <2> QED
    BY <2>3, <2>4 DEF ServeWrites, ServeTypes, TypeInv, CommandsType, ServeState, Idle
<1>2. CASE ServeFlush
  <2>1. /\ rows' = [k \in Keys |-> IF rows[k] = Absent THEN buffered[k] ELSE rows[k]]
        /\ touched' = touched \cup {<<k, "row">> : k \in {j \in Keys : rows'[j] # rows[j]}}
        /\ buffered' = [k \in Keys |-> Absent] /\ UNCHANGED <<tiers, cmd, serve, served>>
    BY <1>2 DEF ServeFlush
  <2>2. /\ rows' \in [Keys -> Values("body")] /\ buffered' \in [Keys -> Values("body")]
    BY <2>1 DEF TypeInv, CommandsType, Values
  <2>3. touched' \subseteq Keys \X {"put", "fill", "delete", "row"}
    BY <2>1 DEF TypeInv, CommandsType
  <2>4. touched \subseteq touched' /\ \A k \in Keys : rows'[k] = rows[k] \/ <<k, "row">> \in touched'
    BY <2>1
  <2> QED
    BY <2>1, <2>2, <2>3, <2>4 DEF ServeWrites, ServeTypes, TypeInv, CommandsType, InHand
<1>3. CASE ServeDropRow
  <2>1. serve.key \in Keys
    BY <1>3, ServeIs DEF ServeDropRow, TypeInv
  <2>2. /\ rows' = [rows EXCEPT ![serve.key] = Absent] /\ serve' = Idle
        /\ buffered' = [buffered EXCEPT ![serve.key] = Absent]
        /\ touched' = touched \cup {<<serve.key, "delete">>}
        /\ UNCHANGED <<tiers, cmd, served>>
    BY <1>3 DEF ServeDropRow, Touch
  <2>3. /\ rows' \in [Keys -> Values("body")] /\ buffered' \in [Keys -> Values("body")]
    BY <2>2 DEF TypeInv, CommandsType, Values
  <2>4. \A k \in Keys : rows'[k] = rows[k] \/ (k = serve.key /\ rows'[k] = Absent)
    BY <2>2 DEF TypeInv, CommandsType
  <2>5. serve' \in ServeState /\ serve'.at # "fill"
    BY <2>2 DEF ServeState, Idle
  <2>6. touched \subseteq touched' /\ <<serve.key, "delete">> \in touched'
    BY <2>2
  <2>7. ServeWrites
    BY <2>2, <2>4, <2>6 DEF ServeWrites
  <2>8. ServeTypes
    BY <2>1, <2>2, <2>3, <2>5 DEF ServeTypes, TypeInv, CommandsType
  <2> QED
    BY <2>7, <2>8
<1> QED
  BY <1>1, <1>2, <1>3

LEMMA ServeDeleteGoes ==
    ASSUME TypeInv, (\E k \in Keys : ServeDelete(k)) \/ ServeDeleteBody
    PROVE  ServeWrites /\ ServeTypes
<1>0. tiers \in [Tiers -> [Keys -> Objects]] /\ Tiers \in SUBSET Nat
  BY Basics DEF TypeInv, CommandsType
<1>1. ASSUME NEW k \in Keys, NEW part \in Parts, tiers' = Written(Tiers, k, part, Absent),
             touched' = touched \cup {<<k, "delete">>}, serve' \in ServeState, serve'.at # "fill",
             served' \in 0..MaxServed, UNCHANGED <<rows, cmd, buffered>>
      PROVE  ServeWrites /\ ServeTypes
  <2>1. Absent \in Values(part)
    BY DEF Values
  <2>2. WrittenAs(tiers', Tiers, k, part, Absent)
    BY <1>0, <1>1, <2>1, WrittenFacts
  <2>3. <<k, "delete">> \in touched' /\ touched \subseteq touched'
    BY <1>1
  <2>4. ServeWrites
    BY <1>0, <1>1, <2>1, <2>2, <2>3 DEF ServeWrites
  <2>5. ServeTypes
    BY <1>1, <2>2 DEF ServeTypes, TypeInv, CommandsType, WrittenAs
  <2> QED
    BY <2>4, <2>5
<1>2. ASSUME NEW k \in Keys, ServeDelete(k) PROVE ServeWrites /\ ServeTypes
  <2>1. served' \in 0..MaxServed
    BY <1>2, Basics DEF ServeDelete, Begun, TypeInv, CommandsType
  <2>2. CASE Holding(k, "meta", {}) = {}
    <3>1. /\ serve' = [at |-> "dropRow", key |-> k]
          /\ UNCHANGED <<tiers, touched, rows, cmd, buffered>>
      BY <1>2, <2>2 DEF ServeDelete
    <3> QED
      BY <2>1, <3>1 DEF ServeWrites, ServeTypes, TypeInv, CommandsType, ServeState
  <2>3. CASE Holding(k, "meta", {}) # {}
    <3>1. /\ serve' = [at |-> "deleteBody", key |-> k]
          /\ tiers' = Written(Tiers, k, "meta", Absent)
          /\ touched' = touched \cup {<<k, "delete">>}
          /\ UNCHANGED <<rows, cmd, buffered>>
      BY <1>2, <2>3 DEF ServeDelete, Touch
    <3>2. serve' \in ServeState /\ serve'.at # "fill" /\ "meta" \in Parts
      BY <3>1 DEF ServeState, Parts
    <3> QED
      BY <1>1, <2>1, <3>1, <3>2
  <2> QED
    BY <2>2, <2>3
<1>3. CASE ServeDeleteBody
  <2>1. serve.key \in Keys
    BY <1>3, ServeIs DEF ServeDeleteBody, TypeInv
  <2>2. /\ serve' = [at |-> "dropRow", key |-> serve.key]
        /\ tiers' = Written(Tiers, serve.key, "body", Absent)
        /\ touched' = touched \cup {<<serve.key, "delete">>}
        /\ UNCHANGED <<rows, cmd, served, buffered>>
    BY <1>3 DEF ServeDeleteBody, Touch
  <2>3. serve' \in ServeState /\ serve'.at # "fill" /\ "body" \in Parts
    BY <2>1, <2>2 DEF ServeState, Parts
  <2>4. served' \in 0..MaxServed
    BY <2>2 DEF TypeInv, CommandsType
  <2> QED
    BY <1>1, <2>1, <2>2, <2>3, <2>4
<1> QED
  BY <1>2, <1>3

LEMMA ServeGoes ==
    ASSUME TypeInv, Serve
    PROVE  ServeWrites /\ ServeTypes /\ TypeInv'
<1>1. ServeWrites /\ ServeTypes
  BY ServeGetGoes, ServePutGoes, ServeFillGoes, ServeIndexGoes, ServeDeleteGoes DEF Serve
<1> QED
  BY <1>1 DEF ServeWrites, ServeTypes, TypeInv, CommandsType, InHand

-----------------------------------------------------------------------------

LEMMA TypeInit == Init => TypeInv
<1> SUFFICES ASSUME Init PROVE TypeInv
  OBVIOUS
<1>1. tiers \in [Tiers -> [Keys -> Objects]] /\ rows \in [Keys -> Sizes \cup {Absent}]
  BY CommandsAssumption DEF Init
<1>2. 0 \in 0..MaxServed /\ serve.at = "idle"
  BY Basics DEF Init, Idle
<1> QED
  BY <1>1, <1>2 DEF Init, TypeInv, CommandsType, InHand, ServeState, Values

LEMMA TypeStep == TypeInv /\ [Next]_vars => TypeInv'
<1> SUFFICES ASSUME TypeInv, [Next]_vars PROVE TypeInv'
  OBVIOUS
<1>1. CASE \E i \in Invocations : Begin(i)
  BY <1>1, BeginType
<1>2. CASE Going
  BY <1>2, GoingType
<1>3. CASE Serve
  BY <1>3, ServeGoes
<1>4. CASE UNCHANGED vars
  BY <1>4 DEF vars, TypeInv, CommandsType, InHand
<1> QED
  BY <1>1, <1>2, <1>3, <1>4 DEF Next, CommandStep, Going

LEMMA TypeHolds == Spec => []TypeInv
  BY TypeInit, TypeStep, PTL DEF Spec

\* The command, serve, the tiers and the index hold what their code can put
\* there; a row or a buffered hit never has a size below zero, and no more calls
\* fail than the bound allows.
THEOREM CommandsTypeCorrect == Spec => []TypeOK
<1>1. TypeInv => TypeOK
  <2> SUFFICES ASSUME TypeInv PROVE TypeOK
    OBVIOUS
  <2>1. cmd # Idle => /\ cmd.op \in {"invalidate", "list", "show", "reindex"}
                      /\ cmd.faults <= MaxFaults
    BY Basics DEF TypeInv, CommandsType, CommandState
  <2> QED
    BY <2>1 DEF TypeOK, TypeInv, CommandsType, Values
<1> QED
  BY <1>1, TypeHolds, PTL

-----------------------------------------------------------------------------
(* What a read sees stays, as long as nobody changes the entry.              *)

ToDelete(c, k) == c.op = "invalidate" /\ ~c.dry /\ k \in c.walk

\* For the key k, the command c has dropped no error, the acts T of serve are
\* reads, and c has not begun to delete k.
Undisturbed(c, T, k) ==
    /\ "storage" \notin c.dropped
    /\ <<k, "put">> \notin T /\ <<k, "delete">> \notin T
    /\ c.at \in BeforeDeletes \/ ~ToDelete(c, k) \/ k \in c.left

\* An invalidation deletes what its filter matches.
ChoiceOf(c) ==
    c.op = "invalidate" =>
        /\ c.found \subseteq c.walk /\ c.left \subseteq c.walk
        /\ c.at \in {"deleteFile", "deleteRow", "raced", "dropHit"} => c.key \in c.walk \ c.left

SeenInv ==
    /\ cmd # Idle =>
          /\ ChoiceOf(cmd)
          /\ cmd.span > 0 /\ Undisturbed(cmd, touched, cmd.key) =>
                VisibleIn(tiers, cmd.key, cmd.part) = cmd.data
          /\ \A k \in Keys : Undisturbed(cmd, touched, k) =>
                (VisibleIn(tiers, k, "meta") = Good <=> k \in cmd.start.readable)
    /\ serve.at = "fill" /\ (cmd # Idle => Undisturbed(cmd, touched, serve.key)) =>
          VisibleIn(tiers, serve.key, serve.part) = serve.data

\* An operation of serve that writes the objects it has read.
LEMMA FilledSees ==
    ASSUME tiers \in [Tiers -> [Keys -> Objects]], NEW s \in Tiers,
           NEW k \in Keys, NEW part \in Parts, NEW v, v # Absent,
           VisibleIn(tiers, k, part) = v,
           tiers'[1][k][part] = v
    PROVE  VisibleIn(tiers', k, part) = v
<1>1. 1 \in Tiers /\ \A t \in Tiers : ~(t < 1)
  BY Basics
<1> QED
  BY <1>1, VisibleFirst

\* The deletes do not begin again, and what is left to delete only shrinks.
LEMMA NeverBack ==
    ASSUME TypeInv, Going, cmd.at \notin BeforeDeletes
    PROVE  cmd'.at \notin BeforeDeletes /\ cmd'.left \subseteq cmd.left
<1>1. CASE Flushing
  <2>1. cmd'.at = cmd.at /\ cmd'.left = cmd.left
    BY <1>1, FlushingFacts DEF Only, Fields, TypeInv
  <2> QED
    BY <2>1
<1>2. CASE Close
  BY <1>2, CloseFacts DEF TypeInv, BeforeDeletes, Only, Fields
<1>3. ASSUME NEW k \in Keys, DeleteNext(k)
      PROVE  cmd'.at \notin BeforeDeletes /\ cmd'.left \subseteq cmd.left
  BY <1>3, DeleteNextFacts DEF TypeInv, BeforeDeletes
<1>4. CASE DeleteFile
  <2>1. /\ cmd.at = "deleteFile" /\ (cmd'.at \in {"delete", "deleteRow"} \/ cmd'.at = cmd.at)
        /\ cmd'.left = cmd.left
    BY <1>4, DeleteFileFacts DEF TypeInv, Only, Fields
  <2> QED
    BY <2>1 DEF BeforeDeletes
<1>5. CASE DeleteRow \/ DropHit
  BY <1>5, DeleteRowFacts, DropHitFacts DEF TypeInv, BeforeDeletes, Only, Fields
<1>6. CASE DeletesEnd
  BY <1>6, EndFacts DEF TypeInv, BeforeDeletes, Only, Fields
<1> QED
  BY <1>1, <1>2, <1>3, <1>4, <1>5, <1>6, ZenonT(30)
     DEF Going, Flushing, Query, ExistsForShow, List, Fill, WalkEnds, DropOrphan, RecordHit, Size, Upsert,
         AllKeys, OrphansEnd, Read, DeleteOrphan, BeforeDeletes

LEMMA UndisturbedBefore ==
    ASSUME TypeInv, Going, NEW k, Undisturbed(cmd', touched', k)
    PROVE  Undisturbed(cmd, touched, k)
<1>1. GoesOn
  BY GoingType
<1>2. /\ cmd'.op = cmd.op /\ cmd'.dry = cmd.dry /\ cmd'.walk = cmd.walk /\ touched' = touched
      /\ cmd.dropped \subseteq cmd'.dropped
  BY <1>1 DEF GoesOn, Kept, Settings
<1> QED
  BY <1>2, NeverBack DEF Undisturbed, ToDelete

\* A fill leaves what a read returns.
LEMMA FillSees ==
    ASSUME TypeInv, SeenInv, Fill, NEW k \in Keys, NEW part \in Parts,
           Undisturbed(cmd, touched, k), "storage" \notin cmd'.dropped
    PROVE  VisibleIn(tiers', k, part) = VisibleIn(tiers, k, part)
<1>1. /\ cmd.span > 0 /\ cmd \in CommandState /\ cmd # Idle
      /\ FilledAs(1..cmd.span, cmd.key, cmd.part, cmd.data, "storage" \notin cmd'.dropped)
  BY FillGoes, NotIdle DEF GoesOn
<1>2. CASE k = cmd.key /\ part = cmd.part
  <2>1. VisibleIn(tiers, k, part) = cmd.data /\ cmd.data # Absent
    BY <1>1, <1>2 DEF SeenInv, TypeInv, CommandsType, InHand, HandOf
  <2>2. 1 \in Tiers /\ 1 \in 1..cmd.span
    <3>1. cmd.span \in Nat
      BY <1>1, Basics DEF CommandState
    <3> QED
      BY <1>1, <3>1, Basics
  <2>3. tiers'[1][k][part] = cmd.data
    BY <1>1, <1>2, <2>2 DEF FilledAs
  <2> QED
    BY <2>1, <2>2, <2>3, FilledSees DEF TypeInv, CommandsType
<1>3. CASE ~(k = cmd.key /\ part = cmd.part)
  <2>1. \A t \in Tiers : tiers'[t][k][part] = tiers[t][k][part]
    BY <1>1, <1>3 DEF FilledAs
  <2> QED
    BY <2>1, VisibleSame
<1> QED
  BY <1>2, <1>3

\* A step of the command leaves what a read returns.
LEMMA GoingSees ==
    ASSUME TypeInv, SeenInv, Going, NEW k \in Keys, NEW part \in Parts,
           Undisturbed(cmd', touched', k)
    PROVE  VisibleIn(tiers', k, part) = VisibleIn(tiers, k, part)
<1>1. GoesOn /\ Undisturbed(cmd, touched, k) /\ cmd # Idle
  BY GoingType, UndisturbedBefore, NotIdle DEF GoesOn
<1>2. CASE Fill
  BY <1>1, <1>2, FillSees DEF Undisturbed
<1>3. CASE DeleteFile
  <2>1. PICK F \in FailingTiers : WrittenAs(tiers', Tiers \ F, cmd.key, cmd.part, Absent)
    BY <1>3, DeletedTiers
  <2>2. /\ cmd.at = "deleteFile" /\ CourseOf(cmd) /\ ChoiceOf(cmd)
    BY <1>1, <1>3 DEF DeleteFile, TypeInv, SeenInv
  <2>3. ToDelete(cmd, cmd.key) /\ cmd.at \notin BeforeDeletes /\ cmd.key \notin cmd.left
    BY <2>2 DEF CourseOf, ChoiceOf, ToDelete, Deleting, BeforeDeletes
  <2>4. k # cmd.key
    BY <1>1, <2>3 DEF Undisturbed
  <2>5. \A t \in Tiers : tiers'[t][k][part] = tiers[t][k][part]
    BY <2>1, <2>4 DEF WrittenAs
  <2> QED
    BY <2>5, VisibleSame
<1>4. CASE UNCHANGED tiers
  BY <1>4
<1>5. UNCHANGED tiers \/ Fill \/ DeleteFile
  BY LocalGoes, ReadGoes, ListFacts, RecordHitFacts, SizeStepFacts, DeleteNextFacts
     DEF Going, Flushing, ExistsForShow, TypeInv
<1> QED
  BY <1>2, <1>3, <1>4, <1>5

\* So does a step of serve.
LEMMA ServeSees ==
    ASSUME TypeInv, SeenInv, Serve, cmd # Idle, NEW k \in Keys, NEW part \in Parts,
           Undisturbed(cmd', touched', k)
    PROVE  /\ Undisturbed(cmd, touched, k)
           /\ VisibleIn(tiers', k, part) = VisibleIn(tiers, k, part)
<1>1. ServeWrites
  BY ServeGoes
<1>2. Undisturbed(cmd, touched, k)
  BY <1>1 DEF ServeWrites, Undisturbed
<1>3. CASE tiers' = tiers
  BY <1>2, <1>3
<1>4. ASSUME NEW j \in Keys, NEW p \in Parts, NEW T \in SUBSET Nat, NEW v \in Values(p),
             WrittenAs(tiers', T, j, p, v),
             \/ <<j, "put">> \in touched'
             \/ T = Tiers /\ v = Absent /\ <<j, "delete">> \in touched'
             \/ /\ serve.at = "fill" /\ T = 1..serve.span /\ j = serve.key
                /\ p = serve.part /\ v = serve.data /\ <<j, "fill">> \in touched'
      PROVE  VisibleIn(tiers', k, part) = VisibleIn(tiers, k, part)
  <2>1. CASE j # k \/ p # part
    <3>1. \A t \in Tiers : tiers'[t][k][part] = tiers[t][k][part]
      BY <1>4, <2>1 DEF WrittenAs
    <3> QED
      BY <3>1, VisibleSame
  <2>2. CASE j = k /\ p = part
    <3>1. /\ serve.at = "fill" /\ T = 1..serve.span /\ k = serve.key
          /\ part = serve.part /\ v = serve.data
      BY <1>4, <2>2 DEF Undisturbed
    <3>2. VisibleIn(tiers, k, part) = v /\ v # Absent
      BY <1>2, <3>1 DEF SeenInv, TypeInv, CommandsType, InHand
    <3>3. serve.span \in Tiers
      BY <3>1, ServeIs DEF TypeInv
    <3>4. 1 \in Tiers /\ 1 \in T
      BY <3>1, <3>3, Basics
    <3>5. tiers'[1][k][part] = v
      BY <1>4, <2>2, <3>4 DEF WrittenAs
    <3> QED
      BY <3>2, <3>4, <3>5, FilledSees DEF TypeInv, CommandsType
  <2> QED
    BY <2>1, <2>2
<1> QED
  BY <1>1, <1>2, <1>3, <1>4 DEF ServeWrites

LEMMA ChoiceStep ==
    ASSUME TypeInv, SeenInv, Going
    PROVE  ChoiceOf(cmd')
<1>1. GoesOn /\ cmd # Idle /\ cmd'.op = cmd.op /\ cmd'.walk = cmd.walk
  BY GoingType, NotIdle DEF GoesOn, Kept, Settings
<1>2. ChoiceOf(cmd) /\ CourseOf(cmd)
  BY <1>1 DEF SeenInv, TypeInv
<1> DEFINE Choosing == {"deleteFile", "deleteRow", "raced", "dropHit"}
<1>3. ASSUME Only({"at", "ok", "out", "faults", "dropped", "truncated", "hit", "batch",
                   "overtaken", "listed", "size",
                   "inserted", "updated", "removed", "data", "span", "part"}, cmd, cmd'),
             cmd'.at \in Choosing => cmd.at \in Choosing
      PROVE  ChoiceOf(cmd')
  <2>1. cmd'.found = cmd.found /\ cmd'.left = cmd.left /\ cmd'.key = cmd.key
    BY <1>3 DEF Only, Fields
  <2> QED
    BY <1>1, <1>2, <1>3, <2>1 DEF ChoiceOf
<1>4. ASSUME cmd.op # "invalidate" PROVE ChoiceOf(cmd')
  BY <1>1, <1>4 DEF ChoiceOf
\* A call whose answer the walk or Cache.Get goes on with.
<1>5. ASSUME NEW c, NEW v, Advanced(c, v, cmd'), c.found = cmd.found, c.left = cmd.left,
             c.op = cmd.op, c.walk = cmd.walk, c.at = cmd.at, cmd.at \in {"walk", "get"},
             cmd.at = "get" => c.key = cmd.key
      PROVE  ChoiceOf(cmd')
  <2>1. CASE cmd' = c
    BY <1>2, <1>5, <2>1 DEF ChoiceOf
  <2>2. CASE Cut(c, cmd') \/ (Only({"at", "ok"}, c, cmd') /\ cmd'.at = "close")
    <3>1. cmd'.found = c.found /\ cmd'.left = c.left /\ cmd'.at = "close"
      BY <2>2 DEF Cut, Only, Fields
    <3> QED
      BY <1>1, <1>2, <1>5, <3>1 DEF ChoiceOf
  <2>3. CASE c.at = "walk" /\ Taken(c, cmd')
    <3>1. /\ cmd'.left = c.left /\ cmd'.found = c.found \cup {c.key} /\ c.key \in c.walk
          /\ cmd'.at \in {"walk", "size"}
      BY <2>3 DEF Taken, Only, Fields
    <3> QED
      BY <1>1, <1>2, <1>5, <3>1 DEF ChoiceOf
  <2>4. CASE c.at = "get" /\ (Only({"part"}, c, cmd') \/ (Only({"at"}, c, cmd') /\ cmd'.at = "hit"))
    <3>1. cmd'.left = c.left /\ cmd'.found = c.found /\ cmd'.at \in {"get", "hit"}
      BY <2>4 DEF Only, Fields
    <3> QED
      BY <1>1, <1>2, <1>5, <3>1 DEF ChoiceOf
  <2>5. CASE c.at = "get" /\ LocatedAs(c, cmd')
    <3>1. cmd.op = "invalidate" => c.walk = {c.key}
      BY <1>2, <1>5, <2>5 DEF CourseOf
    <3>2. cmd.op = "invalidate" => /\ cmd'.found = {c.key} /\ cmd'.at \in {"close", "delete"}
                                   /\ cmd'.left = c.left \/ cmd'.left = {c.key}
      BY <1>5, <2>5 DEF LocatedAs, Only, Fields
    <3> QED
      BY <1>1, <1>2, <1>5, <3>1, <3>2 DEF ChoiceOf
  <2> QED
    BY <1>5, <2>1, <2>2, <2>3, <2>4, <2>5 DEF Advanced
<1>6. ASSUME NEW k \in Keys, Read(k) PROVE ChoiceOf(cmd')
  <2>1. PICK F \in FailingTiers, c \in CommandState :
         /\ AfterCall({"key", "listed", "part"}, F, c) /\ c.key = k
         /\ LET H == Holding(k, c.part, F) IN
            \/ H = {} /\ (\/ GivenUp(c, cmd')
                          \/ /\ c.at = "get" /\ c.indexed
                             /\ Only({"at"}, c, cmd') /\ cmd'.at = "orphan")
            \/ /\ H # {} /\ Min(H) = 1
               /\ Advanced(c, tiers[1][k][c.part], cmd')
            \/ /\ H # {} /\ Min(H) # 1
               /\ Only({"span", "data"}, c, cmd')
               /\ cmd'.span = Min(H) - 1 /\ cmd'.data = tiers[Min(H)][k][c.part]
            \/ F # {} /\ GivenUp(c, cmd')
    BY <1>6, ReadFacts DEF TypeInv
  <2>2. cmd.at \in {"walk", "get"} /\ (cmd.at = "get" => k = cmd.key)
    BY <1>6, ReadFacts DEF TypeInv
  <2>3. /\ c.found = cmd.found /\ c.left = cmd.left
        /\ c.op = cmd.op /\ c.walk = cmd.walk /\ c.at = cmd.at
    BY <2>1 DEF AfterCall, Only, Fields
  <2>4. ASSUME Only({"at", "ok", "span", "data"}, c, cmd'), cmd'.at \in {"close", "orphan", c.at}
        PROVE  ChoiceOf(cmd')
    <3>1. cmd'.left = c.left /\ cmd'.found = c.found
      BY <2>4 DEF Only, Fields
    <3> QED
      BY <1>1, <1>2, <2>2, <2>3, <2>4, <3>1 DEF ChoiceOf
  <2>5. CASE GivenUp(c, cmd') \/ (Only({"at"}, c, cmd') /\ cmd'.at = "orphan")
    <3>1. Only({"at", "ok", "span", "data"}, c, cmd') /\ cmd'.at \in {"close", "orphan", c.at}
      BY <2>5 DEF GivenUp, Only
    <3> QED
      BY <2>4, <3>1
  <2>6. CASE Only({"span", "data"}, c, cmd')
    <3>1. Only({"at", "ok", "span", "data"}, c, cmd') /\ cmd'.at \in {"close", "orphan", c.at}
      BY <2>6 DEF Only, Fields
    <3> QED
      BY <2>4, <3>1
  <2>7. ASSUME NEW v, Advanced(c, v, cmd') PROVE ChoiceOf(cmd')
    BY <1>5, <2>1, <2>2, <2>3, <2>7
  <2> QED
    BY <2>1, <2>5, <2>6, <2>7
<1>7. CASE Fill
  <2>1. PICK F \in FailingTiers, c \in CommandState :
          AfterCall({"span"}, F, c) /\ Advanced(c, cmd.data, cmd')
    BY <1>7, FillFacts DEF TypeInv
  <2>2. cmd.at \in {"walk", "get"}
    BY <1>7, FillFacts DEF TypeInv
  <2>3. /\ c.found = cmd.found /\ c.left = cmd.left /\ c.key = cmd.key
        /\ c.op = cmd.op /\ c.walk = cmd.walk /\ c.at = cmd.at
    BY <2>1 DEF AfterCall, Only, Fields
  <2> QED
    BY <1>5, <2>1, <2>2, <2>3
<1>8. CASE RecordHit
  <2>1. PICK F \in FailingTiers, c \in CommandState :
           Only({"faults", "dropped", "hit"}, cmd, c) /\ LocatedAs(c, cmd')
    BY <1>8, RecordHitFacts DEF TypeInv
  <2>2. cmd.at = "hit"
    BY <1>8, RecordHitFacts DEF TypeInv
  <2>3. /\ c.found = cmd.found /\ c.left = cmd.left /\ c.op = cmd.op /\ c.walk = cmd.walk
        /\ c.key = cmd.key
    BY <2>1 DEF Only, Fields
  <2>4. cmd.op = "invalidate" => cmd.walk = {cmd.key}
    BY <1>2, <2>2 DEF CourseOf
  <2>5. cmd.op = "invalidate" => /\ cmd'.found = {c.key} /\ cmd'.at \in {"close", "delete"}
                                 /\ cmd'.left = c.left \/ cmd'.left = {c.key}
    BY <2>1, <2>3 DEF LocatedAs, Only, Fields
  <2> QED
    BY <1>1, <1>2, <2>3, <2>4, <2>5 DEF ChoiceOf
<1>9. CASE List
  <2>1. Only({"at", "listed"} \cup {"faults", "dropped"}, cmd, cmd') /\ cmd'.at = "walk"
    BY <1>9, ListFacts DEF TypeInv, AfterCall
  <2> QED
    BY <1>3, <2>1 DEF Only
<1>10. CASE WalkEnds
  <2>1. ScannedAs(cmd, cmd')
    BY <1>10, WalkEndsFacts DEF TypeInv
  <2>2. cmd.op = "invalidate" =>
          /\ cmd'.found = cmd.found /\ cmd'.at \in {"close", "delete"}
          /\ cmd'.left = cmd.left \/ cmd'.left = cmd.found
    BY <2>1 DEF ScannedAs, Only, Fields
  <2> QED
    BY <1>1, <1>2, <2>2 DEF ChoiceOf
<1>11. ASSUME NEW k \in Keys, DeleteNext(k) PROVE ChoiceOf(cmd')
  <2>1. /\ cmd'.key = k /\ cmd'.left = cmd.left \ {k} /\ k \in cmd.left
        /\ Only({"at", "key", "left", "part"} \cup {"faults", "dropped"}, cmd, cmd')
    BY <1>11, DeleteNextFacts DEF TypeInv, AfterCall
  <2>2. cmd'.found = cmd.found
    BY <2>1 DEF Only, Fields
  <2> QED
    BY <1>1, <1>2, <2>1, <2>2 DEF ChoiceOf
<1>12. CASE DeleteFile \/ DeleteRow \/ DropHit \/ DeletesEnd \/ Flushing \/ Close \/ DropOrphan
  <2>1. Only({"at", "ok", "out", "faults", "dropped", "hit", "batch", "overtaken", "part"}, cmd, cmd')
    BY <1>12, DeleteFileFacts, DeleteRowFacts, DropHitFacts, EndFacts, FlushingFacts, CloseFacts,
       DropOrphanFacts
       DEF TypeInv, Only
  <2>2. cmd'.at \in Choosing => cmd.at \in Choosing
    <3>1. CASE DeleteFile
      BY <3>1 DEF DeleteFile
    <3>2. CASE Flushing
      BY <3>2, FlushingFacts DEF TypeInv, Only, Fields
    <3> QED
      BY <1>12, <3>1, <3>2, DeleteRowFacts, DropHitFacts, EndFacts, CloseFacts, DropOrphanFacts DEF TypeInv
  <2>3. Only({"at", "ok", "out", "faults", "dropped", "truncated", "hit", "batch",
              "overtaken", "listed", "size", "inserted", "updated", "removed", "data", "span", "part"}, cmd, cmd')
    BY <2>1 DEF Only
  <2> QED
    BY <1>3, <2>2, <2>3
<1>13. CASE \/ Query \/ ExistsForShow \/ Size \/ Upsert \/ AllKeys \/ OrphansEnd
            \/ \E k \in Keys : DeleteOrphan(k)
  <2>1. cmd.at \in {"query", "exists", "size", "upsert", "keys", "orphans"}
    BY <1>13 DEF Query, ExistsForShow, Size, Upsert, AllKeys, OrphansEnd, DeleteOrphan
  <2>2. cmd.op # "invalidate"
    BY <1>2, <2>1 DEF CourseOf
  <2> QED
    BY <1>4, <2>2
<1> QED
  BY <1>6, <1>7, <1>8, <1>9, <1>10, <1>11, <1>12, <1>13 DEF Going, Flushing

\* What the command has in hand after a step, it has just read.
LEMMA HandSeen ==
    ASSUME TypeInv, Going, cmd'.span > 0, "storage" \notin cmd'.dropped
    PROVE  VisibleIn(tiers', cmd'.key, cmd'.part) = cmd'.data
<1>1. CASE \E k \in Keys : Read(k)
  <2>1. PICK k \in Keys : Read(k)
    BY <1>1
  <2>2. PICK F \in FailingTiers, c \in CommandState :
         /\ AfterCall({"key", "listed", "part"}, F, c) /\ c.key = k
         /\ LET H == Holding(k, c.part, F) IN
            \/ H = {} /\ (\/ GivenUp(c, cmd')
                          \/ /\ c.at = "get" /\ c.indexed
                             /\ Only({"at"}, c, cmd') /\ cmd'.at = "orphan")
            \/ /\ H # {} /\ Min(H) = 1
               /\ Advanced(c, tiers[1][k][c.part], cmd')
            \/ /\ H # {} /\ Min(H) # 1
               /\ Only({"span", "data"}, c, cmd')
               /\ cmd'.span = Min(H) - 1 /\ cmd'.data = tiers[Min(H)][k][c.part]
            \/ F # {} /\ GivenUp(c, cmd')
    BY <2>1, ReadFacts DEF TypeInv
  <2>3. cmd.span = 0 /\ tiers' = tiers
    BY <2>1, ReadFacts DEF TypeInv
  <2>4. c.span = 0
    BY <2>2, <2>3 DEF AfterCall, Only, Fields
  <2>5. ASSUME GivenUp(c, cmd') \/ Only({"at"}, c, cmd') PROVE FALSE
    <3>1. cmd'.span = c.span
      BY <2>5 DEF GivenUp, Only, Fields
    <3> QED
      BY <2>4, <3>1
  <2>6. ASSUME NEW v, Advanced(c, v, cmd') PROVE FALSE
    BY <2>4, <2>6, AdvancedKeeps
  <2>7. /\ Holding(k, c.part, F) # {}
        /\ Only({"span", "data"}, c, cmd')
        /\ cmd'.data = tiers[Min(Holding(k, c.part, F))][k][c.part]
    BY <2>2, <2>5, <2>6
  <2>8. cmd'.key = k /\ cmd'.part = c.part /\ cmd'.dropped = c.dropped
    BY <2>2, <2>7 DEF Only, Fields
  <2>9. F = {}
    BY <2>2, <2>8 DEF AfterCall
  <2>10. Visible(k, c.part) = cmd'.data
    BY <2>7, <2>9 DEF Visible
  <2> QED
    BY <2>3, <2>8, <2>10, VisibleIs
<1>2. CASE Fill
  <2>1. PICK c \in CommandState : c.span = 0 /\ Advanced(c, cmd.data, cmd')
    BY <1>2, FillFacts DEF TypeInv
  <2>2. cmd'.span = 0
    BY <2>1, AdvancedKeeps
  <2> QED
    BY <2>2
<1>3. CASE ~((\E k \in Keys : Read(k)) \/ Fill)
  <2>1. cmd # Idle /\ HandOf(cmd) /\ CourseOf(cmd)
    BY GoingType, NotIdle DEF GoesOn, TypeInv, CommandsType, InHand
  <2>2. cmd.at \notin {"walk", "get"} \/ cmd.span = 0
    BY <1>3, <2>1
       DEF Going, Query, ExistsForShow, List, WalkEnds, DropOrphan, SwapHit, CommitHit, RequeueHit,
           Close, DeleteFile, DeleteRow, DropHit, DeletesEnd, RecordHit, Size, Upsert, AllKeys,
           OrphansEnd, DeleteNext, DeleteOrphan, CourseOf, Deleting
  <2>3. cmd.span = 0
    BY <2>1, <2>2 DEF HandOf
  <2>4. cmd'.span = cmd.span
    <3>1. CASE Query
      BY <3>1, QueryFacts DEF TypeInv, QueriedAs, Only, Fields
    <3>2. CASE ExistsForShow
      <4>1. cmd \in CommandState /\ cmd.at = "exists"
        BY <3>2, CommandIs DEF ExistsForShow, TypeInv
      <4>2. cmd.walk # {}
        BY <2>1, <4>1 DEF CourseOf
      <4> QED
        BY <3>2, <4>2, ExistsFacts DEF TypeInv, Only, Fields
    <3>3. CASE List
      BY <3>3, ListFacts DEF TypeInv, AfterCall, Only, Fields
    <3>4. CASE WalkEnds
      BY <3>4, WalkEndsFacts DEF TypeInv, ScannedAs, ResolvedAs, Only, Fields
    <3>5. CASE \/ DropOrphan \/ Flushing \/ Close \/ DeleteRow \/ DropHit \/ DeletesEnd
               \/ OrphansEnd
      BY <3>5, DropOrphanFacts, FlushingFacts, CloseFacts, DeleteRowFacts, DropHitFacts, EndFacts
         DEF TypeInv, Only, Fields
    <3>6. CASE DeleteFile
      BY <3>6, DeleteFileFacts DEF TypeInv, Only, Fields
    <3>7. CASE RecordHit
      BY <3>7, RecordHitFacts DEF TypeInv, LocatedAs, Only, Fields
    <3>8. CASE Size
      BY <3>8, SizeStepFacts DEF TypeInv, AfterCall, Only, Fields
    <3>9. CASE Upsert
      BY <3>9, UpsertFacts DEF TypeInv, Only, Fields
    <3>10. CASE AllKeys
      BY <3>10, AllKeysFacts DEF TypeInv, Only, Fields
    <3>11. ASSUME NEW k \in Keys, DeleteNext(k) PROVE cmd'.span = cmd.span
      BY <3>11, DeleteNextFacts DEF TypeInv, AfterCall, Only, Fields
    <3>12. ASSUME NEW k \in Keys, DeleteOrphan(k) PROVE cmd'.span = cmd.span
      BY <3>12, DeleteOrphanFacts DEF TypeInv, Only, Fields
    <3> QED
      BY <1>3, <3>1, <3>2, <3>3, <3>4, <3>5, <3>6, <3>7, <3>8, <3>9, <3>10, <3>11, <3>12
         DEF Going, Flushing
  <2> QED
    BY <2>3, <2>4
<1> QED
  BY <1>1, <1>2, <1>3

LEMMA SeenGoing ==
    ASSUME TypeInv, SeenInv, Going
    PROVE  SeenInv'
<1>1. GoesOn /\ cmd # Idle /\ TypeInv' /\ cmd'.start = cmd.start /\ serve' = serve
  BY GoingType, NotIdle DEF GoesOn, Kept, Settings
<1>2. ChoiceOf(cmd')
  BY ChoiceStep
<1>3. cmd'.span > 0 /\ Undisturbed(cmd', touched', cmd'.key) =>
         VisibleIn(tiers', cmd'.key, cmd'.part) = cmd'.data
  BY HandSeen DEF Undisturbed
<1>4. ASSUME NEW k \in Keys, Undisturbed(cmd', touched', k)
      PROVE  VisibleIn(tiers', k, "meta") = Good <=> k \in cmd'.start.readable
  <2>1. VisibleIn(tiers', k, "meta") = VisibleIn(tiers, k, "meta")
    BY <1>4, GoingSees DEF Parts
  <2> QED
    BY <1>1, <1>4, <2>1, UndisturbedBefore DEF SeenInv
<1>5. ASSUME serve'.at = "fill", Undisturbed(cmd', touched', serve'.key)
      PROVE  VisibleIn(tiers', serve'.key, serve'.part) = serve'.data
  <2>1. serve.key \in Keys /\ serve.part \in Parts
    BY <1>1, <1>5, ServeIs DEF TypeInv
  <2>2. VisibleIn(tiers', serve.key, serve.part) = VisibleIn(tiers, serve.key, serve.part)
    BY <1>1, <1>5, <2>1, GoingSees
  <2> QED
    BY <1>1, <1>5, <2>2, UndisturbedBefore DEF SeenInv
<1>6. cmd' # Idle
  BY <1>1, NotIdle DEF GoesOn
<1> QED
  BY <1>2, <1>3, <1>4, <1>5, <1>6 DEF SeenInv

LEMMA SeenBegin ==
    ASSUME TypeInv, SeenInv, NEW i \in Invocations, Begin(i)
    PROVE  SeenInv'
<1>1. /\ cmd = Idle /\ cmd' \in CommandState /\ FreshAs(i, cmd')
      /\ UNCHANGED <<tiers, rows, serve, served, buffered>>
      /\ cmd'.at \in {"query", "exists", "get", "list"}
  BY BeginFacts DEF BegunAs
<1>2. ChoiceOf(cmd') /\ cmd'.span = 0
  BY <1>1 DEF FreshAs, ChoiceOf
<1>3. ASSUME NEW k \in Keys
      PROVE  VisibleIn(tiers', k, "meta") = Good <=> k \in cmd'.start.readable
  <2>1. cmd'.start.readable = {j \in Keys : Readable(j)}
    BY <1>1 DEF FreshAs
  <2> QED
    BY <1>1, <2>1, VisibleIs DEF Readable
<1> QED
  BY <1>1, <1>2, <1>3 DEF SeenInv

LEMMA SeenServe ==
    ASSUME TypeInv, SeenInv, Serve
    PROVE  SeenInv'
<1>1. ServeWrites /\ cmd' = cmd
  BY ServeGoes DEF ServeWrites
<1>2. ASSUME serve'.at = "fill", cmd' # Idle => Undisturbed(cmd', touched', serve'.key)
      PROVE  VisibleIn(tiers', serve'.key, serve'.part) = serve'.data
  <2>1. CASE ServeFlush
    <3>1. serve' = serve /\ tiers' = tiers
      BY <2>1 DEF ServeFlush
    <3>2. cmd # Idle => Undisturbed(cmd, touched, serve.key)
      BY <1>1, <1>2, <3>1 DEF ServeWrites, Undisturbed
    <3> QED
      BY <1>2, <3>1, <3>2 DEF SeenInv
  <2>2. CASE \E k \in Keys : ServeGet(k)
    <3>1. PICK k \in Keys : ServeRead(k, "meta") /\ tiers' = tiers
      BY <2>2 DEF ServeGet
    <3> QED
      BY <1>2, <3>1, ServeReadFacts DEF Parts
  <2>3. CASE ServeGetBody
    <3>1. ServeRead(serve.key, "body") /\ tiers' = tiers /\ serve.key \in Keys
      BY <2>3, ServeIs DEF ServeGetBody, TypeInv
    <3> QED
      BY <1>2, <3>1, ServeReadFacts DEF Parts
  <2>4. CASE ServePutBody
    <3>1. /\ serve \in [at : {"putBody", "insert"}, key : Keys, size : Sizes]
          /\ serve' = [serve EXCEPT !.at = "insert"]
      BY <2>4, ServeIs DEF ServePutBody, TypeInv
    <3> QED
      BY <1>2, <3>1
  <2>5. CASE \E k \in Keys : ServePut(k) \/ ServeDelete(k)
    <3>1. PICK k \in Keys : ServePut(k) \/ ServeDelete(k)
      BY <2>5
    <3>2. serve'.at \in {"putBody", "dropRow", "deleteBody"}
      <4>1. CASE ServePut(k)
        BY <4>1 DEF ServePut
      <4>2. CASE ServeDelete(k)
        BY <4>2 DEF ServeDelete
      <4> QED
        BY <3>1, <4>1, <4>2
    <3> QED
      BY <1>2, <3>2
  <2>6. CASE ServeDeleteBody
    BY <1>2, <2>6 DEF ServeDeleteBody
  <2>7. CASE ServeFill
    <3>1. serve.part \in Parts /\ serve' = ServeGot(serve.key, serve.part, serve.data)
      BY <2>7, ServeIs DEF ServeFill, TypeInv
    <3> QED
      BY <1>2, <3>1 DEF ServeGot, Idle, Parts
  <2>8. CASE ServeInsert \/ ServeHit \/ ServeDropRow
    BY <1>2, <2>8 DEF ServeInsert, ServeHit, ServeDropRow, Idle
  <2> QED
    BY <2>1, <2>2, <2>3, <2>4, <2>5, <2>8, <2>6, <2>7 DEF Serve
<1>3. CASE cmd # Idle
  <2>1. cmd.key \in Keys /\ cmd.part \in Parts
    BY <1>3 DEF TypeInv, CommandsType, CommandState
  <2>2. cmd'.span > 0 /\ Undisturbed(cmd', touched', cmd'.key) =>
           VisibleIn(tiers', cmd'.key, cmd'.part) = cmd'.data
    BY <1>1, <1>3, <2>1, ServeSees DEF SeenInv
  <2>3. ASSUME NEW k \in Keys, Undisturbed(cmd', touched', k)
        PROVE  VisibleIn(tiers', k, "meta") = Good <=> k \in cmd'.start.readable
    BY <1>1, <1>3, <2>3, ServeSees DEF SeenInv, Parts
  <2> QED
    BY <1>1, <1>2, <1>3, <2>2, <2>3 DEF SeenInv
<1>4. CASE cmd = Idle
  BY <1>1, <1>2, <1>4 DEF SeenInv
<1> QED
  BY <1>3, <1>4

LEMMA SeenHolds == Spec => [](TypeInv /\ SeenInv)
<1>1. Init => SeenInv
  BY DEF Init, SeenInv, Idle
<1>2. TypeInv /\ SeenInv /\ [Next]_vars => SeenInv'
  <2> SUFFICES ASSUME TypeInv, SeenInv, [Next]_vars PROVE SeenInv'
    OBVIOUS
  <2>1. CASE UNCHANGED vars
    BY <2>1 DEF vars, SeenInv
  <2> QED
    BY <2>1, SeenGoing, SeenBegin, SeenServe DEF Next, CommandStep, Going
<1> QED
  BY <1>1, <1>2, TypeInit, TypeStep, PTL DEF Spec

\* No step of a command changes what a read returns of an entry that it was not
\* told to delete, whatever serve reads and fills at the same time (Tiered.Get,
\* runInvalidate).
THEOREM OthersKept == Spec => OthersUntouched
<1> DEFINE A == \A k \in Keys : Accounts(k) /\ ~Target(k) =>
                   \A part \in Parts : Visible(k, part)' = Visible(k, part)
<1>1. ASSUME TypeInv, SeenInv, [Next]_vars, NEW k \in Keys, Accounts(k), ~Target(k),
             NEW part \in Parts
      PROVE  Visible(k, part)' = Visible(k, part)
  <2>1. /\ cmd' # cmd /\ "storage" \notin cmd'.dropped
        /\ <<k, "put">> \notin touched' /\ <<k, "delete">> \notin touched'
    BY <1>1 DEF Accounts, Untouched
  <2>2. Undisturbed(cmd', touched', k)
    BY <1>1, <2>1 DEF Undisturbed, ToDelete, Target
  <2>3. CASE Going
    BY <1>1, <2>2, <2>3, GoingSees, VisibleIs, VisibleNext
  <2>4. CASE \E i \in Invocations : Begin(i)
    <3>1. tiers' = tiers
      BY <2>4 DEF Begin
    <3> QED
      BY <3>1, VisibleIs, VisibleNext
  <2>5. ~Serve /\ ~UNCHANGED vars
    BY <1>1, <2>1, ServeGoes DEF ServeWrites, vars
  <2> QED
    BY <1>1, <2>3, <2>4, <2>5 DEF Next, CommandStep, Going
<1>2. TypeInv /\ SeenInv /\ [Next]_vars => [A]_vars
  BY <1>1
<1> HIDE DEF A
<1>3. Spec => [][A]_vars
  BY <1>2, SeenHolds, PTL DEF Spec
<1> QED
  BY <1>3 DEF OthersUntouched, A

-----------------------------------------------------------------------------
(* Invalidation.                                                             *)

\* invalidate is to delete k, nothing has gone wrong so far, and serve has
\* written nothing of k.
Sought(k) ==
    /\ cmd.op = "invalidate" /\ ~cmd.dry /\ cmd.ok /\ "storage" \notin cmd.dropped
    /\ k \in cmd.walk /\ k \in cmd.start.readable /\ Untouched(k, {"put", "fill"})

Clean(k) == \A t \in Tiers : tiers[t][k]["meta"] = Absent
Bare(k)  == Untouched(k, {"delete"}) => \A t \in Tiers : tiers[t][k]["body"] = Absent
RowGone(k) ==
    Untouched(k, {"row"}) /\ cmd.indexed /\ "index" \notin cmd.dropped /\ ~cmd.overtaken =>
        rows[k] = Absent \/ (serve.at \in {"deleteBody", "dropRow"} /\ serve.key = k)

\* A flush of the command itself may still make a row.
Pending ==
    /\ cmd.hit # Absent \/ cmd.batch # Absent
    /\ cmd.indexed /\ "index" \notin cmd.dropped /\ ~cmd.overtaken

\* What is promised for k at the end.
Gone(k) == Clean(k) /\ Bare(k) /\ RowGone(k)

\* Cache.Delete is at work on k.
InDeletion(k) == cmd.at \in Deleting \ {"delete"} /\ cmd.key = k

\* The walk has read k from a slower tier.
InFilling(k) == cmd.span > 0 /\ cmd.key = k

\* Until the deletes begin, an entry that serve has not deleted is listed, in
\* hand or found.
Searched(k) ==
    /\ cmd.at = "list" => Readable(k) \/ Gone(k)
    /\ cmd.at = "walk" /\ k \in cmd.listed => ~InFilling(k) /\ (Readable(k) \/ Gone(k))
    /\ cmd.at = "walk" /\ k \notin cmd.listed \cup cmd.found =>
          IF InFilling(k) THEN cmd.data = Good ELSE Gone(k)
    /\ cmd.at \in {"list", "walk"} => cmd.hit = Absent

\* From then on it is left to do, in deletion or gone; the hit of --key is
\* dropped with the row.
DeletedUp(k) ==
    cmd.at \in Deleting \cup {"close", "done"} =>
        /\ cmd.at \in Deleting /\ k \in cmd.left => ~InDeletion(k)
        /\ ~(cmd.at \in Deleting /\ k \in cmd.left) /\ ~InDeletion(k) => Gone(k)
        /\ (cmd.at \in Deleting /\ k \in cmd.left)
           \/ (InDeletion(k) /\ cmd.at = "deleteFile" /\ cmd.part = "meta") =>
              (Untouched(k, {"delete"}) => Readable(k))
        /\ InDeletion(k) /\ cmd.at = "deleteFile" /\ cmd.part = "body" => Clean(k)
        /\ InDeletion(k) /\ cmd.at = "deleteRow" => Clean(k) /\ Bare(k)
        /\ InDeletion(k) /\ cmd.at = "raced" => Clean(k) /\ ~Untouched(k, {"delete"})
        /\ InDeletion(k) /\ cmd.at = "dropHit" => Gone(k)
        /\ Pending =>
              /\ cmd.at \in Deleting /\ cmd.key = k /\ cmd.walk = {k}
              /\ k \in cmd.left \/ InDeletion(k)

GoneInv == cmd # Idle => \A k \in Keys : Sought(k) => Searched(k) /\ DeletedUp(k)

\* What serve does meanwhile.
LEMMA ServeRows ==
    ASSUME TypeInv, Serve, cmd' = cmd, NEW k \in Keys, Untouched(k, {"put"})', RowGone(k),
           touched \subseteq touched'
    PROVE  RowGone(k)'
<1> SUFFICES ASSUME <<k, "row">> \notin touched', cmd.indexed, "index" \notin cmd.dropped,
                    ~cmd.overtaken
             PROVE  rows'[k] = Absent \/ (serve'.at \in {"deleteBody", "dropRow"} /\ serve'.key = k)
  BY DEF RowGone, Untouched
<1>1. rows[k] = Absent \/ (serve.at \in {"deleteBody", "dropRow"} /\ serve.key = k)
  BY DEF RowGone, Untouched
<1>2. <<k, "put">> \notin touched'
  BY DEF Untouched
<1>3. rows \in [Keys -> Values("body")]
  BY DEF TypeInv, CommandsType
<1>4. CASE serve = Idle
  <2>1. rows[k] = Absent
    BY <1>1, <1>4 DEF Idle
  <2>2. CASE ServeFlush
    <3>1. rows'[k] # rows[k] => <<k, "row">> \in touched'
      BY <2>2 DEF ServeFlush
    <3> QED
      BY <2>1, <3>1
  <2>3. ~ServeFlush => rows' = rows
    BY <1>4 DEF Serve, ServePut, ServeGet, ServeDelete, ServePutBody, ServeInsert, ServeFill,
                ServeGetBody, ServeHit, ServeDeleteBody, ServeDropRow, Idle
  <2> QED
    BY <2>1, <2>2, <2>3
<1>5. CASE ServeFlush
  <2>1. serve' = serve /\ (rows'[k] # rows[k] => <<k, "row">> \in touched')
    BY <1>5 DEF ServeFlush
  <2> QED
    BY <1>1, <2>1
<1>6. CASE ServePutBody \/ ServeFill \/ ServeGetBody \/ ServeHit
  <2>1. rows' = rows /\ serve.at \in {"putBody", "fill", "getBody", "hit"}
    BY <1>6 DEF ServePutBody, ServeFill, ServeGetBody, ServeHit
  <2> QED
    BY <1>1, <2>1
<1>7. CASE ServeInsert
  <2>1. serve.at = "insert" /\ <<serve.key, "put">> \in touched' /\ serve.key # k
        /\ rows' = [rows EXCEPT ![serve.key] = serve.size]
    BY <1>2, <1>7 DEF ServeInsert, Touch
  <2> QED
    BY <1>1, <1>3, <2>1
<1>8. CASE ServeDeleteBody
  <2>1. rows' = rows /\ serve' = [at |-> "dropRow", key |-> serve.key]
    BY <1>8 DEF ServeDeleteBody
  <2> QED
    BY <1>1, <2>1
<1>9. CASE ServeDropRow
  <2>1. rows' = [rows EXCEPT ![serve.key] = Absent]
    BY <1>9 DEF ServeDropRow
  <2> QED
    BY <1>1, <1>3, <2>1
<1>10. CASE \E j \in Keys : ServePut(j) \/ ServeGet(j) \/ ServeDelete(j)
  <2>1. serve = Idle
    BY <1>10 DEF ServePut, ServeGet, ServeDelete, Begun
  <2> QED
    BY <1>4, <2>1
<1> QED
  BY <1>5, <1>6, <1>7, <1>8, <1>9, <1>10 DEF Serve

LEMMA ServeTiers ==
    ASSUME TypeInv, Serve, NEW k \in Keys, Untouched(k, {"put", "fill"})'
    PROVE  \A t \in Tiers, part \in Parts :
              \/ tiers'[t][k][part] = tiers[t][k][part]
              \/ tiers'[t][k][part] = Absent /\ <<k, "delete">> \in touched'
<1>1. ServeWrites
  BY ServeGoes
<1>2. <<k, "put">> \notin touched' /\ <<k, "fill">> \notin touched'
  BY DEF Untouched
<1>3. CASE tiers' = tiers
  BY <1>3
<1>4. CASE tiers' # tiers
  <2>1. PICK j \in Keys, p \in Parts, T \in SUBSET Nat : \E v \in Values(p) :
             /\ WrittenAs(tiers', T, j, p, v)
             /\ \/ <<j, "put">> \in touched'
                \/ T = Tiers /\ v = Absent /\ <<j, "delete">> \in touched'
                \/ /\ serve.at = "fill" /\ T = 1..serve.span /\ j = serve.key
                   /\ p = serve.part /\ v = serve.data /\ <<j, "fill">> \in touched'
    BY <1>1, <1>4 DEF ServeWrites
  <2>2. PICK v \in Values(p) :
             /\ WrittenAs(tiers', T, j, p, v)
             /\ \/ <<j, "put">> \in touched'
                \/ v = Absent /\ <<j, "delete">> \in touched'
                \/ <<j, "fill">> \in touched'
    BY <2>1
  <2>3. CASE j # k
    BY <2>2, <2>3 DEF WrittenAs
  <2>4. CASE j = k
    <3>1. v = Absent /\ <<k, "delete">> \in touched'
      BY <1>2, <2>2, <2>4
    <3> QED
      BY <2>2, <3>1 DEF WrittenAs
  <2> QED
    BY <2>3, <2>4
<1> QED
  BY <1>3, <1>4

\* A readable entry stays so, or serve is deleting it.
LEMMA ServeReadable ==
    ASSUME TypeInv, Serve, cmd' = cmd, NEW k \in Keys, Untouched(k, {"put", "fill"})', Readable(k)
    PROVE  Readable(k)' \/ Gone(k)'
<1>1. CASE \A t \in Tiers : tiers'[t][k]["meta"] = tiers[t][k]["meta"]
  <2>1. VisibleIn(tiers', k, "meta") = VisibleIn(tiers, k, "meta")
    BY <1>1, VisibleSame
  <2> QED
    BY <2>1, VisibleIs, VisibleNext DEF Readable
<1>2. CASE \E t \in Tiers : tiers'[t][k]["meta"] # tiers[t][k]["meta"]
  <2>1. <<k, "put">> \notin touched' /\ <<k, "fill">> \notin touched'
    BY DEF Untouched
  <2>2. tiers' # tiers
    BY <1>2
  <2>3. tiers \in [Tiers -> [Keys -> Objects]]
    BY DEF TypeInv, CommandsType
  <2>4. "meta" \in Parts /\ "body" \in Parts /\ Absent \in Values("meta") /\ Absent \in Values("body")
    BY DEF Parts, Values
  <2>5. ASSUME NEW j \in Keys, ServeDelete(j) PROVE Gone(k)'
    <3>1. /\ tiers' = Written(Tiers, j, "meta", Absent)
          /\ serve' = [at |-> "deleteBody", key |-> j] /\ <<j, "delete">> \in touched'
      BY <2>2, <2>5 DEF ServeDelete, Touch
    <3>2. WrittenAs(tiers', Tiers, j, "meta", Absent)
      BY <2>3, <2>4, <3>1, WrittenFacts
    <3>3. j = k
      BY <1>2, <2>4, <3>2 DEF WrittenAs
    <3>4. Clean(k)'
      BY <2>4, <3>2, <3>3 DEF WrittenAs, Clean
    <3> QED
      BY <3>1, <3>3, <3>4 DEF Gone, Bare, RowGone, Untouched
  <2>6. ~ServeDeleteBody
    <3> SUFFICES ASSUME ServeDeleteBody PROVE FALSE
      OBVIOUS
    <3>1. serve.key \in Keys /\ tiers' = Written(Tiers, serve.key, "body", Absent)
      BY ServeIs DEF ServeDeleteBody, TypeInv
    <3>2. WrittenAs(tiers', Tiers, serve.key, "body", Absent)
      BY <2>3, <2>4, <3>1, WrittenFacts
    <3> QED
      BY <1>2, <2>4, <3>2 DEF WrittenAs
  <2>7. ASSUME NEW j \in Keys, ServePut(j) PROVE FALSE
    <3>1. PICK size \in Sizes : tiers' = Written(Tiers, j, "meta", Good) /\ <<j, "put">> \in touched'
      BY <2>7 DEF ServePut, Touch
    <3>2. WrittenAs(tiers', Tiers, j, "meta", Good) /\ j # k
      BY <2>1, <2>3, <2>4, <3>1, WrittenFacts DEF Values
    <3> QED
      BY <1>2, <2>4, <3>2 DEF WrittenAs
  <2>8. ~ServePutBody
    <3> SUFFICES ASSUME ServePutBody PROVE FALSE
      OBVIOUS
    <3>1. /\ serve.key \in Keys /\ serve.size \in Values("body") /\ serve.key # k
          /\ tiers' = Written(Tiers, serve.key, "body", serve.size)
      BY <2>1, ServeIs DEF ServePutBody, Touch, TypeInv, Values
    <3>2. WrittenAs(tiers', Tiers, serve.key, "body", serve.size)
      BY <2>3, <2>4, <3>1, WrittenFacts
    <3> QED
      BY <1>2, <2>4, <3>2 DEF WrittenAs
  <2>9. ~ServeFill
    <3> SUFFICES ASSUME ServeFill PROVE FALSE
      OBVIOUS
    <3>1. /\ serve.key \in Keys /\ serve.part \in Parts /\ serve.data \in Values(serve.part)
          /\ serve.key # k /\ tiers' = Written(1..serve.span, serve.key, serve.part, serve.data)
      BY <2>1, ServeIs DEF ServeFill, Touch, TypeInv, CommandsType, InHand
    <3>2. WrittenAs(tiers', 1..serve.span, serve.key, serve.part, serve.data)
      BY <2>3, <3>1, WrittenFacts
    <3> QED
      BY <1>2, <2>4, <3>1, <3>2 DEF WrittenAs
  <2>10. ASSUME NEW j \in Keys, ServeGet(j) PROVE FALSE
    BY <2>2, <2>10 DEF ServeGet
  <2>11. ~ServeInsert /\ ~ServeGetBody /\ ~ServeHit /\ ~ServeFlush /\ ~ServeDropRow
    BY <2>2 DEF ServeInsert, ServeGetBody, ServeHit, ServeFlush, ServeDropRow
  <2> QED
    BY <2>5, <2>6, <2>7, <2>8, <2>9, <2>10, <2>11 DEF Serve
<1> QED
  BY <1>1, <1>2

LEMMA GoneServe ==
    ASSUME TypeInv, GoneInv, Serve
    PROVE  GoneInv'
<1>1. ServeWrites /\ cmd' = cmd /\ touched \subseteq touched'
  BY ServeGoes DEF ServeWrites
<1> SUFFICES ASSUME cmd # Idle, NEW k \in Keys, Sought(k)' PROVE Searched(k)' /\ DeletedUp(k)'
  BY <1>1 DEF GoneInv
<1>2. Untouched(k, {"put", "fill"})' /\ Untouched(k, {"put"})' /\ Sought(k)
  BY <1>1 DEF Sought, Untouched
<1>3. Searched(k) /\ DeletedUp(k)
  BY <1>2 DEF GoneInv
<1>4. \A t \in Tiers, part \in Parts :
         \/ tiers'[t][k][part] = tiers[t][k][part]
         \/ tiers'[t][k][part] = Absent /\ <<k, "delete">> \in touched'
  BY <1>2, ServeTiers
<1>5. Clean(k) => Clean(k)'
  BY <1>4 DEF Clean, Parts
<1>6. Bare(k) => Bare(k)'
  BY <1>1, <1>4 DEF Bare, Parts, Untouched
<1>7. Gone(k) => Gone(k)'
  BY <1>1, <1>2, <1>5, <1>6, ServeRows DEF Gone
<1>8. Readable(k) => Readable(k)' \/ Gone(k)'
  BY <1>1, <1>2, ServeReadable
<1>9. Untouched(k, {"delete"})' => Untouched(k, {"delete"})
  BY <1>1 DEF Untouched
<1>10. Untouched(k, {"delete"})' /\ Readable(k) => Readable(k)'
  <2> SUFFICES ASSUME Untouched(k, {"delete"})', Readable(k) PROVE Readable(k)'
    OBVIOUS
  <2>1. \A t \in Tiers : tiers'[t][k]["meta"] = tiers[t][k]["meta"]
    BY <1>4 DEF Untouched, Parts
  <2>2. VisibleIn(tiers', k, "meta") = VisibleIn(tiers, k, "meta")
    BY <2>1, VisibleSame
  <2> QED
    BY <2>2, VisibleIs, VisibleNext DEF Readable
<1>11. /\ InFilling(k)' <=> InFilling(k)
       /\ InDeletion(k)' <=> InDeletion(k)
       /\ Pending' <=> Pending
  BY <1>1 DEF InFilling, InDeletion, Pending
<1>12. Searched(k)'
  BY <1>1, <1>3, <1>7, <1>8, <1>11 DEF Searched
<1>13. DeletedUp(k)'
  BY <1>1, <1>3, <1>5, <1>6, <1>7, <1>9, <1>10, <1>11 DEF DeletedUp
<1> QED
  BY <1>12, <1>13

LEMMA GoneBegin ==
    ASSUME TypeInv, NEW i \in Invocations, Begin(i)
    PROVE  GoneInv'
<1>1. /\ cmd' \in CommandState /\ BegunAs(i, cmd') /\ tiers' = tiers
  BY BeginFacts
<1> SUFFICES ASSUME NEW k \in Keys, Sought(k)' PROVE Searched(k)' /\ DeletedUp(k)'
  BY DEF GoneInv
<1>2. FreshAs(i, cmd') /\ cmd'.at \in {"query", "exists", "get", "list"}
  BY <1>1 DEF BegunAs
<1>3. k \in cmd'.start.readable
  BY DEF Sought
<1>4. Readable(k)
  BY <1>2, <1>3 DEF FreshAs
<1>5. Readable(k)'
  BY <1>1, <1>4, VisibleIs, VisibleNext DEF Readable
<1>6. Searched(k)'
  BY <1>2, <1>5 DEF Searched, FreshAs
<1>7. DeletedUp(k)'
  BY <1>2 DEF DeletedUp, Deleting
<1> QED
  BY <1>6, <1>7

\* What every step of the command leaves of it.
LEMMA SoughtBefore ==
    ASSUME GoesOn, NEW k, Sought(k)', cmd.ok
    PROVE  Sought(k) /\ cmd # Idle
  BY NotIdle DEF GoesOn, Kept, Settings, Sought, Untouched

LEMMA SameTiers ==
    ASSUME GoesOn, NEW k, \A t \in Tiers, part \in Parts : tiers'[t][k][part] = tiers[t][k][part]
    PROVE  /\ Readable(k)' <=> Readable(k)
           /\ Clean(k)' <=> Clean(k)
           /\ Bare(k)' <=> Bare(k)
           /\ Gone(k) /\ rows'[k] = rows[k] => Gone(k)'
<1>1. VisibleIn(tiers', k, "meta") = VisibleIn(tiers, k, "meta")
  BY VisibleSame DEF Parts
<1>2. Readable(k)' <=> Readable(k)
  BY <1>1, VisibleIs, VisibleNext DEF Readable
<1>3. (Clean(k)' <=> Clean(k)) /\ (Bare(k)' <=> Bare(k))
  BY DEF Clean, Bare, Parts, GoesOn, Untouched
<1>4. Gone(k) /\ rows'[k] = rows[k] => Gone(k)'
  BY <1>3 DEF Gone, RowGone, GoesOn, Untouched, Kept, Settings
<1> QED
  BY <1>2, <1>3, <1>4

\* An entry to delete can be read until the deletes begin, unless serve has
\* deleted it.
LEMMA ReadableBefore ==
    ASSUME SeenInv, cmd # Idle, NEW k \in Keys, Sought(k), cmd.at \in BeforeDeletes,
           Untouched(k, {"delete"})
    PROVE  Readable(k)
<1>1. Undisturbed(cmd, touched, k) /\ k \in cmd.start.readable
  BY DEF Undisturbed, Sought, Untouched
<1> QED
  BY <1>1, VisibleIs DEF SeenInv, Readable

LEMMA GoneList ==
    ASSUME TypeInv, GoneInv, PagedTiers = {}, NEW k \in Keys, Sought(k)', List
    PROVE  Searched(k)' /\ DeletedUp(k)'
<1>1. GoesOn /\ rows' = rows /\ tiers' = tiers /\ cmd.at = "list" /\ cmd' \in CommandState
  BY CallGoes, ListFacts DEF TypeInv
<1>2. PICK F \in FailingTiers, seen \in [Tiers -> SUBSET Keys] :
         /\ AfterCall({"at", "listed"}, F, cmd')
         /\ \A t \in Tiers : seen[t] \in IF t \in F THEN {{}} ELSE Listings(t)
         /\ cmd'.at = "walk" /\ cmd'.listed = UNION {seen[t] : t \in Tiers}
  BY ListFacts DEF TypeInv
<1>3. F = {} /\ cmd'.ok = cmd.ok /\ cmd'.span = cmd.span /\ cmd'.hit = cmd.hit
  BY <1>2 DEF Sought, AfterCall, Only, Fields
<1>4. Sought(k) /\ cmd # Idle
  BY <1>1, <1>3, SoughtBefore DEF Sought
<1>5. cmd.span = 0 /\ cmd.hit = Absent /\ (Readable(k) \/ Gone(k))
  BY <1>1, <1>4 DEF GoneInv, Searched, TypeInv, CommandsType, InHand, HandOf
<1>6. Readable(k)' \/ Gone(k)'
  BY <1>1, <1>5, SameTiers
<1>7. Readable(k) => k \in cmd'.listed
  <2> SUFFICES ASSUME Readable(k) PROVE k \in cmd'.listed
    OBVIOUS
  <2>1. VisibleIn(tiers, k, "meta") # Absent
    BY VisibleIs, CommandsAssumption DEF Readable
  <2>2. PICK t \in Tiers : tiers[t][k]["meta"] # Absent
    BY <2>1, VisibleNone
  <2> DEFINE names == {n \in Keys \X Parts : tiers[t][n[1]][n[2]] # Absent}
  <2>3. Listings(t) = {{j \in Keys : <<j, "meta">> \in P} : P \in {names}}
    BY DEF Listings
  <2>4. <<k, "meta">> \in names
    BY <2>2 DEF Parts
  <2> HIDE DEF names
  <2>5. seen[t] \in Listings(t)
    BY <1>2, <1>3
  <2>6. k \in seen[t]
    BY <2>3, <2>4, <2>5
  <2> QED
    BY <1>2, <2>6
<1>8. Gone(k)' \/ Readable(k)
  BY <1>1, <1>5, SameTiers
<1>9. Searched(k)'
  BY <1>2, <1>3, <1>5, <1>6, <1>7, <1>8 DEF Searched, InFilling
<1>10. DeletedUp(k)'
  BY <1>2 DEF DeletedUp, Deleting
<1> QED
  BY <1>9, <1>10

\* What the walk or Cache.Get does with an object that has been read.
LEMMA GoneGot ==
    ASSUME TypeInv, SeenInv, GoneInv, NEW k \in Keys, Sought(k)', Sought(k), GoesOn,
           cmd.at = "get", cmd'.at \in Deleting \cup {"walk", "list", "close", "done"},
           NEW c \in CommandState, NEW v, Advanced(c, v, cmd'),
           c.at = "get", c.key = cmd.key, c.op = cmd.op, c.dry = cmd.dry, c.walk = cmd.walk,
           \A t \in Tiers : tiers'[t][k]["meta"] = tiers[t][k]["meta"]
    PROVE  Searched(k)' /\ DeletedUp(k)'
<1>1. cmd.op = "invalidate" /\ ~cmd.dry /\ cmd'.ok /\ cmd # Idle /\ k \in cmd.walk
  BY NotIdle DEF Sought, GoesOn
<1>2. cmd.walk = {cmd.key}
  BY <1>1 DEF TypeInv, CourseOf
<1>3. LocatedAs(c, cmd')
  BY <1>1 DEF Advanced, Only, Fields, Deleting
<1>4. /\ cmd'.at = "delete" /\ cmd'.left = {k} /\ cmd'.key = k /\ cmd'.walk = {k}
  BY <1>1, <1>2, <1>3 DEF LocatedAs, Only, Fields
<1>5. Untouched(k, {"delete"})' => Readable(k)'
  <2> SUFFICES ASSUME Untouched(k, {"delete"})' PROVE Readable(k)'
    OBVIOUS
  <2>1. Untouched(k, {"delete"})
    BY DEF GoesOn, Untouched
  <2>2. Readable(k)
    BY <1>1, <2>1, ReadableBefore DEF BeforeDeletes
  <2>3. VisibleIn(tiers', k, "meta") = VisibleIn(tiers, k, "meta")
    BY VisibleSame
  <2> QED
    BY <2>2, <2>3, VisibleIs, VisibleNext DEF Readable
<1>6. Searched(k)'
  BY <1>4 DEF Searched
<1>7. DeletedUp(k)'
  BY <1>4, <1>5 DEF DeletedUp, Deleting, InDeletion
<1> QED
  BY <1>6, <1>7

LEMMA Elsewhere ==
    ASSUME NEW k, cmd'.at \notin Deleting \cup {"walk", "list", "close", "done"}
    PROVE  Searched(k)' /\ DeletedUp(k)'
  BY DEF Searched, DeletedUp

\* The walk has an object of j in hand, and it is the one that is asked for.
LEMMA WalkGot ==
    ASSUME NEW c \in CommandState, NEW v, NEW d, Advanced(c, v, d), c.at = "walk",
           c.op = "invalidate"
    PROVE  /\ d.at = "walk" /\ c.found \subseteq d.found /\ d.found \subseteq c.found \cup {c.key}
           /\ v = Good /\ c.key \in c.walk => c.key \in d.found
  BY DEF Advanced, Cut, Taken, Only, Fields

LEMMA GoneRead ==
    ASSUME TypeInv, SeenInv, GoneInv, NEW k \in Keys, Sought(k)', NEW j \in Keys, Read(j)
    PROVE  Searched(k)' /\ DeletedUp(k)'
<1>1. /\ GoesOn /\ rows' = rows /\ tiers' = tiers /\ cmd' \in CommandState
      /\ cmd.at \in {"walk", "get"} /\ cmd.span = 0
      /\ IF cmd.at = "walk" THEN j \in cmd.listed ELSE j = cmd.key
  BY ReadGoes, ReadFacts DEF TypeInv
<1>2. PICK F \in FailingTiers, c \in CommandState :
         /\ AfterCall({"key", "listed", "part"}, F, c)
         /\ c.key = j /\ c.listed = cmd.listed \ {j}
         /\ c.part = IF cmd.at = "walk" THEN "meta" ELSE cmd.part
         /\ LET H == Holding(j, c.part, F) IN
            \/ H = {} /\ (\/ GivenUp(c, cmd')
                          \/ /\ c.at = "get" /\ c.indexed
                             /\ Only({"at"}, c, cmd') /\ cmd'.at = "orphan")
            \/ /\ H # {} /\ Min(H) = 1
               /\ Advanced(c, tiers[1][j][c.part], cmd')
            \/ /\ H # {} /\ Min(H) # 1
               /\ Only({"span", "data"}, c, cmd')
               /\ cmd'.span = Min(H) - 1 /\ cmd'.data = tiers[Min(H)][j][c.part]
            \/ F # {} /\ GivenUp(c, cmd')
  BY <1>1, ReadFacts DEF TypeInv
<1>3. /\ c.at = cmd.at /\ c.span = 0 /\ c.op = cmd.op /\ c.dry = cmd.dry /\ c.walk = cmd.walk
      /\ c.ok = cmd.ok /\ c.found = cmd.found /\ c.hit = cmd.hit
  BY <1>1, <1>2 DEF AfterCall, Only, Fields
<1>4. cmd'.ok
  BY DEF Sought
<1> DEFINE H == Holding(j, c.part, F)
<1>5. /\ cmd'.dropped = c.dropped
      /\ cmd'.ok => c.ok
  <2>1. CASE GivenUp(c, cmd')
    BY <2>1 DEF GivenUp, Only, Fields
  <2>2. ASSUME NEW v, Advanced(c, v, cmd') PROVE cmd'.dropped = c.dropped /\ (cmd'.ok => c.ok)
    <3>1. cmd'.dropped = c.dropped
      BY <2>2, AdvancedKeeps
    <3>2. cmd'.ok => c.ok
      BY <2>2 DEF Advanced, Cut, Taken, LocatedAs, Only, Fields
    <3> QED
      BY <3>1, <3>2
  <2>3. CASE Only({"at"}, c, cmd') \/ Only({"span", "data"}, c, cmd')
    BY <2>3 DEF Only, Fields
  <2> QED
    BY <1>2, <2>1, <2>2, <2>3
<1>6. F = {}
  BY <1>2, <1>5 DEF AfterCall, Sought
<1>7. cmd.ok /\ Sought(k) /\ cmd # Idle /\ Searched(k) /\ cmd.op = "invalidate" /\ k \in cmd.walk
  BY <1>1, <1>3, <1>4, <1>5, SoughtBefore DEF GoneInv, Sought
<1>8. CASE cmd.at = "get"
  <2>1. CASE cmd'.at \notin Deleting \cup {"walk", "list", "close", "done"}
    BY <2>1, Elsewhere
  <2>2. CASE cmd'.at \in Deleting \cup {"walk", "list", "close", "done"}
    <3>1. ~GivenUp(c, cmd')
      BY <1>3, <1>4, <1>8 DEF GivenUp
    <3>2. ~(Only({"at"}, c, cmd') /\ cmd'.at = "orphan")
      BY <2>2 DEF Deleting
    <3>3. ~Only({"span", "data"}, c, cmd')
      BY <1>3, <1>8, <2>2 DEF Only, Fields, Deleting
    <3>4. Advanced(c, tiers[1][j][c.part], cmd')
      BY <1>2, <3>1, <3>2, <3>3
    <3> QED
      BY <1>1, <1>2, <1>3, <1>7, <1>8, <2>2, <3>4, GoneGot
  <2> QED
    BY <2>1, <2>2
<1>9. CASE cmd.at = "walk"
  <2>1. c.part = "meta" /\ H = Holding(j, "meta", {}) /\ cmd.hit = Absent
    BY <1>2, <1>6, <1>7, <1>9 DEF Searched
  <2>2. /\ cmd'.at = "walk" /\ cmd'.key = j /\ cmd'.listed = cmd.listed \ {j}
        /\ cmd'.hit = Absent /\ cmd.found \subseteq cmd'.found
        /\ cmd'.found \subseteq cmd.found \cup {j}
    <3>1. CASE GivenUp(c, cmd') \/ Only({"span", "data"}, c, cmd')
      <4>1. /\ cmd'.at = c.at /\ cmd'.key = c.key /\ cmd'.listed = c.listed /\ cmd'.hit = c.hit
            /\ cmd'.found = c.found
        BY <1>3, <1>9, <3>1 DEF GivenUp, Only, Fields
      <4> QED
        BY <1>2, <1>3, <1>9, <2>1, <4>1
    <3>2. CASE Advanced(c, tiers[1][j][c.part], cmd')
      BY <1>2, <1>3, <1>7, <1>9, <2>1, <3>2, AdvancedKeeps, WalkGot
    <3> QED
      BY <1>2, <1>3, <1>9, <3>1, <3>2
  <2>3. ASSUME k = j PROVE IF cmd'.span > 0 THEN cmd'.data = Good
                                            ELSE k \in cmd'.found \/ Gone(k)'
    <3>1. k \in cmd.listed /\ (Readable(k) \/ Gone(k))
      BY <1>1, <1>7, <1>9, <2>3 DEF Searched
    <3>2. CASE H = {}
      <4>1. ~Readable(k)
        <5>1. Visible(k, "meta") = Absent
          BY <2>1, <2>3, <3>2 DEF Visible
        <5> QED
          BY <5>1, CommandsAssumption DEF Readable
      <4>2. Gone(k)'
        BY <1>1, <3>1, <4>1, SameTiers
      <4>3. cmd'.span = 0
        BY <1>2, <1>3, <1>6, <1>9, <3>2 DEF GivenUp
      <4> QED
        BY <4>2, <4>3
    <3>3. CASE H # {}
      <4>1. tiers[Min(H)][k]["meta"] = Visible(k, "meta") /\ Min(H) \in Tiers
            /\ tiers[Min(H)][k]["meta"] # Absent
        BY <2>1, <2>3, <3>3, HoldingFacts DEF Visible
      <4>2. ~Gone(k)
        BY <4>1 DEF Gone, Clean
      <4>3. tiers[Min(H)][k]["meta"] = Good
        BY <3>1, <4>1, <4>2 DEF Readable
      <4>4. CASE Min(H) = 1 /\ Advanced(c, tiers[1][j][c.part], cmd')
        <5>1. k \in cmd'.found /\ cmd'.span = 0
          BY <1>2, <1>3, <1>7, <1>9, <2>1, <2>3, <4>3, <4>4, AdvancedKeeps, WalkGot
        <5> QED
          BY <5>1
      <4>5. CASE Min(H) # 1 /\ cmd'.span = Min(H) - 1 /\ cmd'.data = tiers[Min(H)][j][c.part]
        <5>1. cmd'.span > 0
          BY <4>1, <4>5, Basics
        <5> QED
          BY <2>1, <2>3, <4>3, <4>5, <5>1
      <4> QED
        BY <1>2, <1>6, <3>3, <4>4, <4>5
    <3> QED
      BY <3>2, <3>3
  <2>4. Searched(k)'
    <3>1. CASE k = j
      BY <2>2, <2>3, <3>1 DEF Searched, InFilling
    <3>2. CASE k # j
      <4>1. (Readable(k) => Readable(k)') /\ (Gone(k) => Gone(k)')
        BY <1>1, SameTiers
      <4>2. ~InFilling(k) /\ ~InFilling(k)'
        BY <1>1, <2>2, <3>2 DEF InFilling
      <4> QED
        BY <1>7, <1>9, <2>2, <3>2, <4>1, <4>2 DEF Searched
    <3> QED
      BY <3>1, <3>2
  <2>5. DeletedUp(k)'
    BY <2>2 DEF DeletedUp, Deleting
  <2> QED
    BY <2>4, <2>5
<1> QED
  BY <1>1, <1>8, <1>9

LEMMA GoneFill ==
    ASSUME TypeInv, SeenInv, GoneInv, NEW k \in Keys, Sought(k)', Fill
    PROVE  Searched(k)' /\ DeletedUp(k)'
<1>1. /\ GoesOn /\ rows' = rows /\ cmd \in CommandState /\ cmd' \in CommandState
      /\ cmd.at \in {"walk", "get"} /\ cmd.span > 0
      /\ FilledAs(1..cmd.span, cmd.key, cmd.part, cmd.data, "storage" \notin cmd'.dropped)
  BY FillGoes, FillFacts DEF TypeInv
<1>2. PICK F \in FailingTiers, c \in CommandState :
         /\ AfterCall({"span"}, F, c) /\ c.span = 0
         /\ Advanced(c, cmd.data, cmd')
  BY FillFacts DEF TypeInv
<1>3. /\ c.at = cmd.at /\ c.op = cmd.op /\ c.dry = cmd.dry /\ c.walk = cmd.walk /\ c.key = cmd.key
      /\ c.ok = cmd.ok /\ c.found = cmd.found /\ c.hit = cmd.hit /\ c.listed = cmd.listed
      /\ c.part = cmd.part
  BY <1>2 DEF AfterCall, Only, Fields
<1>4. cmd'.ok => c.ok
  BY <1>2 DEF Advanced, Cut, Taken, LocatedAs, Only, Fields
<1>5. Sought(k) /\ cmd # Idle /\ Searched(k) /\ cmd.op = "invalidate" /\ k \in cmd.walk
  BY <1>1, <1>3, <1>4, SoughtBefore DEF GoneInv, Sought
<1>6. /\ cmd'.listed = cmd.listed /\ cmd'.span = 0 /\ cmd'.key = cmd.key /\ cmd'.hit = cmd.hit
  BY <1>2, <1>3, AdvancedKeeps
<1>7. CASE cmd.at = "get"
  <2>1. CASE cmd'.at \notin Deleting \cup {"walk", "list", "close", "done"}
    BY <2>1, Elsewhere
  <2>2. CASE cmd'.at \in Deleting \cup {"walk", "list", "close", "done"}
    <3>1. c.part = "body"
      BY <1>2, <1>3, <1>7, <2>2 DEF Advanced, Only, Fields, Deleting, Sought
    <3>2. \A t \in Tiers : tiers'[t][k]["meta"] = tiers[t][k]["meta"]
      BY <1>1, <1>3, <3>1 DEF FilledAs, Parts
    <3> QED
      BY <1>1, <1>2, <1>3, <1>5, <1>7, <2>2, <3>2, GoneGot
  <2> QED
    BY <2>1, <2>2
<1>8. CASE cmd.at = "walk"
  <2>1. /\ cmd'.at = "walk" /\ cmd.found \subseteq cmd'.found
        /\ cmd'.found \subseteq cmd.found \cup {cmd.key}
        /\ cmd.data = Good /\ cmd.key = k => k \in cmd'.found
    BY <1>2, <1>3, <1>5, <1>8, WalkGot
  <2>2. DeletedUp(k)'
    BY <2>1 DEF DeletedUp, Deleting
  <2>3. CASE k = cmd.key
    <3>1. InFilling(k) /\ k \notin cmd.listed
      BY <1>1, <1>5, <1>8, <2>3 DEF Searched, InFilling
    <3>2. k \in cmd'.found
      BY <1>5, <1>8, <2>1, <2>3, <3>1 DEF Searched
    <3>3. Searched(k)'
      BY <1>5, <1>6, <1>8, <2>1, <3>1, <3>2 DEF Searched
    <3> QED
      BY <2>2, <3>3
  <2>4. CASE k # cmd.key
    <3>1. \A t \in Tiers, part \in Parts : tiers'[t][k][part] = tiers[t][k][part]
      BY <1>1, <2>4 DEF FilledAs
    <3>2. (Readable(k) => Readable(k)') /\ (Gone(k) => Gone(k)')
      BY <1>1, <3>1, SameTiers
    <3>3. ~InFilling(k) /\ ~InFilling(k)'
      BY <1>6, <2>4 DEF InFilling
    <3>4. Searched(k)'
      BY <1>5, <1>6, <1>8, <2>1, <2>4, <3>2, <3>3 DEF Searched
    <3> QED
      BY <2>2, <3>4
  <2> QED
    BY <2>3, <2>4
<1> QED
  BY <1>1, <1>7, <1>8

LEMMA GoneWalkEnds ==
    ASSUME TypeInv, SeenInv, GoneInv, NEW k \in Keys, Sought(k)', WalkEnds
    PROVE  Searched(k)' /\ DeletedUp(k)'
<1>1. /\ GoesOn /\ rows' = rows /\ tiers' = tiers
      /\ cmd.at = "walk" /\ cmd.span = 0 /\ cmd.listed = {} /\ ScannedAs(cmd, cmd')
  BY LocalGoes, WalkEndsFacts DEF TypeInv
<1>2. cmd'.op = "invalidate" /\ ~cmd'.dry /\ cmd'.ok
  BY DEF Sought
<1>3. cmd.op = "invalidate" /\ ~cmd.dry
  BY <1>1, <1>2 DEF GoesOn, Kept, Settings
<1>4. Only({"at", "left"}, cmd, cmd') /\ cmd'.at = "delete" /\ cmd'.left = cmd.found
  BY <1>1, <1>3 DEF ScannedAs
<1>5. cmd'.ok = cmd.ok /\ cmd'.hit = cmd.hit
  BY <1>4 DEF Only, Fields
<1>6. Sought(k) /\ cmd # Idle /\ Searched(k)
  BY <1>1, <1>2, <1>5, SoughtBefore DEF GoneInv
<1>7. ~Pending' /\ (k \notin cmd.found => Gone(k))
  <2>1. cmd.batch = Absent /\ cmd'.batch = cmd.batch
    BY <1>1, <1>4, <1>6 DEF TypeInv, CourseOf, Deleting, Only, Fields
  <2> QED
    BY <1>1, <1>5, <1>6, <2>1 DEF Searched, InFilling, Pending
<1>8. Untouched(k, {"delete"})' => Readable(k)'
  BY <1>1, <1>6, ReadableBefore, SameTiers DEF BeforeDeletes, GoesOn, Untouched
<1>9. k \notin cmd'.left => Gone(k)'
  BY <1>1, <1>4, <1>7, SameTiers
<1>10. DeletedUp(k)'
  BY <1>4, <1>7, <1>8, <1>9 DEF DeletedUp, Deleting, InDeletion
<1> QED
  BY <1>4, <1>10 DEF Searched

LEMMA GoneRecordHit ==
    ASSUME TypeInv, SeenInv, GoneInv, NEW k \in Keys, Sought(k)', RecordHit
    PROVE  Searched(k)' /\ DeletedUp(k)'
<1>1. GoesOn /\ rows' = rows /\ tiers' = tiers /\ cmd.at = "hit"
  BY CallGoes, RecordHitFacts DEF TypeInv
<1>2. PICK F \in FailingTiers, c \in CommandState :
         Only({"faults", "dropped", "hit"}, cmd, c) /\ LocatedAs(c, cmd')
  BY RecordHitFacts DEF TypeInv
<1>3. /\ c.op = cmd.op /\ c.dry = cmd.dry /\ c.key = cmd.key /\ c.ok = cmd.ok /\ c.walk = cmd.walk
  BY <1>2 DEF Only, Fields
<1>4. cmd'.op = "invalidate" /\ ~cmd'.dry
  BY DEF Sought
<1>5. cmd.op = "invalidate" /\ ~cmd.dry
  BY <1>1, <1>4 DEF GoesOn, Kept, Settings
<1>6. /\ cmd'.at = "delete" /\ cmd'.left = {cmd.key} /\ cmd'.key = cmd.key
      /\ cmd'.ok = cmd.ok /\ cmd'.walk = cmd.walk
  BY <1>2, <1>3, <1>5 DEF LocatedAs, Only, Fields
<1>7. Sought(k) /\ cmd # Idle
  BY <1>1, <1>6, SoughtBefore DEF Sought
<1>8. cmd.walk = {cmd.key} /\ k = cmd.key
  BY <1>1, <1>5, <1>7 DEF TypeInv, CourseOf, Sought
<1>9. Untouched(k, {"delete"})' => Readable(k)'
  BY <1>1, <1>7, ReadableBefore, SameTiers DEF BeforeDeletes, GoesOn, Untouched
<1>10. DeletedUp(k)'
  BY <1>6, <1>8, <1>9 DEF DeletedUp, Deleting, InDeletion
<1> QED
  BY <1>6, <1>10 DEF Searched

\* The command's own flush changes no row but that of its key.
LEMMA FlushKeepsRow ==
    ASSUME TypeInv, Flushing, NEW k \in Keys, RowGone(k),
           Pending => k # cmd.key \/ cmd.at = "dropHit"
    PROVE  RowGone(k)'
<1>1. /\ cmd \in CommandState /\ UNCHANGED <<serve, touched>>
      /\ Only({"hit", "batch", "overtaken", "faults"}, cmd, cmd')
      /\ \/ cmd'.overtaken = cmd.overtaken /\ rows' = rows
         \/ /\ cmd.batch # Absent /\ UpsertRow(cmd.batch)
            /\ cmd'.overtaken = (cmd.overtaken \/ cmd.at = "dropHit")
  BY FlushingFacts DEF TypeInv
<1>2. cmd'.indexed = cmd.indexed /\ cmd'.dropped = cmd.dropped
  BY <1>1 DEF Only, Fields
<1>3. CASE cmd'.overtaken = cmd.overtaken /\ rows' = rows
  BY <1>1, <1>2, <1>3 DEF RowGone, Untouched
<1>4. CASE /\ cmd.batch # Absent /\ UpsertRow(cmd.batch)
           /\ cmd'.overtaken = (cmd.overtaken \/ cmd.at = "dropHit")
  <2> SUFFICES ASSUME Untouched(k, {"row"}), cmd.indexed, "index" \notin cmd.dropped, ~cmd'.overtaken
               PROVE  rows'[k] = Absent \/ (serve.at \in {"deleteBody", "dropRow"} /\ serve.key = k)
    BY <1>1, <1>2 DEF RowGone, Untouched
  <2>1. k # cmd.key
    BY <1>4 DEF Pending
  <2>2. rows'[k] = rows[k]
    BY <1>4, <2>1 DEF UpsertRow, TypeInv, CommandsType
  <2> QED
    BY <1>4, <2>2 DEF RowGone
<1> QED
  BY <1>1, <1>3, <1>4

LEMMA FlushKeeps ==
    ASSUME TypeInv, Flushing
    PROVE  /\ GoesOn /\ tiers' = tiers /\ (Pending' => Pending)
           /\ cmd'.ok = cmd.ok /\ cmd'.at = cmd.at /\ cmd'.left = cmd.left /\ cmd'.key = cmd.key
           /\ cmd'.part = cmd.part /\ cmd'.dropped = cmd.dropped /\ cmd'.walk = cmd.walk
           /\ cmd'.out = cmd.out /\ cmd'.indexed = cmd.indexed
           /\ cmd.at \in {"size", "close"} \cup Deleting
<1>1. /\ GoesOn /\ tiers' = tiers /\ cmd \in CommandState
      /\ Only({"hit", "batch", "overtaken", "faults"}, cmd, cmd')
      /\ \/ cmd.at \in {"size"} \cup Deleting /\ cmd.hit # Absent /\ cmd'.overtaken = cmd.overtaken
         \/ cmd.batch # Absent /\ (cmd.overtaken => cmd'.overtaken)
  BY LocalGoes, FlushingFacts DEF TypeInv
<1>2. /\ cmd'.ok = cmd.ok /\ cmd'.at = cmd.at /\ cmd'.left = cmd.left /\ cmd'.key = cmd.key
      /\ cmd'.part = cmd.part /\ cmd'.dropped = cmd.dropped /\ cmd'.walk = cmd.walk
      /\ cmd'.out = cmd.out /\ cmd'.indexed = cmd.indexed
  BY <1>1 DEF Only, Fields
<1>3. cmd.at \in {"size", "close"} \cup Deleting
  BY <1>1, NotIdle DEF TypeInv, CourseOf
<1> QED
  BY <1>1, <1>2, <1>3 DEF Pending

LEMMA GoneFlushing ==
    ASSUME TypeInv, GoneInv, NEW k \in Keys, Sought(k)', Flushing
    PROVE  Searched(k)' /\ DeletedUp(k)'
<1>1. /\ GoesOn /\ tiers' = tiers /\ (Pending' => Pending)
      /\ cmd'.ok = cmd.ok /\ cmd'.at = cmd.at /\ cmd'.left = cmd.left /\ cmd'.key = cmd.key
      /\ cmd'.part = cmd.part /\ cmd'.dropped = cmd.dropped /\ cmd'.walk = cmd.walk
      /\ cmd.at \in {"size", "close"} \cup Deleting
  BY FlushKeeps
<1>2. Sought(k) /\ cmd # Idle /\ DeletedUp(k)
  BY <1>1, SoughtBefore DEF GoneInv, Sought
<1>3. CASE cmd.at = "size"
  BY <1>1, <1>3, Elsewhere DEF Deleting
<1>4. CASE cmd.at \in {"close"} \cup Deleting
  <2>1. (Readable(k)' <=> Readable(k)) /\ (Clean(k)' <=> Clean(k)) /\ (Bare(k)' <=> Bare(k))
    BY <1>1, SameTiers
  <2>2. Gone(k) /\ (Pending => k # cmd.key \/ cmd.at = "dropHit") => Gone(k)'
    BY <2>1, FlushKeepsRow DEF Gone
  <2>3. Untouched(k, {"delete"})' <=> Untouched(k, {"delete"})
    BY <1>1 DEF GoesOn, Untouched
  <2>4. InDeletion(k)' <=> InDeletion(k)
    BY <1>1 DEF InDeletion
  <2>5. DeletedUp(k)'
    BY <1>1, <1>2, <1>4, <2>1, <2>2, <2>3, <2>4 DEF DeletedUp
  <2>6. Searched(k)'
    BY <1>1, <1>4 DEF Searched, Deleting
  <2> QED
    BY <2>5, <2>6
<1> QED
  BY <1>1, <1>3, <1>4

LEMMA CloseKeeps ==
    ASSUME TypeInv, Close
    PROVE  /\ GoesOn /\ tiers' = tiers /\ cmd.at = "close" /\ cmd'.at = "done"
           /\ cmd'.ok = cmd.ok /\ cmd'.out = cmd.out /\ (Pending' => Pending)
           /\ \A k \in Keys : Gone(k) /\ ~Pending => Gone(k)'
<1>1. /\ GoesOn /\ tiers' = tiers /\ Only({"at", "faults", "dropped"}, cmd, cmd')
      /\ cmd.at = "close" /\ cmd'.at = "done"
      /\ \/ rows' = rows
         \/ cmd.hit # Absent /\ cmd'.dropped = cmd.dropped
  BY LocalGoes, CloseFacts DEF TypeInv
<1>2. /\ cmd'.ok = cmd.ok /\ cmd'.out = cmd.out /\ cmd'.hit = cmd.hit /\ cmd'.batch = cmd.batch
      /\ cmd'.indexed = cmd.indexed /\ cmd'.overtaken = cmd.overtaken
  BY <1>1 DEF Only, Fields
<1>3. Pending' => Pending
  BY <1>1, <1>2 DEF Pending, GoesOn
<1>4. ASSUME NEW k \in Keys, Gone(k), ~Pending PROVE Gone(k)'
  <2>1. CASE rows' = rows
    BY <1>1, <1>4, <2>1, SameTiers
  <2>2. CASE cmd.hit # Absent /\ cmd'.dropped = cmd.dropped
    <3>1. Clean(k)' /\ Bare(k)'
      BY <1>1, <1>4, SameTiers DEF Gone
    <3> QED
      BY <1>2, <1>4, <2>2, <3>1 DEF Gone, RowGone, Pending
  <2> QED
    BY <1>1, <2>1, <2>2
<1> QED
  BY <1>1, <1>2, <1>3, <1>4

LEMMA GoneClose ==
    ASSUME TypeInv, GoneInv, NEW k \in Keys, Sought(k)', Close
    PROVE  Searched(k)' /\ DeletedUp(k)'
<1>1. /\ GoesOn /\ cmd.at = "close" /\ cmd'.at = "done" /\ cmd'.ok = cmd.ok
      /\ (Pending' => Pending) /\ (Gone(k) /\ ~Pending => Gone(k)')
  BY CloseKeeps
<1>2. Sought(k) /\ cmd # Idle /\ DeletedUp(k)
  BY <1>1, SoughtBefore DEF GoneInv, Sought
<1>3. ~InDeletion(k) /\ ~InDeletion(k)'
  BY <1>1 DEF InDeletion, Deleting
<1>4. Gone(k) /\ ~Pending
  BY <1>1, <1>2, <1>3 DEF DeletedUp, Deleting
<1>5. DeletedUp(k)'
  BY <1>1, <1>3, <1>4 DEF DeletedUp, Deleting
<1> QED
  BY <1>1, <1>5 DEF Searched

LEMMA GoneDeleteNext ==
    ASSUME TypeInv, SeenInv, GoneInv, NEW k \in Keys, Sought(k)', NEW j \in Keys, DeleteNext(j)
    PROVE  Searched(k)' /\ DeletedUp(k)'
<1>1. /\ GoesOn /\ tiers' = tiers /\ rows' = rows /\ cmd.at = "delete" /\ j \in cmd.left
      /\ cmd'.key = j /\ cmd'.left = cmd.left \ {j}
  BY CallGoes, DeleteNextFacts DEF TypeInv
<1>2. PICK F \in FailingTiers :
         /\ AfterCall({"at", "key", "left", "part"}, F, cmd')
         /\ \/ Holding(j, "meta", F) = {} /\ cmd'.at = "raced"
            \/ Holding(j, "meta", F) # {} /\ cmd'.at = "deleteFile" /\ cmd'.part = "meta"
  BY DeleteNextFacts DEF TypeInv
<1>3. F = {} /\ cmd'.ok = cmd.ok /\ cmd'.hit = cmd.hit /\ cmd'.dropped = cmd.dropped
      /\ cmd'.walk = cmd.walk
  BY <1>2 DEF AfterCall, Sought, Only, Fields
<1>4. Sought(k) /\ cmd # Idle /\ DeletedUp(k)
  BY <1>1, <1>3, SoughtBefore DEF GoneInv, Sought
<1>5. cmd.left \subseteq cmd.walk
  BY <1>4 DEF SeenInv, ChoiceOf, Sought
<1>6. /\ (Readable(k)' <=> Readable(k)) /\ (Clean(k)' <=> Clean(k)) /\ (Gone(k) => Gone(k)')
  BY <1>1, SameTiers
<1>7. Untouched(k, {"delete"})' <=> Untouched(k, {"delete"})
  BY <1>1 DEF GoesOn, Untouched
<1>8. ~InDeletion(k) /\ (InDeletion(k)' <=> k = j) /\ cmd'.at \in {"raced", "deleteFile"}
  BY <1>1, <1>2 DEF InDeletion, Deleting
<1>11. Pending' <=> Pending
  <2>1. cmd'.batch = cmd.batch /\ cmd'.indexed = cmd.indexed /\ cmd'.overtaken = cmd.overtaken
    BY <1>2 DEF AfterCall, Only, Fields
  <2> QED
    BY <1>3, <2>1 DEF Pending
<1>9. CASE k # j
  <2>1. ~Pending
    BY <1>1, <1>4, <1>5, <1>9 DEF DeletedUp, Deleting
  <2>2. DeletedUp(k)'
    BY <1>1, <1>3, <1>4, <1>6, <1>7, <1>8, <1>9, <1>11, <2>1 DEF DeletedUp, Deleting
  <2> QED
    BY <1>8, <2>2 DEF Searched
<1>10. CASE k = j
  <2>1. Untouched(k, {"delete"}) => Readable(k)
    BY <1>1, <1>4, <1>10 DEF DeletedUp, Deleting
  <2>2. cmd'.at = "raced" => Clean(k) /\ ~Untouched(k, {"delete"})
    <3> SUFFICES ASSUME cmd'.at = "raced" PROVE Clean(k) /\ ~Untouched(k, {"delete"})
      OBVIOUS
    <3>1. Holding(k, "meta", {}) = {}
      BY <1>2, <1>3, <1>10
    <3>2. Clean(k)
      BY <3>1 DEF Holding, Clean
    <3>3. ~Readable(k)
      BY <3>1, CommandsAssumption DEF Readable, Visible
    <3> QED
      BY <2>1, <3>2, <3>3
  <2>3. Pending => cmd.walk = {k}
    BY <1>1, <1>4 DEF DeletedUp, Deleting
  <2>4. cmd'.at = "deleteFile" => cmd'.part = "meta"
    BY <1>2
  <2>5. DeletedUp(k)'
    BY <1>1, <1>3, <1>6, <1>7, <1>8, <1>10, <1>11, <2>1, <2>2, <2>3, <2>4 DEF DeletedUp, Deleting
  <2> QED
    BY <1>8, <2>5 DEF Searched
<1> QED
  BY <1>9, <1>10

LEMMA GoneDeleteFile ==
    ASSUME TypeInv, SeenInv, GoneInv, NEW k \in Keys, Sought(k)', DeleteFile
    PROVE  Searched(k)' /\ DeletedUp(k)'
<1>1. GoesOn /\ rows' = rows /\ cmd.at = "deleteFile" /\ cmd.key \in Keys /\ cmd.part \in Parts
  BY CallGoes, DeletedTiers DEF DeleteFile
<1>2. cmd'.ok
  BY DEF Sought
<1>3. PICK F \in FailingTiers :
         /\ WrittenAs(tiers', Tiers \ F, cmd.key, cmd.part, Absent)
         /\ F = {}
         /\ \/ /\ cmd.part = "meta" /\ Only({"part", "faults"}, cmd, cmd') /\ cmd'.part = "body"
            \/ /\ cmd.part = "body" /\ Only({"at", "faults"}, cmd, cmd') /\ cmd'.at = "deleteRow"
  BY <1>2, DeletedTiers
<1>4. /\ cmd'.ok = cmd.ok /\ cmd'.hit = cmd.hit /\ cmd'.dropped = cmd.dropped
      /\ cmd'.walk = cmd.walk /\ cmd'.key = cmd.key /\ cmd'.left = cmd.left
      /\ cmd'.at = IF cmd.part = "meta" THEN "deleteFile" ELSE "deleteRow"
  BY <1>1, <1>3 DEF Only, Fields
<1>5. Sought(k) /\ cmd # Idle /\ DeletedUp(k)
  BY <1>1, <1>2, <1>4, SoughtBefore DEF GoneInv
<1>6. Untouched(k, {"delete"})' <=> Untouched(k, {"delete"})
  BY <1>1 DEF GoesOn, Untouched
<1>11. Pending' <=> Pending
  BY <1>3, <1>4 DEF Only, Fields, Pending
<1>7. (InDeletion(k) <=> k = cmd.key) /\ (InDeletion(k)' <=> k = cmd.key)
  BY <1>1, <1>4 DEF InDeletion, Deleting
<1>8. \A t \in Tiers, j \in Keys, p \in Parts :
         tiers'[t][j][p] = IF j = cmd.key /\ p = cmd.part THEN Absent ELSE tiers[t][j][p]
  BY <1>3 DEF WrittenAs
<1>9. CASE k # cmd.key
  <2>1. \A t \in Tiers, part \in Parts : tiers'[t][k][part] = tiers[t][k][part]
    BY <1>8, <1>9
  <2>2. (Readable(k)' <=> Readable(k)) /\ (Gone(k) => Gone(k)')
    BY <1>1, <2>1, SameTiers
  <2>3. DeletedUp(k)'
    BY <1>1, <1>4, <1>5, <1>6, <1>7, <1>9, <1>11, <2>2 DEF DeletedUp, Deleting
  <2> QED
    BY <1>4, <2>3 DEF Searched
<1>10. CASE k = cmd.key
  <2>1. CASE cmd.part = "meta"
    <3>1. Clean(k)'
      BY <1>8, <1>10, <2>1 DEF Clean, Parts
    <3>2. cmd'.part = "body"
      BY <1>3, <2>1
    <3>3. DeletedUp(k)'
      BY <1>1, <1>4, <1>5, <1>7, <1>10, <1>11, <2>1, <3>1, <3>2 DEF DeletedUp, Deleting
    <3> QED
      BY <1>4, <3>3 DEF Searched
  <2>2. CASE cmd.part = "body"
    <3>1. Clean(k)
      BY <1>1, <1>5, <1>7, <1>10, <2>2 DEF DeletedUp, Deleting
    <3>2. Clean(k)' /\ Bare(k)'
      BY <1>8, <1>10, <2>2, <3>1 DEF Clean, Bare, Parts
    <3>3. DeletedUp(k)'
      BY <1>1, <1>4, <1>5, <1>7, <1>10, <1>11, <2>2, <3>2 DEF DeletedUp, Deleting
    <3> QED
      BY <1>4, <3>3 DEF Searched
  <2> QED
    BY <1>1, <2>1, <2>2 DEF Parts
<1> QED
  BY <1>9, <1>10

LEMMA GoneDeleteRow ==
    ASSUME TypeInv, SeenInv, GoneInv, NEW k \in Keys, Sought(k)', DeleteRow
    PROVE  Searched(k)' /\ DeletedUp(k)'
<1>1. /\ GoesOn /\ tiers' = tiers /\ cmd.at \in {"deleteRow", "raced"}
      /\ cmd'.at \in {"delete", "dropHit"}
      /\ Only({"at", "out", "faults", "dropped"}, cmd, cmd')
      /\ \/ /\ rows' = [rows EXCEPT ![cmd.key] = Absent] /\ cmd'.at = "dropHit"
            /\ cmd'.dropped = cmd.dropped
         \/ rows' = rows /\ cmd'.at = "delete" /\ cmd'.dropped = cmd.dropped \cup {"index"}
         \/ rows' = rows /\ cmd'.at = "delete" /\ cmd'.dropped = cmd.dropped /\ ~cmd.indexed
  BY LocalGoes, DeleteRowFacts DEF TypeInv
<1>2. /\ cmd'.ok = cmd.ok /\ cmd'.left = cmd.left /\ cmd'.key = cmd.key /\ cmd'.walk = cmd.walk
      /\ cmd'.hit = cmd.hit /\ cmd'.batch = cmd.batch /\ cmd'.indexed = cmd.indexed
      /\ cmd'.overtaken = cmd.overtaken
  BY <1>1 DEF Only, Fields
<1>3. Sought(k) /\ cmd # Idle /\ DeletedUp(k)
  BY <1>1, <1>2, SoughtBefore DEF GoneInv, Sought
<1>4. Gone(k) /\ rows'[k] = rows[k] => Gone(k)'
  BY <1>1, SameTiers
<1>5. Untouched(k, {"delete"})' <=> Untouched(k, {"delete"})
  BY <1>1 DEF GoesOn, Untouched
<1>6. (InDeletion(k) <=> k = cmd.key) /\ (InDeletion(k)' <=> k = cmd.key /\ cmd'.at = "dropHit")
  BY <1>1, <1>2 DEF InDeletion, Deleting
<1>7. rows \in [Keys -> Values("body")]
  BY DEF TypeInv, CommandsType
<1>8. Pending' => Pending /\ cmd'.at = "dropHit"
  BY <1>1, <1>2 DEF Pending
<1>9. k \notin cmd.left => Gone(k)'
  <2> SUFFICES ASSUME k \notin cmd.left PROVE Gone(k)'
    OBVIOUS
  <2>1. CASE k # cmd.key
    <3>1. Gone(k) /\ rows'[k] = rows[k]
      BY <1>1, <1>3, <1>6, <1>7, <2>1 DEF DeletedUp, Deleting
    <3> QED
      BY <1>4, <3>1
  <2>2. CASE k = cmd.key
    <3>1. Clean(k) /\ Bare(k)
      BY <1>1, <1>3, <1>6, <2>2 DEF DeletedUp, Deleting, Bare
    <3>2. Clean(k)' /\ Bare(k)'
      BY <1>1, <3>1, SameTiers
    <3>3. rows'[k] = Absent \/ "index" \in cmd'.dropped \/ ~cmd'.indexed
      BY <1>1, <1>2, <1>7, <2>2
    <3> QED
      BY <3>2, <3>3 DEF Gone, RowGone
  <2> QED
    BY <2>1, <2>2
<1>10. k \in cmd.left => (Untouched(k, {"delete"})' => Readable(k)')
  <2>1. Readable(k)' <=> Readable(k)
    BY <1>1, SameTiers
  <2> QED
    BY <1>1, <1>3, <1>5, <2>1 DEF DeletedUp, Deleting
<1>11. k = cmd.key => k \notin cmd.left
  BY <1>1, <1>3, <1>6 DEF DeletedUp, Deleting
<1>12. DeletedUp(k)'
  BY <1>1, <1>2, <1>3, <1>6, <1>8, <1>9, <1>10, <1>11 DEF DeletedUp, Deleting
<1> QED
  BY <1>1, <1>12 DEF Searched

LEMMA GoneDropHit ==
    ASSUME TypeInv, GoneInv, NEW k \in Keys, Sought(k)', DropHit
    PROVE  Searched(k)' /\ DeletedUp(k)'
<1>1. /\ GoesOn /\ tiers' = tiers /\ rows' = rows /\ cmd.at = "dropHit" /\ cmd'.at = "delete"
      /\ Only({"at", "hit", "overtaken"}, cmd, cmd') /\ cmd'.hit = Absent
      /\ cmd'.overtaken = (cmd.overtaken \/ cmd.batch # Absent)
  BY LocalGoes, DropHitFacts DEF TypeInv
<1>2. cmd'.ok = cmd.ok /\ cmd'.left = cmd.left /\ cmd'.batch = cmd.batch
  BY <1>1 DEF Only, Fields
<1>3. Sought(k) /\ cmd # Idle /\ DeletedUp(k)
  BY <1>1, <1>2, SoughtBefore DEF GoneInv, Sought
<1>4. ~InDeletion(k)' /\ ~Pending'
  BY <1>1, <1>2 DEF InDeletion, Pending
<1>5. (Readable(k)' <=> Readable(k)) /\ (Gone(k) => Gone(k)')
  BY <1>1, SameTiers
<1>6. Untouched(k, {"delete"})' <=> Untouched(k, {"delete"})
  BY <1>1 DEF GoesOn, Untouched
<1>7. k \notin cmd.left => Gone(k)
  BY <1>1, <1>3 DEF DeletedUp, Deleting
<1>8. k \in cmd.left => (Untouched(k, {"delete"}) => Readable(k))
  BY <1>1, <1>3 DEF DeletedUp, Deleting
<1>9. DeletedUp(k)'
  BY <1>1, <1>2, <1>4, <1>5, <1>6, <1>7, <1>8 DEF DeletedUp, Deleting
<1> QED
  BY <1>1, <1>9 DEF Searched

LEMMA GoneDeletesEnd ==
    ASSUME TypeInv, GoneInv, NEW k \in Keys, Sought(k)', DeletesEnd
    PROVE  Searched(k)' /\ DeletedUp(k)'
<1>1. /\ GoesOn /\ tiers' = tiers /\ rows' = rows /\ cmd.at = "delete" /\ cmd.left = {}
      /\ cmd'.at = "close" /\ Only({"at"}, cmd, cmd')
  BY LocalGoes, EndFacts DEF TypeInv, DeletesEnd
<1>2. cmd'.ok = cmd.ok /\ (Pending' <=> Pending)
  BY <1>1 DEF Only, Fields, Pending
<1>3. Sought(k) /\ cmd # Idle /\ DeletedUp(k)
  BY <1>1, <1>2, SoughtBefore DEF GoneInv, Sought
<1>4. ~InDeletion(k) /\ ~InDeletion(k)'
  BY <1>1 DEF InDeletion, Deleting
<1>5. Gone(k) /\ ~Pending
  BY <1>1, <1>3, <1>4 DEF DeletedUp, Deleting
<1>6. Gone(k)'
  BY <1>1, <1>5, SameTiers
<1>7. DeletedUp(k)'
  BY <1>1, <1>2, <1>4, <1>5, <1>6 DEF DeletedUp, Deleting
<1> QED
  BY <1>1, <1>7 DEF Searched

LEMMA GoneGoing ==
    ASSUME TypeInv, SeenInv, GoneInv, PagedTiers = {}, Going
    PROVE  GoneInv'
<1> SUFFICES ASSUME NEW k \in Keys, Sought(k)' PROVE Searched(k)' /\ DeletedUp(k)'
  BY DEF GoneInv
<1>1. GoesOn /\ cmd'.op = "invalidate" /\ cmd'.ok
  BY GoingType DEF Sought
<1>2. cmd.op = "invalidate" /\ cmd # Idle /\ CourseOf(cmd)
  BY <1>1, NotIdle DEF GoesOn, Kept, Settings, TypeInv
<1>3. cmd.at \notin {"query", "exists", "size", "upsert", "keys", "orphans"}
  BY <1>2 DEF CourseOf
<1>4. ~Query /\ ~ExistsForShow /\ ~Size /\ ~Upsert /\ ~AllKeys /\ ~OrphansEnd
      /\ \A j \in Keys : ~DeleteOrphan(j)
  BY <1>3 DEF Query, ExistsForShow, Size, Upsert, AllKeys, OrphansEnd, DeleteOrphan
<1>5. ~DropOrphan
  BY <1>1, DropOrphanFacts DEF TypeInv
<1> QED
  BY <1>4, <1>5, GoneList, GoneRead, GoneFill, GoneWalkEnds, GoneRecordHit, GoneFlushing,
     GoneClose, GoneDeleteNext, GoneDeleteFile, GoneDeleteRow, GoneDropHit, GoneDeletesEnd
     DEF Going, Flushing

\* What invalidate reports as deleted, also when it fails later: no call's error
\* was dropped so far, and serve has written nothing of k.
Meant(k) ==
    /\ cmd.op = "invalidate" /\ ~cmd.dry /\ "storage" \notin cmd.dropped
    /\ Untouched(k, {"put", "fill"})

\* k is reported once its files are gone, and its row goes next.
Removing(k) ==
    /\ k \in cmd.out => cmd.at \in Deleting \cup {"close", "done"} /\ Gone(k)
    /\ cmd.at \in Deleting /\ k \in cmd.left => k \notin cmd.out /\ ~InDeletion(k)
    /\ InDeletion(k) => k \notin cmd.out \/ cmd.at = "dropHit"
    /\ InDeletion(k) /\ cmd.at = "deleteFile" /\ cmd.part = "body" => Clean(k)
    /\ InDeletion(k) /\ cmd.at = "deleteRow" => Clean(k) /\ Bare(k)
    /\ k \in cmd.out /\ Pending => InDeletion(k)

RemovedInv == cmd # Idle => \A k \in Keys : Meant(k) => Removing(k)

\* Until the deletes begin nothing is reported.
LEMMA Entering ==
    ASSUME TypeInv, Going, cmd.op = "invalidate", ~cmd.dry, cmd.at \in BeforeDeletes
    PROVE  cmd'.out = cmd.out /\ cmd'.at \notin {"deleteFile", "deleteRow", "raced", "dropHit"}
<1>1. cmd # Idle
  BY DEF Idle, BeforeDeletes
<1>2. CourseOf(cmd)
  BY <1>1 DEF TypeInv
<1>3. ~Query /\ ~ExistsForShow /\ ~Size /\ ~Upsert /\ ~AllKeys /\ ~OrphansEnd
      /\ \A j \in Keys : ~DeleteOrphan(j)
  BY <1>2 DEF CourseOf, Query, ExistsForShow, Size, Upsert, AllKeys, OrphansEnd, DeleteOrphan
<1>4. ~Close /\ ~DeleteFile /\ ~DeleteRow /\ ~DropHit /\ ~DeletesEnd
      /\ \A j \in Keys : ~DeleteNext(j)
  BY DEF BeforeDeletes, Close, DeleteFile, DeleteRow, DropHit, DeletesEnd, DeleteNext
<1>5. ASSUME NEW c, NEW v, Advanced(c, v, cmd'), c.op = cmd.op, c.dry = cmd.dry, c.out = cmd.out
      PROVE  cmd'.out = cmd.out /\ cmd'.at \notin {"deleteFile", "deleteRow", "raced", "dropHit"}
  BY <1>5 DEF Advanced, Cut, Taken, LocatedAs, Only, Fields
<1>6. CASE List
  <2>1. cmd'.at = "walk" /\ \E F : AfterCall({"at", "listed"}, F, cmd')
    BY <1>6, ListFacts DEF TypeInv
  <2> QED
    BY <2>1 DEF AfterCall, Only, Fields
<1>7. ASSUME NEW k \in Keys, Read(k)
      PROVE  cmd'.out = cmd.out /\ cmd'.at \notin {"deleteFile", "deleteRow", "raced", "dropHit"}
  <2>1. PICK F \in FailingTiers, c \in CommandState :
           /\ AfterCall({"key", "listed", "part"}, F, c)
           /\ \/ GivenUp(c, cmd')
              \/ Only({"at"}, c, cmd') /\ cmd'.at = "orphan"
              \/ \E v : Advanced(c, v, cmd')
              \/ Only({"span", "data"}, c, cmd')
    BY <1>7, ReadFacts DEF TypeInv
  <2>2. /\ c.op = cmd.op /\ c.dry = cmd.dry /\ c.out = cmd.out /\ c.at = cmd.at
    BY <2>1 DEF AfterCall, Only, Fields
  <2>3. CASE \/ GivenUp(c, cmd')
             \/ Only({"at"}, c, cmd') /\ cmd'.at = "orphan"
             \/ Only({"span", "data"}, c, cmd')
    BY <2>2, <2>3 DEF GivenUp, Only, Fields, BeforeDeletes
  <2> QED
    BY <1>5, <2>1, <2>2, <2>3
<1>8. CASE Fill
  <2>1. PICK F \in FailingTiers, c \in CommandState :
           AfterCall({"span"}, F, c) /\ Advanced(c, cmd.data, cmd')
    BY <1>8, FillFacts DEF TypeInv
  <2>2. c.op = cmd.op /\ c.dry = cmd.dry /\ c.out = cmd.out
    BY <2>1 DEF AfterCall, Only, Fields
  <2> QED
    BY <1>5, <2>1, <2>2
<1>9. CASE WalkEnds
  <2>1. Only({"at", "left"}, cmd, cmd') /\ cmd'.at = "delete"
    BY <1>9, WalkEndsFacts DEF TypeInv, ScannedAs
  <2> QED
    BY <2>1 DEF Only, Fields
<1>10. CASE DropOrphan
  BY <1>10, DropOrphanFacts DEF TypeInv, Only, Fields
<1>11. CASE RecordHit
  <2>1. PICK c \in CommandState : Only({"faults", "dropped", "hit"}, cmd, c) /\ LocatedAs(c, cmd')
    BY <1>11, RecordHitFacts DEF TypeInv
  <2>2. c.op = cmd.op /\ c.dry = cmd.dry /\ c.out = cmd.out
    BY <2>1 DEF Only, Fields
  <2> QED
    BY <2>1, <2>2 DEF LocatedAs, Only, Fields
<1>12. CASE Flushing
  <2>1. cmd'.at = cmd.at /\ cmd'.out = cmd.out
    BY <1>12, FlushKeeps
  <2> QED
    BY <2>1 DEF BeforeDeletes
<1> QED
  BY <1>3, <1>4, <1>6, <1>7, <1>8, <1>9, <1>10, <1>11, <1>12 DEF Going, Flushing

LEMMA MeantBefore ==
    ASSUME GoesOn, NEW k, Meant(k)'
    PROVE  Meant(k) /\ cmd # Idle
  BY NotIdle DEF GoesOn, Kept, Settings, Meant, Untouched

LEMMA RemovedServe ==
    ASSUME TypeInv, RemovedInv, Serve
    PROVE  RemovedInv'
<1>1. cmd' = cmd /\ touched \subseteq touched'
  BY ServeGoes DEF ServeWrites
<1> SUFFICES ASSUME cmd # Idle, NEW k \in Keys, Meant(k)' PROVE Removing(k)'
  BY <1>1 DEF RemovedInv
<1>2. Untouched(k, {"put", "fill"})' /\ Untouched(k, {"put"})' /\ Meant(k)
  BY <1>1 DEF Meant, Untouched
<1>3. Removing(k)
  BY <1>2 DEF RemovedInv
<1>4. \A t \in Tiers, part \in Parts :
         \/ tiers'[t][k][part] = tiers[t][k][part]
         \/ tiers'[t][k][part] = Absent /\ <<k, "delete">> \in touched'
  BY <1>2, ServeTiers
<1>5. Clean(k) => Clean(k)'
  BY <1>4 DEF Clean, Parts
<1>6. Bare(k) => Bare(k)'
  BY <1>1, <1>4 DEF Bare, Parts, Untouched
<1>7. Gone(k) => Gone(k)'
  BY <1>1, <1>2, <1>5, <1>6, ServeRows DEF Gone
<1>8. (InDeletion(k)' <=> InDeletion(k)) /\ (Pending' <=> Pending)
  BY <1>1 DEF InDeletion, Pending
<1> QED
  BY <1>1, <1>3, <1>5, <1>6, <1>7, <1>8 DEF Removing

LEMMA RemovedBegin ==
    ASSUME TypeInv, NEW i \in Invocations, Begin(i)
    PROVE  RemovedInv'
<1>1. FreshAs(i, cmd') /\ cmd'.at \in {"query", "exists", "get", "list"}
  BY BeginFacts DEF BegunAs
<1> QED
  BY <1>1 DEF RemovedInv, Removing, FreshAs, InDeletion, Deleting

LEMMA RemovedFlushing ==
    ASSUME TypeInv, RemovedInv, NEW k \in Keys, Meant(k)', Flushing
    PROVE  Removing(k)'
<1>1. /\ GoesOn /\ tiers' = tiers /\ (Pending' => Pending)
      /\ cmd'.at = cmd.at /\ cmd'.left = cmd.left /\ cmd'.key = cmd.key /\ cmd'.part = cmd.part
      /\ cmd'.out = cmd.out
  BY FlushKeeps
<1>2. Removing(k)
  BY <1>1, MeantBefore DEF RemovedInv
<1>3. (Clean(k)' <=> Clean(k)) /\ (Bare(k)' <=> Bare(k)) /\ (InDeletion(k)' <=> InDeletion(k))
  BY <1>1, SameTiers DEF InDeletion
<1>4. k \in cmd.out => Gone(k)'
  <2> SUFFICES ASSUME k \in cmd.out PROVE Gone(k)'
    OBVIOUS
  <2>1. Gone(k) /\ (Pending => InDeletion(k) /\ cmd.at = "dropHit")
    BY <1>2 DEF Removing
  <2> QED
    BY <1>3, <2>1, FlushKeepsRow DEF Gone
<1> QED
  BY <1>1, <1>2, <1>3, <1>4 DEF Removing

LEMMA RemovedClose ==
    ASSUME TypeInv, RemovedInv, NEW k \in Keys, Meant(k)', Close
    PROVE  Removing(k)'
<1>1. /\ GoesOn /\ cmd.at = "close" /\ cmd'.at = "done" /\ cmd'.out = cmd.out
      /\ (Pending' => Pending) /\ (Gone(k) /\ ~Pending => Gone(k)')
  BY CloseKeeps
<1>2. Removing(k)
  BY <1>1, MeantBefore DEF RemovedInv
<1>3. ~InDeletion(k) /\ ~InDeletion(k)'
  BY <1>1 DEF InDeletion, Deleting
<1> QED
  BY <1>1, <1>2, <1>3 DEF Removing, Deleting

LEMMA RemovedDeleteNext ==
    ASSUME TypeInv, RemovedInv, NEW k \in Keys, Meant(k)', NEW j \in Keys, DeleteNext(j)
    PROVE  Removing(k)'
<1>1. /\ GoesOn /\ tiers' = tiers /\ rows' = rows /\ cmd.at = "delete" /\ j \in cmd.left
      /\ cmd'.key = j /\ cmd'.left = cmd.left \ {j}
  BY CallGoes, DeleteNextFacts DEF TypeInv
<1>2. PICK F \in FailingTiers :
         /\ AfterCall({"at", "key", "left", "part"}, F, cmd')
         /\ cmd'.at = "raced" \/ (cmd'.at = "deleteFile" /\ cmd'.part = "meta")
  BY DeleteNextFacts DEF TypeInv
<1>3. /\ cmd'.out = cmd.out /\ cmd'.hit = cmd.hit /\ cmd'.batch = cmd.batch
      /\ cmd'.indexed = cmd.indexed /\ cmd'.overtaken = cmd.overtaken
  BY <1>2 DEF AfterCall, Only, Fields
<1>4. Removing(k)
  BY <1>1, MeantBefore DEF RemovedInv
<1>5. Gone(k) => Gone(k)'
  BY <1>1, SameTiers
<1>6. Pending' => Pending
  BY <1>1, <1>3 DEF Pending, GoesOn
<1>7. ~InDeletion(k) /\ (InDeletion(k)' <=> k = j) /\ cmd'.at \in Deleting
  BY <1>1, <1>2 DEF InDeletion, Deleting
<1> QED
  BY <1>1, <1>2, <1>3, <1>4, <1>5, <1>6, <1>7 DEF Removing, Deleting

LEMMA RemovedDeleteFile ==
    ASSUME TypeInv, RemovedInv, NEW k \in Keys, Meant(k)', DeleteFile
    PROVE  Removing(k)'
<1>1. GoesOn /\ rows' = rows /\ cmd.at = "deleteFile" /\ cmd.key \in Keys /\ cmd.part \in Parts
  BY CallGoes, DeletedTiers DEF DeleteFile
<1>2. PICK F \in FailingTiers :
         /\ WrittenAs(tiers', Tiers \ F, cmd.key, cmd.part, Absent)
         /\ \/ Only({"at", "ok", "faults"}, cmd, cmd') /\ cmd'.at = "delete"
            \/ /\ F = {} /\ cmd.part = "meta" /\ Only({"part", "faults"}, cmd, cmd')
               /\ cmd'.part = "body"
            \/ /\ F = {} /\ cmd.part = "body" /\ Only({"at", "faults"}, cmd, cmd')
               /\ cmd'.at = "deleteRow"
  BY DeletedTiers
<1>3. /\ cmd'.out = cmd.out /\ cmd'.key = cmd.key /\ cmd'.left = cmd.left /\ (Pending' <=> Pending)
  BY <1>2 DEF Only, Fields, Pending
<1>4. Removing(k)
  BY <1>1, MeantBefore DEF RemovedInv
<1>5. InDeletion(k) <=> k = cmd.key
  BY <1>1 DEF InDeletion, Deleting
<1>6. \A t \in Tiers, q \in Keys, p \in Parts :
         tiers'[t][q][p] = IF t \in Tiers \ F /\ q = cmd.key /\ p = cmd.part THEN Absent
                           ELSE tiers[t][q][p]
  BY <1>2 DEF WrittenAs
<1>7. CASE k # cmd.key
  <2>1. \A t \in Tiers, part \in Parts : tiers'[t][k][part] = tiers[t][k][part]
    BY <1>6, <1>7
  <2>2. Gone(k) => Gone(k)'
    BY <1>1, <2>1, SameTiers
  <2>3. ~InDeletion(k)'
    BY <1>3, <1>7 DEF InDeletion
  <2>4. cmd'.at \in Deleting
    BY <1>1, <1>2 DEF Only, Fields, Deleting
  <2> QED
    BY <1>1, <1>3, <1>4, <1>5, <1>7, <2>2, <2>3, <2>4 DEF Removing, Deleting
<1>8. CASE k = cmd.key
  <2>1. k \notin cmd.out /\ k \notin cmd.left
    BY <1>1, <1>4, <1>5, <1>8 DEF Removing, Deleting
  <2>2. CASE Only({"at", "ok", "faults"}, cmd, cmd') /\ cmd'.at = "delete"
    <3>1. ~InDeletion(k)'
      BY <2>2 DEF InDeletion
    <3> QED
      BY <1>3, <2>1, <3>1 DEF Removing
  <2>3. CASE /\ F = {} /\ cmd.part = "meta" /\ Only({"part", "faults"}, cmd, cmd')
             /\ cmd'.part = "body"
    <3>1. Clean(k)' /\ cmd'.at = "deleteFile"
      BY <1>1, <1>6, <1>8, <2>3 DEF Clean, Parts, Only, Fields
    <3> QED
      BY <1>3, <2>1, <3>1 DEF Removing
  <2>4. CASE /\ F = {} /\ cmd.part = "body" /\ Only({"at", "faults"}, cmd, cmd')
             /\ cmd'.at = "deleteRow"
    <3>1. Clean(k)
      BY <1>1, <1>4, <1>5, <1>8, <2>4 DEF Removing
    <3>2. Clean(k)' /\ Bare(k)'
      BY <1>6, <1>8, <2>4, <3>1 DEF Clean, Bare, Parts
    <3> QED
      BY <1>3, <2>1, <2>4, <3>2 DEF Removing
  <2> QED
    BY <1>2, <2>2, <2>3, <2>4
<1> QED
  BY <1>7, <1>8

LEMMA RemovedDeleteRow ==
    ASSUME TypeInv, RemovedInv, NEW k \in Keys, Meant(k)', DeleteRow
    PROVE  Removing(k)'
<1>1. /\ GoesOn /\ tiers' = tiers /\ cmd.at \in {"deleteRow", "raced"}
      /\ cmd'.at \in {"delete", "dropHit"}
      /\ Only({"at", "out", "faults", "dropped"}, cmd, cmd')
      /\ cmd'.out = IF cmd.at = "raced" THEN cmd.out ELSE cmd.out \cup {cmd.key}
      /\ \/ rows' = [rows EXCEPT ![cmd.key] = Absent] /\ cmd'.at = "dropHit"
         \/ rows' = rows /\ cmd'.at = "delete" /\ cmd'.dropped = cmd.dropped \cup {"index"}
         \/ rows' = rows /\ cmd'.at = "delete" /\ ~cmd.indexed
  BY LocalGoes, DeleteRowFacts DEF TypeInv
<1>2. /\ cmd'.left = cmd.left /\ cmd'.key = cmd.key /\ cmd'.hit = cmd.hit
      /\ cmd'.batch = cmd.batch /\ cmd'.indexed = cmd.indexed /\ cmd'.overtaken = cmd.overtaken
  BY <1>1 DEF Only, Fields
<1>3. Removing(k)
  BY <1>1, MeantBefore DEF RemovedInv
<1>4. (InDeletion(k) <=> k = cmd.key) /\ (InDeletion(k)' <=> k = cmd.key /\ cmd'.at = "dropHit")
  BY <1>1, <1>2 DEF InDeletion, Deleting
<1>5. rows \in [Keys -> Values("body")]
  BY DEF TypeInv, CommandsType
<1>6. Pending' => Pending /\ cmd'.at = "dropHit"
  BY <1>1, <1>2 DEF Pending, GoesOn
<1>7. CASE k # cmd.key
  <2>1. rows'[k] = rows[k] /\ (k \in cmd'.out <=> k \in cmd.out)
    BY <1>1, <1>5, <1>7
  <2>2. Gone(k) => Gone(k)'
    BY <1>1, <2>1, SameTiers
  <2> QED
    BY <1>1, <1>2, <1>3, <1>4, <1>6, <1>7, <2>1, <2>2 DEF Removing, Deleting
<1>8. CASE k = cmd.key
  <2>1. k \notin cmd.out /\ k \notin cmd.left
    BY <1>1, <1>3, <1>4, <1>8 DEF Removing, Deleting
  <2>2. CASE cmd.at = "raced"
    BY <1>1, <1>2, <1>4, <2>1, <2>2 DEF Removing, InDeletion
  <2>3. CASE cmd.at = "deleteRow"
    <3>1. Clean(k)' /\ Bare(k)'
      BY <1>1, <1>3, <1>4, <1>8, <2>3, SameTiers DEF Removing
    <3>2. rows'[k] = Absent \/ "index" \in cmd'.dropped \/ ~cmd'.indexed
      BY <1>1, <1>2, <1>5, <1>8
    <3>3. Gone(k)'
      BY <3>1, <3>2 DEF Gone, RowGone
    <3> QED
      BY <1>1, <1>2, <1>4, <1>6, <1>8, <2>1, <3>3 DEF Removing, Deleting
  <2> QED
    BY <1>1, <2>2, <2>3
<1> QED
  BY <1>7, <1>8

LEMMA RemovedDropHit ==
    ASSUME TypeInv, RemovedInv, NEW k \in Keys, Meant(k)', DropHit
    PROVE  Removing(k)'
<1>1. /\ GoesOn /\ tiers' = tiers /\ rows' = rows /\ cmd.at = "dropHit" /\ cmd'.at = "delete"
      /\ Only({"at", "hit", "overtaken"}, cmd, cmd') /\ cmd'.hit = Absent
      /\ cmd'.overtaken = (cmd.overtaken \/ cmd.batch # Absent)
  BY LocalGoes, DropHitFacts DEF TypeInv
<1>2. cmd'.out = cmd.out /\ cmd'.left = cmd.left /\ cmd'.batch = cmd.batch
  BY <1>1 DEF Only, Fields
<1>3. Removing(k)
  BY <1>1, MeantBefore DEF RemovedInv
<1>4. ~InDeletion(k)' /\ ~Pending'
  BY <1>1, <1>2 DEF InDeletion, Pending
<1>5. Gone(k) => Gone(k)'
  BY <1>1, SameTiers
<1> QED
  BY <1>1, <1>2, <1>3, <1>4, <1>5 DEF Removing, Deleting

LEMMA RemovedDeletesEnd ==
    ASSUME TypeInv, RemovedInv, NEW k \in Keys, Meant(k)', DeletesEnd
    PROVE  Removing(k)'
<1>1. /\ GoesOn /\ tiers' = tiers /\ rows' = rows /\ cmd.at = "delete" /\ cmd.left = {}
      /\ cmd'.at = "close" /\ Only({"at"}, cmd, cmd')
  BY LocalGoes, EndFacts DEF TypeInv, DeletesEnd
<1>2. cmd'.out = cmd.out /\ (Pending' <=> Pending)
  BY <1>1 DEF Only, Fields, Pending
<1>3. Removing(k)
  BY <1>1, MeantBefore DEF RemovedInv
<1>4. ~InDeletion(k) /\ ~InDeletion(k)'
  BY <1>1 DEF InDeletion, Deleting
<1>5. Gone(k) => Gone(k)'
  BY <1>1, SameTiers
<1> QED
  BY <1>1, <1>2, <1>3, <1>4, <1>5 DEF Removing, Deleting

LEMMA RemovedGoing ==
    ASSUME TypeInv, RemovedInv, Going
    PROVE  RemovedInv'
<1> SUFFICES ASSUME NEW k \in Keys, Meant(k)' PROVE Removing(k)'
  BY DEF RemovedInv
<1>1. GoesOn /\ cmd \in CommandState
  BY GoingType DEF GoesOn
<1>2. Meant(k) /\ Removing(k) /\ cmd.op = "invalidate" /\ ~cmd.dry
  BY <1>1, MeantBefore DEF RemovedInv, Meant
<1>3. CASE cmd.at \in BeforeDeletes
  <2>1. cmd'.out = cmd.out /\ cmd'.at \notin {"deleteFile", "deleteRow", "raced", "dropHit"}
    BY <1>2, <1>3, Entering
  <2>2. k \notin cmd'.out
    BY <1>2, <1>3, <2>1 DEF Removing, Deleting, BeforeDeletes
  <2> QED
    BY <2>1, <2>2 DEF Removing, InDeletion, Deleting
<1>4. CASE cmd.at \notin BeforeDeletes
  <2>1. /\ ~Query /\ ~ExistsForShow /\ ~List /\ ~Fill /\ ~WalkEnds /\ ~DropOrphan
        /\ ~RecordHit /\ ~Size /\ ~Upsert /\ ~AllKeys /\ ~OrphansEnd
        /\ \A j \in Keys : ~Read(j) /\ ~DeleteOrphan(j)
    BY <1>4 DEF BeforeDeletes, Query, ExistsForShow, List, Fill, WalkEnds, DropOrphan, RecordHit,
                Size, Upsert, AllKeys, OrphansEnd, Read, DeleteOrphan
  <2> QED
    BY <2>1, RemovedFlushing, RemovedClose, RemovedDeleteNext, RemovedDeleteFile,
       RemovedDeleteRow, RemovedDropHit, RemovedDeletesEnd DEF Going, Flushing
<1> QED
  BY <1>3, <1>4

LEMMA RemovedStays ==
    ASSUME RemovedInv, UNCHANGED vars
    PROVE  RemovedInv'
<1>1. /\ tiers' = tiers /\ rows' = rows /\ cmd' = cmd /\ serve' = serve /\ touched' = touched
  BY DEF vars
<1>2. ASSUME NEW k \in Keys
      PROVE  (Meant(k)' <=> Meant(k)) /\ (Removing(k)' <=> Removing(k))
  BY <1>1 DEF Meant, Removing, Clean, Bare, Gone, RowGone, Untouched, InDeletion, Pending
<1> QED
  BY <1>1, <1>2 DEF RemovedInv

\* invalidate deletes what it was told to: where no listing is cut at a page and
\* no call's error was dropped, a command leaves no metadata and no body of an
\* entry that it reports as deleted or, when it ends well, that could be read
\* when it began, and no row unless its own flush was under way during
\* Index.Delete, whatever serve reads and deletes in the meantime (runInvalidate,
\* Cache.Delete, Index.Delete).
THEOREM NothingLeft == ASSUME PagedTiers = {} PROVE Spec => []InvalidateComplete
<1>1. Init => GoneInv
  BY DEF Init, GoneInv
<1>2. TypeInv /\ SeenInv /\ GoneInv /\ [Next]_vars => GoneInv'
  <2> SUFFICES ASSUME TypeInv, SeenInv, GoneInv, [Next]_vars PROVE GoneInv'
    OBVIOUS
  <2>1. CASE UNCHANGED vars
    <3>1. /\ tiers' = tiers /\ rows' = rows /\ cmd' = cmd /\ serve' = serve /\ touched' = touched
      BY <2>1 DEF vars
    <3>2. ASSUME NEW k \in Keys PROVE Readable(k)' <=> Readable(k)
      BY <3>1, VisibleIs, VisibleNext DEF Readable
    <3>3. ASSUME NEW k \in Keys
          PROVE  /\ Clean(k)' <=> Clean(k)
                 /\ Bare(k)' <=> Bare(k)
                 /\ Gone(k)' <=> Gone(k)
                 /\ Untouched(k, {"delete"})' <=> Untouched(k, {"delete"})
                 /\ Sought(k)' <=> Sought(k)
      BY <3>1 DEF Clean, Bare, Gone, RowGone, Untouched, Sought
    <3>4. ASSUME cmd' # Idle, NEW k \in Keys, Sought(k)' PROVE Searched(k)' /\ DeletedUp(k)'
      <4>1. Searched(k) /\ DeletedUp(k)
        BY <3>1, <3>3, <3>4 DEF GoneInv
      <4>2. /\ InFilling(k)' <=> InFilling(k)
            /\ InDeletion(k)' <=> InDeletion(k)
            /\ Pending' <=> Pending
        BY <3>1 DEF InFilling, InDeletion, Pending
      <4> QED
        BY <3>1, <3>2, <3>3, <4>1, <4>2 DEF Searched, DeletedUp
    <3> QED
      BY <3>4 DEF GoneInv
  <2> QED
    BY <2>1, GoneGoing, GoneBegin, GoneServe DEF Next, CommandStep, Going
<1>3. Init => RemovedInv
  BY DEF Init, RemovedInv
<1>4. TypeInv /\ RemovedInv /\ [Next]_vars => RemovedInv'
  BY RemovedGoing, RemovedBegin, RemovedServe, RemovedStays DEF Next, CommandStep, Going
<1>5. TypeInv /\ GoneInv /\ RemovedInv => InvalidateComplete
  <2> SUFFICES ASSUME TypeInv, GoneInv, RemovedInv, cmd.at = "done", cmd.op = "invalidate", ~cmd.dry,
                      "storage" \notin cmd.dropped,
                      NEW k \in cmd.out \cup (IF cmd.ok THEN cmd.walk \cap cmd.start.readable ELSE {}),
                      Untouched(k, {"put", "fill"})
               PROVE  /\ \A t \in Tiers : tiers[t][k]["meta"] = Absent
                      /\ (/\ serve = Idle /\ Untouched(k, {"row"})
                          /\ cmd.indexed /\ "index" \notin cmd.dropped /\ ~cmd.overtaken)
                             => rows[k] = Absent
                      /\ Untouched(k, {"delete"}) => \A t \in Tiers : tiers[t][k]["body"] = Absent
    BY DEF InvalidateComplete
  <2>1. cmd # Idle /\ cmd \in CommandState
    BY CommandIs DEF TypeInv
  <2>2. k \in Keys
    BY <2>1 DEF CommandState
  <2>3. Gone(k)
    <3>1. CASE k \in cmd.out
      BY <2>1, <2>2, <3>1 DEF RemovedInv, Meant, Removing
    <3>2. CASE cmd.ok /\ k \in cmd.walk \cap cmd.start.readable
      BY <2>1, <2>2, <3>2 DEF GoneInv, Sought, DeletedUp, InDeletion, Deleting
    <3> QED
      BY <3>1, <3>2
  <2> QED
    BY <2>3 DEF Gone, Clean, Bare, RowGone, Idle
<1> QED
  BY <1>1, <1>2, <1>3, <1>4, <1>5, SeenHolds, PTL DEF Spec

=============================================================================
