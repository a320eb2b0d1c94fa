--------------------------- MODULE MCCacheCommands ---------------------------
(***************************************************************************)
(* Instances of CacheCommands for TLC: the commands that are run and what  *)
(* the storage and the index hold when they are.                           *)
(***************************************************************************)
EXTENDS CacheCommands

CONSTANTS k1

Run(op, dry, byKey, walk, sql, indexed, limit) ==
    [op |-> op, dry |-> dry, byKey |-> byKey, walk |-> walk, sql |-> sql,
     indexed |-> indexed, limit |-> limit]

\* Filters match one entry or both; one prefix matches more in SQL than in Go.
AllCommands ==
    {Run("invalidate", dry, byKey, {k1}, {k1}, indexed, 0) :
        dry \in BOOLEAN, byKey \in BOOLEAN, indexed \in BOOLEAN}
    \cup {Run("invalidate", dry, FALSE, Keys, Keys, indexed, 0) :
        dry \in BOOLEAN, indexed \in BOOLEAN}
    \cup {Run("list", FALSE, FALSE, Keys, Keys, indexed, limit) :
        indexed \in BOOLEAN, limit \in {0, 1, 2}}
    \cup {Run("list", FALSE, FALSE, {k1}, Keys, TRUE, 1)}
    \cup {Run("list", FALSE, TRUE, {k1}, {k1}, indexed, 0) : indexed \in BOOLEAN}
    \cup {Run("show", FALSE, TRUE, {k1}, {k1}, indexed, 0) : indexed \in BOOLEAN}
    \cup {Run("show", FALSE, FALSE, K, K, indexed, 0) : K \in {{k1}, Keys}, indexed \in BOOLEAN}
    \cup {Run("reindex", dry, FALSE, Keys, Keys, TRUE, 0) : dry \in BOOLEAN}

Object(meta, body) == [meta |-> meta, body |-> body]

None == Object(Absent, Absent)

\* One key in the tiers: nowhere, in both, in the cloud only, locally only, in two
\* versions, with the local copy damaged or in part, without its body.
KeyStates ==
    {<<None, None>>,
     <<Object(Good, 1), Object(Good, 1)>>,
     <<None, Object(Good, 1)>>,
     <<Object(Good, 1), None>>,
     <<Object(Good, 1), Object(Good, 2)>>,
     <<Object(Damaged, 1), Object(Good, 1)>>,
     <<Object(Good, Absent), Object(Good, 2)>>,
     <<Object(Good, Absent), None>>}

SomeTiers ==
    {[t \in Tiers |-> [k \in Keys |-> IF k = k1 THEN a[t] ELSE b[t]]] :
        a \in KeyStates, b \in {<<None, None>>, <<None, Object(Good, 1)>>, <<Object(Good, 1), None>>}}

SomeRows == [Keys -> {1, Absent}]
=============================================================================
