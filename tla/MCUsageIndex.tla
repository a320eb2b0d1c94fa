---------------------------- MODULE MCUsageIndex ----------------------------
(***************************************************************************)
(* Instances of UsageIndex for TLC: the states from which the              *)
(* configurations let directory and database start, and what they leave    *)
(* out because no property of theirs depends on it.                        *)
(***************************************************************************)
EXTENDS UsageIndex

CONSTANTS k1

\* A cache from before the index existed.
NoIndex == {[disk |-> [k \in Keys |-> IF k = k1 THEN 1 ELSE Absent],
             rows |-> [k \in Keys |-> NoRow]]}

\* Rows that agree with the directory, of entries used at different times, all
\* older than the minimum age of IndexCommands.cfg until they are hit again.  The
\* keys being alike, k1 is one that was used first.
Agreeing == {s \in [disk : [Keys -> Sizes \cup {Absent}],
                    rows : [Keys -> {NoRow} \cup [size : Sizes, last : 1..2, hits : {1}]]] :
                /\ \A k \in Keys : s.rows[k].size = s.disk[k]
                /\ s.rows[k1].last <= 1}

\* One key drifts in any way, and the others agree.
OneDrifted == {s \in [disk : [Keys -> {1, Absent}],
                      rows : [Keys -> {NoRow} \cup [size : 1..2, last : {3}, hits : {1}]]] :
                  \A k \in Keys \ {k1} : s.rows[k].size = s.disk[k]}

AgreeingOrDrifted == Agreeing \cup OneDrifted

\* In every other state, and in all that follow it, ReindexExact and EvictExact
\* say nothing: marks only grow, and an eviction that began stays begun.
SaysSomething ==
    \/ evict = Idle /\ written # Keys
    \/ /\ written = {} /\ dropped = {}
       /\ \A k \in Keys : evict # Idle /\ evict.start.rows[k].size = evict.start.disk[k]

\* The state without the marks, on which no action, fairness condition or property
\* of IndexStats.cfg depends.
Unmarked == <<clock, disk, indexVars, job, phase, reindex, evict, history>>
=============================================================================
