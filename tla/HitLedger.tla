------------------------------ MODULE HitLedger ------------------------------
(***************************************************************************)
(* What the usage index promises about the hits of cache entries, without  *)
(* buffers, batches, transactions or goroutines (the package comment and   *)
(* the comments of Flush and Insert in internal/index/index.go).           *)
(*                                                                         *)
(* A hit is counted once when it is recorded.  Later it is saved, never    *)
(* twice and never in part.  Statistics are reset only with their row, and *)
(* hits get lost only with a row or with the process that held them.       *)
(* UsageIndex implements this specification: see ImplementsLedger there.   *)
(***************************************************************************)
EXTENDS Naturals

CONSTANTS Keys      \* the cache keys

VARIABLES
    saved,      \* key -> the hits that survive a crash
    unsaved,    \* key -> the hits that are recorded but not yet saved
    forgotten   \* the keys whose statistics were reset or lost since the start

ledger == <<saved, unsaved, forgotten>>

Init ==
    /\ saved \in [Keys -> Nat]
    /\ unsaved = [k \in Keys |-> 0]
    /\ forgotten = {}

\* One more hit of the key.
Record(k) ==
    /\ unsaved' = [unsaved EXCEPT ![k] = @ + 1]
    /\ UNCHANGED <<saved, forgotten>>

\* Unsaved hits of some keys become saved ones; none is made up or lost.
Save ==
    /\ \A k \in Keys : /\ saved'[k] + unsaved'[k] = saved[k] + unsaved[k]
                       /\ saved'[k] >= saved[k]
    /\ UNCHANGED forgotten

\* The entry is replaced or deleted, and its saved hits with it.
Reset(k) ==
    /\ saved' = [saved EXCEPT ![k] = 0]
    /\ forgotten' = forgotten \cup {k}
    /\ UNCHANGED unsaved

\* After a reset, unsaved hits of the deleted entry may go too.
Drop(k) ==
    /\ k \in forgotten
    /\ \E n \in 0..unsaved[k] : unsaved' = [unsaved EXCEPT ![k] = n]
    /\ UNCHANGED <<saved, forgotten>>

\* The process dies with its unsaved hits.
Crash ==
    /\ unsaved' = [k \in Keys |-> 0]
    /\ forgotten' = forgotten \cup {k \in Keys : unsaved[k] > 0}
    /\ UNCHANGED saved

Next ==
    \/ \E k \in Keys : Record(k) \/ Reset(k) \/ Drop(k)
    \/ Save
    \/ Crash

Spec == Init /\ [][Next]_ledger
=============================================================================
