--------------------------- MODULE MCRecordSession ---------------------------
(***************************************************************************)
(* Instances of RecordSession for TLC: what the storage holds at the start,*)
(* and the symmetry of keys and versions, which nothing orders.            *)
(***************************************************************************)
EXTENDS RecordSession, TLC

Empty == {[k \in Keys |-> [p \in Parts |-> NoObject]]}

Alike == Permutations(Keys) \cup Permutations(Versions)
=============================================================================
