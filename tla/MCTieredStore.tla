---------------------------- MODULE MCTieredStore ----------------------------
(***************************************************************************)
(* Instances of TieredStore for TLC: what the tiers hold at the start.     *)
(***************************************************************************)
EXTENDS TieredStore

CONSTANTS v1

AllTiers(v) == [i \in Tiers |-> [p \in Parts |-> v]]

\* Only the last tier has the entry: another proxy stored it, or it was evicted.
LastTier(v) == [i \in Tiers |-> [p \in Parts |-> IF i = N THEN v ELSE NoObject]]

EmptyOrShared == {AllTiers(NoObject), LastTier(v1)}
=============================================================================
