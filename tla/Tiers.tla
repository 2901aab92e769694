-------------------------------- MODULE Tiers --------------------------------
(***************************************************************************)
(* The fragility tiers, from what an attacker changes at no cost to what   *)
(* the technique itself dictates (TIER_RANK of fragility.py).              *)
(***************************************************************************)
EXTENDS Integers

TierRank == [IOC |-> 0, Artifact |-> 1, Tool |-> 2, TTP |-> 3]
Tiers == {"IOC", "Artifact", "Tool", "TTP"}
=============================================================================
