---------------------------- MODULE MCChurnHistory ----------------------------
(***************************************************************************)
(* TLC instances of ChurnHistory.                                          *)
(***************************************************************************)
EXTENDS ChurnHistory, TLC

\* A commit that touches two rules of three is excluded, one of two is not.
TwoThirds == <<2, 3>>

RuleSymmetry == Permutations(Rules)
=============================================================================
