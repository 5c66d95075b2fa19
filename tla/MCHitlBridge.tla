---------------------------- MODULE MCHitlBridge ----------------------------
(* Two HTTP workers and two reviewers.                                     *)
EXTENDS HitlBridge, TLC

Symmetry == Permutations(Workers) \cup Permutations(Reviewers)
=============================================================================
