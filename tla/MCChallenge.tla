----------------------------- MODULE MCChallenge -----------------------------
(* Instances of Challenge for TLC.                                          *)
EXTENDS Challenge, TLC

Symmetry == Permutations(Sessions) \cup Permutations(Challenges)
=============================================================================
