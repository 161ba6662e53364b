--------------------------- MODULE MCProofBatches ---------------------------
(* Instances of ProofBatches.  Sealers and anchorers are interchangeable.  *)
EXTENDS ProofBatches, TLC

MCSymmetry == Permutations(Sealers) \cup Permutations(Anchorers)
=============================================================================
