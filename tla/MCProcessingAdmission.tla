------------------------- MODULE MCProcessingAdmission -------------------------
(* The lifecycle rows, processors and pods of ProcessingAdmission for TLC.   *)
EXTENDS ProcessingAdmission, TLC

CONSTANTS p1, p2, d1, d2

Symmetry == Permutations({p1, p2}) \union Permutations({d1, d2})
=============================================================================
