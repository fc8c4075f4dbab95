----------------------------- MODULE MCSyncUpload -----------------------------
(* Two uploads of one recording for TLC.                                     *)
EXTENDS SyncUpload, TLC

CONSTANTS j1, j2, r1, r2, s1, s2

Symmetry == Permutations({s1, s2})
=============================================================================
