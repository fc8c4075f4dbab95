--------------------------- MODULE MCAccountDeletion ---------------------------
(* Model values for AccountDeletion.                                         *)
EXTENDS AccountDeletion, TLC

CONSTANTS r1, r2, t1, t2, d1, user, none
=============================================================================
