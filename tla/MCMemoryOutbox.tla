----------------------------- MODULE MCMemoryOutbox -----------------------------
(* Model values for MemoryOutbox.                                            *)
EXTENDS MemoryOutbox, TLC

CONSTANTS w1, w2
=============================================================================
