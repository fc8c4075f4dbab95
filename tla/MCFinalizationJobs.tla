-------------------------- MODULE MCFinalizationJobs --------------------------
(* Small instances of FinalizationJobs.                                     *)
EXTENDS FinalizationJobs, TLC

\* Handlers are interchangeable; safety runs may use it, liveness runs may not.
WorkerSymmetry == Permutations(Workers)
=============================================================================
