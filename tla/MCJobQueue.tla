----------------------------- MODULE MCJobQueue -----------------------------
(* The job queue on small instances: interchangeable processes.            *)
EXTENDS JobQueue, TLC

SymmetricProcs == Permutations(Procs)
=============================================================================
