---------------------------- MODULE MCReportJobs ----------------------------
(* Reports on the job queue: interchangeable processes.                    *)
EXTENDS ReportJobs, TLC

SymmetricProcs == Permutations(Procs)
=============================================================================
