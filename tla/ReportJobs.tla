------------------------------ MODULE ReportJobs ------------------------------
(***************************************************************************)
(* Reports and dataset exports (modules/reports/service.js) on top of the  *)
(* job queue: the rows of table reports, the files under the uploads root, *)
(* the requests that create, patch and delete a report, and the generation *)
(* task a worker runs. A report's job has the key 'report:<id>', so Keys   *)
(* are the report ids.                                                     *)
(***************************************************************************)
EXTENDS JobQueue

CONSTANTS
    ManualReports,  \* report ids created by createReport; the others are dataset exports
    PatchTargets    \* statuses users ask PATCH /reports/:id/status for

ASSUME ManualReportsAssumption == ManualReports \subseteq Keys
ASSUME PatchTargetsAssumption == PatchTargets \subseteq {"processing", "completed", "failed"}

VARIABLES
    report,    \* report[k]: status of the row and whether its storage_key is set
    file,      \* file[k]: the report's file; every attempt writes the same path
    creating,  \* reports committed by a request that has not enqueued their job yet
    stage,     \* how far the generation running under a claim has come
    patch,     \* patch[k]: the status a validated PATCH is about to write
    deletion   \* deletion[k]: progress of a DELETE request

reportVars == <<report, file, creating, stage, patch, deletion>>
vars == <<queueVars, reportVars>>

Exists(k) == report[k].status \in {"processing", "completed", "failed"}

(* What backfillReports selects.                                           *)
Waiting == {k \in Keys : report[k].status = "processing" /\ ~report[k].stored}

(* UPDATE reports ... WHERE id = $n: no effect on a row that is gone, and   *)
(* no condition on the status the row has by then.                         *)
SetReport(k, status, stored) ==
    report' = IF Exists(k)
              THEN [report EXCEPT ![k] = [status |-> status, stored |-> stored]]
              ELSE report

ReportInit ==
    /\ Init
    /\ report = [k \in Keys |-> [status |-> "none", stored |-> FALSE]]
    /\ file = [k \in Keys |-> "none"]
    /\ creating = {}
    /\ stage = {}
    /\ patch = [k \in Keys |-> "none"]
    /\ deletion = [k \in Keys |-> "none"]

-----------------------------------------------------------------------------
(* createReport and createDatasetExport: the row is committed, then the job *)
(* is enqueued by a statement of its own. A request whose process is lost   *)
(* in between is one whose enqueue fails.                                   *)

CreateReport(p, k) ==
    /\ Serving(p) /\ report[k].status = "none"
    /\ report' = [report EXCEPT ![k].status = "processing"]
    /\ creating' = creating \cup {k}
    /\ UNCHANGED <<queueVars, file, stage, patch, deletion>>

EnqueueReport(p, k) ==
    /\ k \in creating
    /\ Enqueue(p, k)
    /\ creating' = creating \ {k}
    /\ UNCHANGED <<report, file, stage, patch, deletion>>

(* The enqueue rejects or the process is lost: the ROLLBACK in the catch    *)
(* block comes after the COMMIT and undoes nothing.                         *)
EnqueueFails(k) ==
    /\ k \in creating
    /\ creating' = creating \ {k}
    /\ UNCHANGED <<queueVars, report, file, stage, patch, deletion>>

-----------------------------------------------------------------------------
(* _generateRealExport and _generateRealReport, run by TaskReturns or       *)
(* TaskThrows of the queue. Only the manual report looks its row up first.  *)

Stages == {"read", "open", "written"}
At(e, s) == <<ClaimOf(e), s>> \in stage
Staged(e) == \E s \in Stages : At(e, s)
Advance(e, s, t) == stage' = (stage \ {<<ClaimOf(e), s>>}) \cup {<<ClaimOf(e), t>>}
Unstage(e) == stage' = {x \in stage : x[1] # ClaimOf(e)}
Writing(k) == {x \in stage : x[1][1] = k /\ x[2] = "open"}

BeginGeneration(p, e) ==
    /\ e \in active[p] /\ e.outcome = "busy" /\ ~Staged(e)
    /\ e.key \in ManualReports => Exists(e.key)
    /\ stage' = stage \cup {<<ClaimOf(e), "read">>}
    /\ UNCHANGED <<queueVars, report, file, creating, patch, deletion>>

(* Opening the file truncates whatever an earlier attempt left there.      *)
OpenFile(p, e) ==
    /\ e \in active[p] /\ At(e, "read")
    /\ file' = [file EXCEPT ![e.key] = "partial"]
    /\ Advance(e, "read", "open")
    /\ UNCHANGED <<queueVars, report, creating, patch, deletion>>

CloseFile(p, e) ==
    /\ e \in active[p] /\ At(e, "open")
    /\ file' = IF file[e.key] = "partial" /\ Cardinality(Writing(e.key)) = 1
               THEN [file EXCEPT ![e.key] = "whole"]
               ELSE file
    /\ Advance(e, "open", "written")
    /\ UNCHANGED <<queueVars, report, creating, patch, deletion>>

MarkCompleted_NoKey(p, e) ==
    /\ At(e, "written")
    /\ SetReport(e.key, "completed", report[e.key].stored)
    /\ TaskReturns(p, e)
    /\ Unstage(e)
    /\ UNCHANGED <<file, creating, patch, deletion>>

MarkCompleted(p, e) ==
    /\ At(e, "written")
    /\ SetReport(e.key, "completed", TRUE)
    /\ TaskReturns(p, e)
    /\ Unstage(e)
    /\ UNCHANGED <<file, creating, patch, deletion>>

(* The catch block: the UPDATE to 'failed' may itself fail and is ignored,  *)
(* also when the error is that of an UPDATE to 'completed' that was applied *)
(* before its connection was lost.                                          *)
MarkFailed(p, e) ==
    /\ \/ SetReport(e.key, "failed", report[e.key].stored)
       \/ UNCHANGED report
       \/ At(e, "written") /\ SetReport(e.key, "completed", TRUE)
    /\ TaskThrows(p, e)
    /\ Unstage(e)
    /\ UNCHANGED <<file, creating, patch, deletion>>

Generate(p, e) ==
    BeginGeneration(p, e) \/ OpenFile(p, e) \/ CloseFile(p, e)
    \/ MarkCompleted(p, e) \/ MarkFailed(p, e)

-----------------------------------------------------------------------------
(* updateReportStatus: the status is read and validated, then overwritten;  *)
(* the row is not locked in between. Asking for 'processing' enqueues       *)
(* nothing.                                                                 *)

ValidTransitions(status) ==
    CASE status = "processing" -> {"completed", "failed"}
      [] status = "failed"     -> {"processing"}
      [] OTHER                 -> {}

BeginPatch(p, k, new) ==
    /\ Serving(p) /\ Exists(k) /\ patch[k] = "none"
    /\ new \in ValidTransitions(report[k].status)
    /\ patch' = [patch EXCEPT ![k] = new]
    /\ UNCHANGED <<queueVars, report, file, creating, stage, deletion>>

ApplyPatch(k) ==
    /\ patch[k] # "none"
    /\ SetReport(k, patch[k], report[k].stored)
    /\ patch' = [patch EXCEPT ![k] = "none"]
    /\ UNCHANGED <<queueVars, file, creating, stage, deletion>>

-----------------------------------------------------------------------------
(* deleteReport: read storage_key, DELETE and COMMIT, then remove the file  *)
(* the read named.                                                          *)

BeginDelete(p, k) ==
    /\ Serving(p) /\ Exists(k) /\ deletion[k] = "none"
    /\ deletion' = [deletion EXCEPT ![k] = IF report[k].stored THEN "stored" ELSE "unstored"]
    /\ UNCHANGED <<queueVars, report, file, creating, stage, patch>>

CommitDelete(k) ==
    /\ deletion[k] \in {"stored", "unstored"}
    /\ report' = [report EXCEPT ![k] = [status |-> "deleted", stored |-> FALSE]]
    /\ deletion' = [deletion EXCEPT ![k] = IF @ = "stored" THEN "unlink" ELSE "done"]
    /\ UNCHANGED <<queueVars, file, creating, stage, patch>>

Unlink_First(k) ==
    /\ deletion[k] = "stored"
    /\ file' = [file EXCEPT ![k] = "none"]
    /\ UNCHANGED <<queueVars, report, creating, stage, patch, deletion>>

Unlink(k) ==
    /\ deletion[k] = "unlink"
    /\ file' = [file EXCEPT ![k] = "none"]
    /\ deletion' = [deletion EXCEPT ![k] = "done"]
    /\ UNCHANGED <<queueVars, report, creating, stage, patch>>

-----------------------------------------------------------------------------
(* A generation ends with its execution, also when its process is lost.    *)
DropStages == stage' = {x \in stage : \E p \in Procs : \E e \in active'[p] : ClaimOf(e) = x[1]}

ReportNext ==
    \/ \E p \in Procs :
        \/ QueueStep(p) /\ DropStages /\ UNCHANGED <<report, file, creating, patch, deletion>>
        \/ Backfill(p, Waiting) /\ UNCHANGED reportVars
        \/ \E k \in Keys : \/ CreateReport(p, k) \/ EnqueueReport(p, k) \/ BeginDelete(p, k)
                           \/ \E new \in PatchTargets : BeginPatch(p, k, new)
        \/ \E e \in active[p] : Generate(p, e)
    \/ \E k \in Keys : \/ EnqueueFails(k) \/ ApplyPatch(k) \/ CommitDelete(k) \/ Unlink(k)
                       \/ TimePasses(k) /\ UNCHANGED reportVars

ReportSpec == ReportInit /\ [][ReportNext]_vars

(* The queue's fairness, and generations and requests that go on.          *)
ReportFairness ==
    /\ \A p \in Procs :
        /\ WF_vars(Startup(p) /\ DropStages /\ UNCHANGED <<report, file, creating, patch, deletion>>)
        /\ WF_vars(Backfill(p, Waiting) /\ UNCHANGED reportVars)
        /\ WF_vars(BeginTick(p) /\ UNCHANGED reportVars)
        /\ WF_vars((FindNothing(p) \/ \E k \in Keys : ClaimNext(p, k)) /\ UNCHANGED reportVars)
        /\ WF_vars(\E e \in active[p] : Generate(p, e))
        /\ WF_vars((\E e \in active[p] : Settling(p, e)) /\ UNCHANGED reportVars)
        /\ WF_vars(StopAccepting(p) /\ UNCHANGED reportVars)
        /\ WF_vars((Exit(p) \/ GraceExpires(p)) /\ DropStages
                   /\ UNCHANGED <<report, file, creating, patch, deletion>>)
    /\ \A k \in Keys :
        /\ WF_vars(row[k].status = "retry" /\ TimePasses(k) /\ UNCHANGED reportVars)
        /\ WF_vars((\E p \in Procs : EnqueueReport(p, k)) \/ EnqueueFails(k))
        /\ WF_vars(ApplyPatch(k)) /\ WF_vars(CommitDelete(k)) /\ WF_vars(Unlink(k))

FairReportSpec == ReportSpec /\ ReportFairness

-----------------------------------------------------------------------------
(* Properties.                                                             *)

ReportTypeOK ==
    /\ TypeOK
    /\ report \in [Keys -> [status : {"none", "processing", "completed", "failed", "deleted"},
                            stored : BOOLEAN]]
    /\ file \in [Keys -> {"none", "partial", "whole"}]
    /\ creating \in SUBSET Keys
    /\ stage \in SUBSET (Claims \X Stages)
    /\ patch \in [Keys -> {"none", "processing", "completed", "failed"}]
    /\ deletion \in [Keys -> {"none", "stored", "unstored", "unlink", "done"}]

(* checkReportFileStatus's isReady.                                        *)
Ready(k) == report[k].status = "completed" /\ report[k].stored

(* A completed job has left its report with a file reference, unless the    *)
(* report was deleted: the two tables agree although they are never updated *)
(* in one transaction, and whichever of several attempts closed the job.    *)
CompletedJobStoredReport ==
    \A k \in Keys : row[k].status = "completed" => report[k].stored \/ ~Exists(k)

(* A report offered for download has a file, whatever deletions, patches    *)
(* and attempts are under way.                                              *)
ReadyHasFile == \A k \in Keys : Ready(k) => file[k] # "none"

(* A report leaves 'processing', unless its enqueue failed, its claim was   *)
(* lost with a process, its last attempt could not even write 'failed', or  *)
(* a user put it back to processing when its job was already completed.     *)
Settled(k) ==
    \/ report[k].status # "processing"
    \/ row[k].status \in {"absent", "dead"} /\ k \notin creating
    \/ row[k].status = "completed" /\ report[k].stored
    \/ CurrentClaim(k) \in lost

ReportSettles == \A k \in Keys : (k \in creating) ~> Settled(k)
=============================================================================
