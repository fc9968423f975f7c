------------------------------- MODULE JobQueue -------------------------------
(***************************************************************************)
(* The durable job queue: the table operational_jobs (migration 016), its  *)
(* repository (operations/jobRepository.js) and the worker every API       *)
(* process runs (modules/reports/jobQueue.js), with the process's startup  *)
(* and shutdown (server.js).                                               *)
(*                                                                         *)
(* Each repository call is one SQL statement, hence one atomic step; every *)
(* await between two of them is a point where other processes run, where   *)
(* the process may crash, and where time passes.                           *)
(***************************************************************************)
EXTENDS Naturals, FiniteSets

CONSTANTS
    Keys,         \* idempotency keys ('report:<id>', 'evidence:<id>', ...)
    Procs,        \* API processes, each with its own worker
    NoProc,       \* locked_by IS NULL
    MaxAttempts,  \* JOB_MAX_ATTEMPTS
    Concurrency,  \* EXPORT_JOB_CONCURRENCY
    MaxIds,       \* bound: rows ever inserted under one key
    MaxStarts     \* bound: process starts

ASSUME MaxAttemptsAssumption == MaxAttempts \in Nat \ {0}
ASSUME ConcurrencyAssumption == Concurrency \in Nat \ {0}
ASSUME BoundsAssumption == MaxIds \in Nat /\ MaxStarts \in Nat
ASSUME NoProcAssumption == NoProc \notin Procs

VARIABLES
    row,        \* row[k]: the row of operational_jobs whose idempotency_key is k
    proc,       \* proc[p]: where process p is between start and exit
    tick,       \* tick[p]: a dispatch loop of p awaits claimNext (tickPromise)
    active,     \* active[p]: the executions p has in memory (this.active)
    starts,     \* process starts so far
    done,       \* history: rows <<key, id>> whose task ran to the end
    lost,       \* history: claims whose execution vanished with its process
    overtaken   \* history: rows recovered as stale while still being executed

queueVars == <<row, proc, tick, active, starts, done, lost, overtaken>>

Statuses == {"absent", "pending", "running", "retry", "completed", "dead"}
Phases == {"down", "recovering", "pruning", "backfilling", "up", "closing", "stopping"}

(* id stands for the row's UUID. due is the one fact about time a status    *)
(* waits for: available_at <= NOW() (pending, retry), locked_at older than  *)
(* JOB_STALE_AFTER_MS (running), older than JOB_RETENTION_DAYS (finished).  *)
Rows == [status : Statuses, id : Nat, attempts : Nat, due : BOOLEAN,
         holder : Procs \cup {NoProc}]

(* A claimed row as _execute holds it, and what became of its task.        *)
Executions == [key : Keys, id : Nat, attempts : Nat, outcome : {"busy", "ok", "threw"}]

Claims == Keys \X Nat \X Nat
ClaimOf(e) == <<e.key, e.id, e.attempts>>
CurrentClaim(k) == <<k, row[k].id, row[k].attempts>>

Claimable_PendingOnly(k) == row[k].status = "pending" /\ row[k].due

Claimable(k) == row[k].status \in {"pending", "retry"} /\ row[k].due
Serving(p) == proc[p] \in {"up", "closing"}

Init ==
    /\ row = [k \in Keys |-> [status |-> "absent", id |-> 0, attempts |-> 0,
                              due |-> FALSE, holder |-> NoProc]]
    /\ proc = [p \in Procs |-> "down"]
    /\ tick = [p \in Procs |-> FALSE]
    /\ active = [p \in Procs |-> {}]
    /\ starts = 0
    /\ done = {}
    /\ lost = {}
    /\ overtaken = {}

-----------------------------------------------------------------------------
(* Statements on the table, and the process's memory.                      *)

Released(r, status, due) ==
    [r EXCEPT !.status = status, !.due = due, !.holder = NoProc]

NewRow(k) ==
    [status |-> "pending", id |-> row[k].id + 1, attempts |-> 0,
     due |-> TRUE, holder |-> NoProc]

(* INSERT ... ON CONFLICT (idempotency_key): a row that exists, whatever    *)
(* its status, is left as it is.                                            *)
InsertIfAbsent_Reopens(S) ==
    /\ \A k \in S : row[k].status \in {"absent", "dead"} => row[k].id < MaxIds
    /\ row' = [k \in Keys |-> IF k \in S /\ row[k].status \in {"absent", "dead"}
                              THEN NewRow(k) ELSE row[k]]

InsertIfAbsent(S) ==
    /\ \A k \in S : row[k].status = "absent" => row[k].id < MaxIds
    /\ row' = [k \in Keys |-> IF k \in S /\ row[k].status = "absent"
                              THEN NewRow(k) ELSE row[k]]

(* UPDATE ... WHERE id = $1 AND status = 'running': the row the execution   *)
(* claimed if it runs at all, under this claim or a later one.              *)
Updates(e) == row[e.key].id = e.id /\ row[e.key].status = "running"

UpdateRow(e, status, due) ==
    row' = IF Updates(e)
           THEN [row EXCEPT ![e.key] = Released(@, status, due)]
           ELSE row

(* fail() decides on the attempts of the row as it was when claimed.       *)
IsDead(e) == e.attempts >= MaxAttempts

After(e, outcome) == [e EXCEPT !.outcome = outcome]

Settle(p, e, outcome) ==
    active' = [active EXCEPT ![p] = (@ \ {e}) \cup {After(e, outcome)}]

Forget(p, e) == active' = [active EXCEPT ![p] = @ \ {e}]

-----------------------------------------------------------------------------
(* Startup: initialize() runs once per process, before it listens.         *)

Start(p) ==
    /\ proc[p] = "down" /\ starts < MaxStarts
    /\ proc' = [proc EXCEPT ![p] = "recovering"]
    /\ starts' = starts + 1
    /\ UNCHANGED <<row, tick, active, done, lost, overtaken>>

Stale_AnyAge(k) == row[k].status = "running"

Stale(k) == row[k].status = "running" /\ row[k].due

RecoverStale(p) ==
    /\ proc[p] = "recovering"
    /\ row' = [k \in Keys |-> IF Stale(k) THEN Released(row[k], "retry", TRUE) ELSE row[k]]
    /\ overtaken' = overtaken \cup {<<k, row[k].id>> :
                        k \in {j \in Keys : Stale(j) /\ row[j].due /\ CurrentClaim(j) \notin lost}}
    /\ proc' = [proc EXCEPT ![p] = "pruning"]
    /\ UNCHANGED <<tick, active, starts, done, lost>>

Finished(k) == row[k].status \in {"completed", "dead"}

PruneFinished(p) ==
    /\ proc[p] = "pruning"
    /\ row' = [k \in Keys |-> IF Finished(k) /\ row[k].due
                              THEN Released(row[k], "absent", FALSE) ELSE row[k]]
    /\ proc' = [proc EXCEPT ![p] = "backfilling"]
    /\ UNCHANGED <<tick, active, starts, done, lost, overtaken>>

(* backfillReports and backfillEvidence insert a job for every source in S  *)
(* that waits for one; then the worker accepts and the server listens.      *)
Backfill(p, S) ==
    /\ proc[p] = "backfilling"
    /\ InsertIfAbsent(S)
    /\ proc' = [proc EXCEPT ![p] = "up"]
    /\ UNCHANGED <<tick, active, starts, done, lost, overtaken>>

-----------------------------------------------------------------------------
(* Requests and the dispatch loop.                                         *)

Enqueue(p, k) ==
    /\ Serving(p)
    /\ InsertIfAbsent({k})
    /\ UNCHANGED <<proc, tick, active, starts, done, lost, overtaken>>

(* _scheduleTick and the head of _tick's loop. A poll that fails with a     *)
(* database error ends like one that finds nothing.                         *)
BeginTick(p) ==
    /\ Serving(p) /\ ~tick[p]
    /\ Cardinality(active[p]) < Concurrency
    /\ tick' = [tick EXCEPT ![p] = TRUE]
    /\ UNCHANGED <<row, proc, active, starts, done, lost, overtaken>>

Claimed(k) ==
    [key |-> k, id |-> row[k].id, attempts |-> row[k].attempts + 1, outcome |-> "busy"]

(* FOR UPDATE SKIP LOCKED lets concurrent dispatchers overtake one another, *)
(* so any due row may be the next one.                                      *)
Lock(p, k) ==
    row' = [row EXCEPT ![k].status = "running", ![k].attempts = @ + 1,
                       ![k].due = FALSE, ![k].holder = p]

Remember_UnlessStopping(p, k) ==
    active' = IF Serving(p)
              THEN [active EXCEPT ![p] = @ \cup {Claimed(k)}]
              ELSE active

Remember(p, k) == active' = [active EXCEPT ![p] = @ \cup {Claimed(k)}]

ClaimNext(p, k) ==
    /\ tick[p] /\ Claimable(k)
    /\ Lock(p, k)
    /\ Remember(p, k)
    /\ tick' = [tick EXCEPT ![p] = FALSE]
    /\ UNCHANGED <<proc, starts, done, lost, overtaken>>

FindNothing(p) ==
    /\ tick[p] /\ \A k \in Keys : ~Claimable(k)
    /\ tick' = [tick EXCEPT ![p] = FALSE]
    /\ UNCHANGED <<row, proc, active, starts, done, lost, overtaken>>

-----------------------------------------------------------------------------
(* _execute: the task, then complete() or fail().                          *)

TaskReturns(p, e) ==
    /\ e \in active[p] /\ e.outcome = "busy"
    /\ Settle(p, e, "ok")
    /\ done' = done \cup {<<e.key, e.id>>}
    /\ UNCHANGED <<row, proc, tick, starts, lost, overtaken>>

TaskThrows(p, e) ==
    /\ e \in active[p] /\ e.outcome = "busy"
    /\ Settle(p, e, "threw")
    /\ UNCHANGED <<row, proc, tick, starts, done, lost, overtaken>>

Complete(p, e) ==
    /\ e \in active[p] /\ e.outcome = "ok"
    /\ UpdateRow(e, "completed", FALSE)
    /\ Forget(p, e)
    /\ UNCHANGED <<proc, tick, starts, done, lost, overtaken>>

(* complete() rejects, its UPDATE applied or not: the catch block turns the *)
(* success into a failure.                                                  *)
CompleteErrors(p, e) ==
    /\ e \in active[p] /\ e.outcome = "ok"
    /\ UpdateRow(e, "completed", FALSE) \/ UNCHANGED row
    /\ Settle(p, e, "threw")
    /\ UNCHANGED <<proc, tick, starts, done, lost, overtaken>>

Fail(p, e) ==
    /\ e \in active[p] /\ e.outcome = "threw"
    /\ UpdateRow(e, IF IsDead(e) THEN "dead" ELSE "retry", FALSE)
    /\ Forget(p, e)
    /\ UNCHANGED <<proc, tick, starts, done, lost, overtaken>>

(* fail() rejects: the execution's promise is rejected with no handler, and *)
(* the unhandledRejection hook shuts the whole process down.                *)
FailErrors(p, e) ==
    /\ e \in active[p] /\ e.outcome = "threw" /\ starts < MaxStarts
    /\ Forget(p, e)
    /\ lost' = lost \cup {ClaimOf(e)}
    /\ proc' = [proc EXCEPT ![p] = IF @ = "up" THEN "closing" ELSE @]
    /\ UNCHANGED <<row, tick, starts, done, overtaken>>

-----------------------------------------------------------------------------
(* Shutdown, crash, time. The bound on starts is also the bound on exits:  *)
(* some process can always be started again.                               *)

Vanish(p) ==
    /\ lost' = lost \cup {ClaimOf(e) : e \in active[p]}
    /\ active' = [active EXCEPT ![p] = {}]
    /\ proc' = [proc EXCEPT ![p] = "down"]

(* SIGTERM: the server closes, in-flight requests and the worker go on.    *)
Shutdown(p) ==
    /\ proc[p] = "up" /\ starts < MaxStarts
    /\ proc' = [proc EXCEPT ![p] = "closing"]
    /\ UNCHANGED <<row, tick, active, starts, done, lost, overtaken>>

StopAccepting(p) ==
    /\ proc[p] = "closing"
    /\ proc' = [proc EXCEPT ![p] = "stopping"]
    /\ UNCHANGED <<row, tick, active, starts, done, lost, overtaken>>

(* stop() waits for the dispatch loop, then for the executions, but for no  *)
(* longer than the grace period.                                            *)
Drained(p) == active[p] = {}

Exit(p) ==
    /\ proc[p] = "stopping" /\ ~tick[p] /\ Drained(p)
    /\ proc' = [proc EXCEPT ![p] = "down"]
    /\ UNCHANGED <<row, tick, active, starts, done, lost, overtaken>>

GraceExpires(p) ==
    /\ proc[p] = "stopping" /\ ~tick[p] /\ ~Drained(p)
    /\ Vanish(p)
    /\ UNCHANGED <<row, tick, starts, done, overtaken>>

Crash(p) ==
    /\ proc[p] # "down" /\ starts < MaxStarts
    /\ Vanish(p)
    /\ tick' = [tick EXCEPT ![p] = FALSE]
    /\ UNCHANGED <<row, starts, done, overtaken>>

TimePasses(k) ==
    /\ row[k].status # "absent" /\ ~row[k].due
    /\ row' = [row EXCEPT ![k].due = TRUE]
    /\ UNCHANGED <<proc, tick, active, starts, done, lost, overtaken>>

-----------------------------------------------------------------------------
Startup(p) == Start(p) \/ RecoverStale(p) \/ PruneFinished(p)
Dispatch(p) == BeginTick(p) \/ FindNothing(p) \/ \E k \in Keys : ClaimNext(p, k)
Settling(p, e) ==
    Complete(p, e) \/ CompleteErrors(p, e) \/ Fail(p, e) \/ FailErrors(p, e)
Leaving(p) ==
    Shutdown(p) \/ StopAccepting(p) \/ Exit(p) \/ GraceExpires(p) \/ Crash(p)

(* The queue's own steps; what a task does is left to TaskReturns and      *)
(* TaskThrows, which a module that knows the tasks replaces.               *)
QueueStep(p) ==
    \/ Startup(p) \/ Dispatch(p) \/ Leaving(p)
    \/ \E e \in active[p] : Settling(p, e)

Next ==
    \/ \E p \in Procs :
        \/ QueueStep(p)
        \/ \E S \in SUBSET Keys : Backfill(p, S)
        \/ \E k \in Keys : Enqueue(p, k)
        \/ \E e \in active[p] : TaskReturns(p, e) \/ TaskThrows(p, e)
    \/ \E k \in Keys : TimePasses(k)

Spec == Init /\ [][Next]_queueVars

(* Fairness: processes are restarted and come up, polls and shutdown go on, *)
(* tasks end and their outcome is recorded, retry delays elapse. Nothing    *)
(* makes a lock age or a request arrive.                                    *)
Fairness ==
    /\ \A p \in Procs :
        /\ WF_queueVars(Startup(p))
        /\ WF_queueVars(\E S \in SUBSET Keys : Backfill(p, S))
        /\ WF_queueVars(BeginTick(p))
        /\ WF_queueVars(FindNothing(p) \/ \E k \in Keys : ClaimNext(p, k))
        /\ WF_queueVars(\E e \in active[p] : TaskReturns(p, e) \/ TaskThrows(p, e))
        /\ WF_queueVars(\E e \in active[p] : Settling(p, e))
        /\ WF_queueVars(StopAccepting(p))
        /\ WF_queueVars(Exit(p) \/ GraceExpires(p))
    /\ \A k \in Keys : WF_queueVars(row[k].status = "retry" /\ TimePasses(k))

FairSpec == Spec /\ Fairness

-----------------------------------------------------------------------------
(* Properties.                                                             *)

TypeOK ==
    /\ row \in [Keys -> Rows]
    /\ proc \in [Procs -> Phases]
    /\ tick \in [Procs -> BOOLEAN]
    /\ active \in [Procs -> SUBSET Executions]
    /\ starts \in Nat
    /\ done \in SUBSET (Keys \X Nat)
    /\ lost \in SUBSET Claims
    /\ overtaken \in SUBSET (Keys \X Nat)

(* A running row is backed by a live execution of exactly its current claim *)
(* in the process named by locked_by, or that execution vanished with its   *)
(* process: no interleaving of claims, late outcomes and recoveries leaves  *)
(* a row running that nobody will ever settle, except by losing a process.  *)
RunningRowIsHeld ==
    \A k \in Keys : row[k].status = "running" =>
        \/ CurrentClaim(k) \in lost
        \/ /\ row[k].holder \in Procs
           /\ \E e \in active[row[k].holder] : ClaimOf(e) = CurrentClaim(k)

(* One row is executed twice at the same time only after a starting process *)
(* recovered it as stale while its execution was still alive: two claims,   *)
(* or a claim and a retry, never overlap otherwise.                         *)
OverlapNeedsStaleLock ==
    \A p, q \in Procs : \A e \in active[p], f \in active[q] :
        e.key = f.key /\ e.id = f.id =>
            (p = q /\ e = f) \/ <<e.key, e.id>> \in overtaken

(* A completed row's task has run to the end, in whichever process and at   *)
(* whichever attempt: complete() without a fence never closes a job that    *)
(* nobody has performed.                                                    *)
CompletedIsPerformed ==
    \A k \in Keys : row[k].status = "completed" => <<k, row[k].id>> \in done

(* A dead row has used up its attempts, although fail() judges by the       *)
(* attempts of the execution that reports and not by those of the row.      *)
DeadIsSpent ==
    \A k \in Keys : row[k].status = "dead" => row[k].attempts >= MaxAttempts

(* Completed and dead rows never run again: late outcomes of superseded     *)
(* executions and repeated enqueues of the key leave them alone, and only   *)
(* the retention pruning of a starting process removes them.                *)
FinishedIsFinal ==
    [][\A k \in Keys : Finished(k) =>
         \/ row'[k].status = row[k].status /\ row'[k].id = row[k].id
         \/ row'[k].status = "absent" /\ row[k].due]_queueVars

Open(k) == row[k].status \in {"pending", "running", "retry"}

(* What the test "recovers interrupted work and backfills durable sources   *)
(* on restart" says of the queue: an accepted job is eventually finished,   *)
(* also when processes are lost on the way.                                 *)
InterruptedWorkIsRecovered == \A k \in Keys : Open(k) ~> ~Open(k)

(* The table implements the abstract queue.                                *)
AbstractFate(k) == IF Open(k) THEN "open" ELSE row[k].status

Queue == INSTANCE WorkQueue WITH
    job <- [k \in Keys |-> AbstractFate(k)],
    performed <- {k \in Keys : <<k, row[k].id>> \in done}

ImplementsQueue == Queue!Spec
=============================================================================
