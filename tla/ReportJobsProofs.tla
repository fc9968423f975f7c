-------------------------- MODULE ReportJobsProofs --------------------------
(***************************************************************************)
(* For any set of keys and processes and any bounds: the queue's type      *)
(* invariant, its safety invariants, that the table implements the         *)
(* abstract queue, and how often a job is attempted. Then, for any set of  *)
(* reports and processes: reports on the queue are a use of the queue, so  *)
(* its theorems hold of them, and the rows of the two tables and the files *)
(* stay consistent. Last, for any versions, attempts, transactions and     *)
(* links of audit packs: what is completed, issued and served.             *)
(***************************************************************************)
EXTENDS ReportJobs, AuditBundles, FiniteSetTheorems, WellFoundedInduction, TLAPS

-----------------------------------------------------------------------------
(* JobQueue.                                                               *)

(* What an execution in memory knows of its row: it is of this or an older  *)
(* row of the key, of this or an earlier attempt, and if its task is over   *)
(* the row has been performed.                                              *)
ExecutionsBehind ==
    \A p \in Procs : \A e \in active[p] :
        /\ e.id <= row[e.key].id
        /\ e.id = row[e.key].id => e.attempts <= row[e.key].attempts
        /\ e.outcome = "ok" => <<e.key, e.id>> \in done

HistoryBehind ==
    /\ \A c \in lost :
        /\ c[2] <= row[c[1]].id
        /\ c[2] = row[c[1]].id => c[3] <= row[c[1]].attempts
    /\ \A d \in done : d[2] <= row[d[1]].id

(* Two executions never hold the same claim, nor one that was lost.        *)
ClaimsAreUnique ==
    /\ \A p, q \in Procs : \A e \in active[p], f \in active[q] :
          ClaimOf(e) = ClaimOf(f) => p = q /\ e = f
    /\ \A p \in Procs : \A e \in active[p] : ClaimOf(e) \notin lost

(* The row of an execution that was not overtaken is still at its claim and *)
(* cannot be claimed again.                                                 *)
NotOvertaken ==
    \A p \in Procs : \A e \in active[p] :
        e.id = row[e.key].id /\ <<e.key, e.id>> \notin overtaken =>
            /\ e.attempts = row[e.key].attempts
            /\ row[e.key].status \notin {"pending", "retry"}

Safe ==
    /\ ExecutionsBehind
    /\ HistoryBehind
    /\ ClaimsAreUnique
    /\ NotOvertaken
    /\ RunningRowIsHeld
    /\ OverlapNeedsStaleLock
    /\ CompletedIsPerformed
    /\ DeadIsSpent

(* The inductive invariant.                                                *)
IInv == TypeOK /\ Safe
-----------------------------------------------------------------------------
(* Rewriting the columns a statement touches gives a row again.            *)
LEMMA ReleasedType ==
    ASSUME NEW r \in Rows, NEW s \in Statuses, NEW b \in BOOLEAN
    PROVE  Released(r, s, b) \in Rows
  BY DEF Released, Rows

LEMMA UpdateRowType ==
    ASSUME TypeOK, NEW p \in Procs, NEW e \in active[p],
           NEW s \in Statuses, NEW b \in BOOLEAN, UpdateRow(e, s, b)
    PROVE  row' \in [Keys -> Rows]
<1>1. e.key \in Keys
  BY DEF TypeOK, Executions
<1>2. Released(row[e.key], s, b) \in Rows
  BY <1>1, ReleasedType DEF TypeOK
<1>. QED
  BY <1>1, <1>2 DEF UpdateRow, TypeOK

(* Every step keeps the table, the processes and the histories well typed. *)
LEMMA TypeStep == TypeOK /\ [Next]_queueVars => TypeOK'
<1>. SUFFICES ASSUME TypeOK, [Next]_queueVars PROVE TypeOK'
  OBVIOUS
<1>. USE MaxAttemptsAssumption, ConcurrencyAssumption, BoundsAssumption, NoProcAssumption
<1>1. ASSUME NEW p \in Procs, Start(p) PROVE TypeOK'
  BY <1>1 DEF Start, TypeOK, Phases
<1>2. ASSUME NEW p \in Procs, RecoverStale(p) PROVE TypeOK'
  <2>1. \A k \in Keys : Released(row[k], "retry", TRUE) \in Rows
    BY ReleasedType DEF TypeOK, Statuses
  <2>2. row' \in [Keys -> Rows]
    BY <1>2, <2>1 DEF RecoverStale, TypeOK
  <2>3. \A k \in Keys : <<k, row[k].id>> \in Keys \X Nat
    BY DEF TypeOK, Rows
  <2>4. overtaken' \in SUBSET (Keys \X Nat)
    BY <1>2, <2>3 DEF RecoverStale, TypeOK
  <2>. QED
    BY <1>2, <2>2, <2>4 DEF RecoverStale, TypeOK, Phases
<1>3. ASSUME NEW p \in Procs, PruneFinished(p) PROVE TypeOK'
  <2>1. \A k \in Keys : Released(row[k], "absent", FALSE) \in Rows
    BY ReleasedType DEF TypeOK, Statuses
  <2>2. row' \in [Keys -> Rows]
    BY <1>3, <2>1 DEF PruneFinished, TypeOK
  <2>. QED
    BY <1>3, <2>2 DEF PruneFinished, TypeOK, Phases
<1>4. ASSUME NEW p \in Procs, NEW S \in SUBSET Keys, Backfill(p, S) PROVE TypeOK'
  BY <1>4 DEF Backfill, InsertIfAbsent, NewRow, TypeOK, Phases, Rows, Statuses
<1>5. ASSUME NEW p \in Procs, NEW k \in Keys, Enqueue(p, k) PROVE TypeOK'
  BY <1>5 DEF Enqueue, InsertIfAbsent, NewRow, TypeOK, Rows, Statuses
<1>6. ASSUME NEW p \in Procs, BeginTick(p) \/ FindNothing(p) PROVE TypeOK'
  BY <1>6 DEF BeginTick, FindNothing, TypeOK
<1>7. ASSUME NEW p \in Procs, NEW k \in Keys, ClaimNext(p, k) PROVE TypeOK'
  <2>1. row' \in [Keys -> Rows]
    BY <1>7 DEF ClaimNext, Lock, TypeOK, Rows, Statuses
  <2>2. Claimed(k) \in Executions
    BY DEF Claimed, Executions, TypeOK, Rows
  <2>. QED
    BY <1>7, <2>1, <2>2 DEF ClaimNext, Remember, TypeOK
<1>8. ASSUME NEW p \in Procs, NEW e \in active[p], TaskReturns(p, e) \/ TaskThrows(p, e)
      PROVE TypeOK'
  <2>1. After(e, "ok") \in Executions /\ After(e, "threw") \in Executions
    BY DEF TypeOK, Executions, After
  <2>2. <<e.key, e.id>> \in Keys \X Nat
    BY DEF TypeOK, Executions
  <2>. QED
    BY <1>8, <2>1, <2>2 DEF TaskReturns, TaskThrows, Settle, TypeOK
<1>9. ASSUME NEW p \in Procs, NEW e \in active[p], Settling(p, e) PROVE TypeOK'
  <2>. /\ "completed" \in Statuses
       /\ (IF IsDead(e) THEN "dead" ELSE "retry") \in Statuses
    BY DEF Statuses
  <2>1. UpdateRow(e, "completed", FALSE) => row' \in [Keys -> Rows]
    BY UpdateRowType
  <2>2. UpdateRow(e, IF IsDead(e) THEN "dead" ELSE "retry", FALSE) => row' \in [Keys -> Rows]
    BY UpdateRowType
  <2>3. CASE Complete(p, e)
    BY <2>1, <2>3 DEF Complete, Forget, TypeOK
  <2>4. CASE CompleteErrors(p, e)
    <3>1. After(e, "threw") \in Executions
      BY DEF TypeOK, Executions, After
    <3>2. row' \in [Keys -> Rows]
      BY <2>1, <2>4 DEF CompleteErrors, TypeOK
    <3>. QED
      BY <2>4, <3>1, <3>2 DEF CompleteErrors, Settle, TypeOK
  <2>5. CASE Fail(p, e)
    BY <2>2, <2>5 DEF Fail, Forget, TypeOK
  <2>6. CASE FailErrors(p, e)
    BY <2>6 DEF FailErrors, Forget, ClaimOf, Claims, Executions, Phases, TypeOK
  <2>. QED
    BY <1>9, <2>3, <2>4, <2>5, <2>6 DEF Settling
<1>10. ASSUME NEW p \in Procs, Leaving(p) PROVE TypeOK'
  <2>1. \A e \in active[p] : ClaimOf(e) \in Claims
    BY DEF ClaimOf, Claims, Executions, TypeOK
  <2>2. Vanish(p) => /\ lost' \in SUBSET Claims
                     /\ active' \in [Procs -> SUBSET Executions]
                     /\ proc' \in [Procs -> Phases]
    <3>1. Vanish(p) => lost' \in SUBSET Claims
      BY <2>1 DEF Vanish, TypeOK
    <3>2. Vanish(p) => active' \in [Procs -> SUBSET Executions]
      BY DEF Vanish, TypeOK
    <3>3. Vanish(p) => proc' \in [Procs -> Phases]
      BY DEF Vanish, Phases, TypeOK
    <3>. QED
      BY <3>1, <3>2, <3>3
  <2>3. CASE Shutdown(p) \/ StopAccepting(p) \/ Exit(p)
    BY <2>3 DEF Shutdown, StopAccepting, Exit, Phases, TypeOK
  <2>4. CASE GraceExpires(p)
    BY <2>2, <2>4 DEF GraceExpires, TypeOK
  <2>5. CASE Crash(p)
    BY <2>2, <2>5 DEF Crash, TypeOK
  <2>. QED
    BY <1>10, <2>3, <2>4, <2>5 DEF Leaving
<1>11. ASSUME NEW k \in Keys, TimePasses(k) PROVE TypeOK'
  BY <1>11 DEF TimePasses, TypeOK, Rows
<1>12. CASE UNCHANGED queueVars
  BY <1>12 DEF queueVars, TypeOK
<1>. QED
  BY <1>1, <1>2, <1>3, <1>4, <1>5, <1>6, <1>7, <1>8, <1>9, <1>10, <1>11, <1>12
     DEF Next, QueueStep, Startup, Dispatch

(* The types of migration 016 and of the worker's memory are never left.   *)
THEOREM TypeCorrect == Spec => []TypeOK
<1>1. Init => TypeOK
  BY NoProcAssumption DEF Init, TypeOK, Rows, Statuses, Phases, Claims
<1>. QED
  BY <1>1, TypeStep, PTL DEF Spec

-----------------------------------------------------------------------------
(* Steps that touch neither the table nor the executions.                  *)
LEMMA IdleStep == IInv /\ UNCHANGED <<row, active, done, lost, overtaken>>
                  => Safe'
  BY DEF IInv, Safe, ExecutionsBehind, HistoryBehind, ClaimsAreUnique, NotOvertaken, RunningRowIsHeld,
         OverlapNeedsStaleLock, CompletedIsPerformed, DeadIsSpent, ClaimOf, CurrentClaim

LEMMA ExecutionType ==
    ASSUME TypeOK, NEW p \in Procs, NEW e \in active[p]
    PROVE  /\ e \in Executions /\ e.key \in Keys /\ e.id \in Nat /\ e.attempts \in Nat
           /\ row[e.key].id \in Nat /\ row[e.key].attempts \in Nat
  BY DEF TypeOK, Executions, Rows

(* Statements that only rewrite rows without an execution of their own.    *)
LEMMA InsertStep ==
    ASSUME IInv, NEW S \in SUBSET Keys, InsertIfAbsent(S),
           UNCHANGED <<active, done, lost, overtaken>>
    PROVE  Safe'
<1>1. \A k \in Keys :
        \/ row'[k] = row[k]
        \/ /\ row[k].status = "absent" /\ row'[k].status = "pending"
           /\ row'[k].id = row[k].id + 1 /\ row[k].id \in Nat
  BY DEF InsertIfAbsent, NewRow, IInv, TypeOK, Rows
<1>2. ExecutionsBehind'
  <2>. SUFFICES ASSUME NEW p \in Procs, NEW e \in active[p]
                PROVE  /\ e.id <= row'[e.key].id
                       /\ e.id = row'[e.key].id => e.attempts <= row'[e.key].attempts
                       /\ e.outcome = "ok" => <<e.key, e.id>> \in done
    BY DEF ExecutionsBehind
  <2>1. e.key \in Keys /\ e.id \in Nat
    BY ExecutionType DEF IInv
  <2>2. /\ e.id <= row[e.key].id
        /\ e.id = row[e.key].id => e.attempts <= row[e.key].attempts
        /\ e.outcome = "ok" => <<e.key, e.id>> \in done
    BY DEF IInv, Safe, ExecutionsBehind
  <2>. QED
    BY <1>1, <2>1, <2>2
<1>3. HistoryBehind'
  BY <1>1 DEF IInv, Safe, HistoryBehind, TypeOK, Claims
<1>4. ClaimsAreUnique'
  BY DEF IInv, Safe, ClaimsAreUnique
<1>5. NotOvertaken'
  BY <1>1, ExecutionType DEF IInv, Safe, NotOvertaken, ExecutionsBehind
<1>6. RunningRowIsHeld'
  BY <1>1 DEF IInv, Safe, RunningRowIsHeld, CurrentClaim
<1>7. OverlapNeedsStaleLock'
  BY DEF IInv, Safe, OverlapNeedsStaleLock
<1>8. CompletedIsPerformed'
  BY <1>1 DEF IInv, Safe, CompletedIsPerformed
<1>9. DeadIsSpent'
  BY <1>1 DEF IInv, Safe, DeadIsSpent
<1>. QED
  BY <1>2, <1>3, <1>4, <1>5, <1>6, <1>7, <1>8, <1>9 DEF Safe

LEMMA PruneStep ==
    ASSUME IInv, NEW p \in Procs, PruneFinished(p)
    PROVE  Safe'
<1>1. \A k \in Keys :
        \/ row'[k] = row[k]
        \/ /\ row'[k].status = "absent"
           /\ row'[k].id = row[k].id /\ row'[k].attempts = row[k].attempts
  BY DEF PruneFinished, Released, IInv, TypeOK, Rows
<1>2. UNCHANGED <<active, done, lost, overtaken>>
  BY DEF PruneFinished
<1>3. ExecutionsBehind'
  BY <1>1, <1>2, ExecutionType DEF IInv, Safe, ExecutionsBehind
<1>4. HistoryBehind'
  BY <1>1, <1>2 DEF IInv, Safe, HistoryBehind, TypeOK, Claims
<1>5. ClaimsAreUnique' /\ OverlapNeedsStaleLock'
  BY <1>2 DEF IInv, Safe, ClaimsAreUnique, OverlapNeedsStaleLock
<1>6. NotOvertaken'
  BY <1>1, <1>2, ExecutionType DEF IInv, Safe, NotOvertaken
<1>7. RunningRowIsHeld'
  BY <1>1, <1>2 DEF IInv, Safe, RunningRowIsHeld, CurrentClaim
<1>8. CompletedIsPerformed' /\ DeadIsSpent'
  BY <1>1, <1>2 DEF IInv, Safe, CompletedIsPerformed, DeadIsSpent
<1>. QED
  BY <1>3, <1>4, <1>5, <1>6, <1>7, <1>8 DEF Safe

LEMMA RecoverStep ==
    ASSUME IInv, NEW p \in Procs, RecoverStale(p)
    PROVE  Safe'
<1>1. \A k \in Keys :
        \/ row'[k] = row[k]
        \/ /\ row[k].status = "running" /\ row'[k].status = "retry"
           /\ row'[k].id = row[k].id /\ row'[k].attempts = row[k].attempts
           /\ CurrentClaim(k) \in lost \/ <<k, row[k].id>> \in overtaken'
  <2>. TAKE k \in Keys
  <2>1. CASE ~Stale(k)
    BY <2>1 DEF RecoverStale
  <2>2. CASE Stale(k)
    <3>1. row'[k] = Released(row[k], "retry", TRUE)
      BY <2>2 DEF RecoverStale
    <3>2. CurrentClaim(k) \in lost \/ <<k, row[k].id>> \in overtaken'
      BY <2>2 DEF RecoverStale, Stale
    <3>. QED
      BY <2>2, <3>1, <3>2 DEF Stale, Released, IInv, TypeOK, Rows
  <2>. QED
    BY <2>1, <2>2
<1>2. UNCHANGED <<active, done, lost>> /\ overtaken \subseteq overtaken'
  BY DEF RecoverStale
<1>3. ExecutionsBehind'
  BY <1>1, <1>2, ExecutionType DEF IInv, Safe, ExecutionsBehind
<1>4. HistoryBehind'
  BY <1>1, <1>2 DEF IInv, Safe, HistoryBehind, TypeOK, Claims
<1>5. ClaimsAreUnique' /\ OverlapNeedsStaleLock'
  BY <1>2 DEF IInv, Safe, ClaimsAreUnique, OverlapNeedsStaleLock
<1>6. NotOvertaken'
  <2>. SUFFICES ASSUME NEW q \in Procs, NEW e \in active[q],
                       e.id = row'[e.key].id, <<e.key, e.id>> \notin overtaken'
                PROVE  /\ e.attempts = row'[e.key].attempts
                       /\ row'[e.key].status \notin {"pending", "retry"}
    BY <1>2 DEF NotOvertaken
  <2>1. e.key \in Keys
    BY ExecutionType DEF IInv
  <2>2. e.id = row[e.key].id /\ <<e.key, e.id>> \notin overtaken
    BY <1>1, <1>2, <2>1
  <2>3. e.attempts = row[e.key].attempts
    BY <2>2 DEF IInv, Safe, NotOvertaken
  <2>4. CurrentClaim(e.key) \notin lost
    BY <2>2, <2>3 DEF IInv, Safe, ClaimsAreUnique, ClaimOf, CurrentClaim
  <2>5. row'[e.key] = row[e.key]
    BY <1>1, <2>1, <2>2, <2>4
  <2>. QED
    BY <2>2, <2>5 DEF IInv, Safe, NotOvertaken
<1>7. RunningRowIsHeld'
  BY <1>1, <1>2 DEF IInv, Safe, RunningRowIsHeld, CurrentClaim
<1>8. CompletedIsPerformed' /\ DeadIsSpent'
  BY <1>1, <1>2 DEF IInv, Safe, CompletedIsPerformed, DeadIsSpent
<1>. QED
  BY <1>3, <1>4, <1>5, <1>6, <1>7, <1>8 DEF Safe

(* The passing of time touches no column any of this depends on.           *)
LEMMA TimeStep ==
    ASSUME IInv, NEW k \in Keys, TimePasses(k)
    PROVE  Safe'
<1>1. \A j \in Keys : /\ row'[j].status = row[j].status /\ row'[j].id = row[j].id
                      /\ row'[j].attempts = row[j].attempts /\ row'[j].holder = row[j].holder
  BY DEF TimePasses, IInv, TypeOK, Rows
<1>2. UNCHANGED <<active, done, lost, overtaken>>
  BY DEF TimePasses
<1>3. ExecutionsBehind' /\ NotOvertaken'
  BY <1>1, <1>2, ExecutionType DEF IInv, Safe, ExecutionsBehind, NotOvertaken
<1>4. HistoryBehind'
  BY <1>1, <1>2 DEF IInv, Safe, HistoryBehind, TypeOK, Claims
<1>5. ClaimsAreUnique' /\ OverlapNeedsStaleLock'
  BY <1>2 DEF IInv, Safe, ClaimsAreUnique, OverlapNeedsStaleLock
<1>6. RunningRowIsHeld'
  BY <1>1, <1>2 DEF IInv, Safe, RunningRowIsHeld, CurrentClaim
<1>7. CompletedIsPerformed' /\ DeadIsSpent'
  BY <1>1, <1>2 DEF IInv, Safe, CompletedIsPerformed, DeadIsSpent
<1>. QED
  BY <1>3, <1>4, <1>5, <1>6, <1>7 DEF Safe

(* A claim is new: its attempt number is above all the others of its row.  *)
LEMMA ClaimStep ==
    ASSUME IInv, NEW p \in Procs, NEW k \in Keys, ClaimNext(p, k)
    PROVE  Safe'
<1>. DEFINE c == Claimed(k)
<1>1. /\ c.key = k /\ c.id = row[k].id /\ c.attempts = row[k].attempts + 1
      /\ c.outcome = "busy"
  BY DEF Claimed
<1>2. /\ row[k].status \in {"pending", "retry"}
      /\ row'[k].status = "running" /\ row'[k].holder = p
      /\ row'[k].id = row[k].id /\ row'[k].attempts = row[k].attempts + 1
      /\ \A j \in Keys : j # k => row'[j] = row[j]
      /\ row[k].id \in Nat /\ row[k].attempts \in Nat
  BY DEF ClaimNext, Lock, Claimable, IInv, TypeOK, Rows
<1>3. /\ active'[p] = active[p] \cup {c}
      /\ \A q \in Procs : q # p => active'[q] = active[q]
      /\ UNCHANGED <<done, lost, overtaken>>
  BY DEF ClaimNext, Remember, IInv, TypeOK
<1>. HIDE DEF c
<1>4. \A q \in Procs : \A e \in active'[q] : (e = c /\ q = p) \/ e \in active[q]
  BY <1>3
<1>5. \A q \in Procs : \A e \in active[q] :
        /\ e.key \in Keys /\ e.id \in Nat /\ e.attempts \in Nat
        /\ e.key = k /\ e.id = row[k].id =>
              e.attempts < c.attempts /\ <<k, e.id>> \in overtaken
  <2>. TAKE q \in Procs
  <2>. TAKE e \in active[q]
  <2>1. e.key \in Keys /\ e.id \in Nat /\ e.attempts \in Nat
    BY ExecutionType DEF IInv
  <2>. QED
    BY <1>1, <1>2, <2>1 DEF IInv, Safe, ExecutionsBehind, NotOvertaken
<1>6. ExecutionsBehind'
  <2>. SUFFICES ASSUME NEW q \in Procs, NEW e \in active'[q]
                PROVE  /\ e.id <= row'[e.key].id
                       /\ e.id = row'[e.key].id => e.attempts <= row'[e.key].attempts
                       /\ e.outcome = "ok" => <<e.key, e.id>> \in done
    BY <1>3 DEF ExecutionsBehind
  <2>1. CASE e = c
    BY <1>1, <1>2, <2>1
  <2>2. CASE e \in active[q]
    <3>1. /\ e.id <= row[e.key].id
          /\ e.id = row[e.key].id => e.attempts <= row[e.key].attempts
          /\ e.outcome = "ok" => <<e.key, e.id>> \in done
      BY <2>2 DEF IInv, Safe, ExecutionsBehind
    <3>2. e.key \in Keys /\ e.attempts \in Nat
      BY <1>5, <2>2
    <3>. QED
      BY <1>2, <3>1, <3>2
  <2>. QED
    BY <1>4, <2>1, <2>2
<1>7. HistoryBehind'
  BY <1>2, <1>3 DEF IInv, Safe, HistoryBehind, TypeOK, Claims
<1>8. ClaimsAreUnique'
  <2>1. ASSUME NEW q \in Procs, NEW e \in active[q], ClaimOf(e) = ClaimOf(c)
        PROVE  FALSE
    <3>1. e.key = c.key /\ e.id = c.id /\ e.attempts = c.attempts
      BY <2>1 DEF ClaimOf
    <3>2. e.attempts \in Nat /\ e.attempts < c.attempts
      BY <1>1, <1>5, <3>1
    <3>. QED
      BY <3>1, <3>2
  <2>2. ClaimOf(c) \notin lost
    BY <1>1, <1>2 DEF IInv, Safe, HistoryBehind, ClaimOf
  <2>. QED
    BY <1>3, <1>4, <2>1, <2>2 DEF IInv, Safe, ClaimsAreUnique
<1>9. NotOvertaken'
  <2>. SUFFICES ASSUME NEW q \in Procs, NEW e \in active'[q],
                       e.id = row'[e.key].id, <<e.key, e.id>> \notin overtaken
                PROVE  /\ e.attempts = row'[e.key].attempts
                       /\ row'[e.key].status \notin {"pending", "retry"}
    BY <1>3 DEF NotOvertaken
  <2>1. CASE e = c
    BY <1>1, <1>2, <2>1
  <2>2. CASE e \in active[q]
    <3>1. e.key \in Keys /\ e.key # k
      BY <1>2, <1>5, <2>2
    <3>. QED
      BY <1>2, <2>2, <3>1 DEF IInv, Safe, NotOvertaken
  <2>. QED
    BY <1>4, <2>1, <2>2
<1>10. OverlapNeedsStaleLock'
  BY <1>1, <1>3, <1>4, <1>5 DEF IInv, Safe, OverlapNeedsStaleLock
<1>11. RunningRowIsHeld'
  <2>. SUFFICES ASSUME NEW j \in Keys, row'[j].status = "running", CurrentClaim(j)' \notin lost
                PROVE  /\ row'[j].holder \in Procs
                       /\ \E e \in active'[row'[j].holder] : ClaimOf(e) = CurrentClaim(j)'
    BY <1>3 DEF RunningRowIsHeld
  <2>1. CASE j = k
    BY <1>1, <1>2, <1>3, <2>1 DEF ClaimOf, CurrentClaim
  <2>2. CASE j # k
    BY <1>2, <1>3, <2>2 DEF IInv, Safe, RunningRowIsHeld, CurrentClaim
  <2>. QED
    BY <2>1, <2>2
<1>12. CompletedIsPerformed' /\ DeadIsSpent'
  BY <1>2, <1>3 DEF IInv, Safe, CompletedIsPerformed, DeadIsSpent
<1>. QED
  BY <1>6, <1>7, <1>8, <1>9, <1>10, <1>11, <1>12 DEF Safe

(* The outcome of a task changes an execution but not its claim.           *)
LEMMA SettleClaims ==
    ASSUME TypeOK, NEW p \in Procs, NEW e \in active[p], NEW o \in {"busy", "ok", "threw"},
           Settle(p, e, o)
    PROVE  /\ \A q \in Procs : \A f \in active'[q] :
                \/ f \in active[q] /\ (q = p => f # e)
                \/ q = p /\ f = After(e, o)
           /\ \A q \in Procs : \A f \in active[q] :
                \E g \in active'[q] : ClaimOf(g) = ClaimOf(f)
           /\ ClaimOf(After(e, o)) = ClaimOf(e)
<1>. DEFINE n == After(e, o)
<1>1. e \in Executions
  BY ExecutionType
<1>2. n.key = e.key /\ n.id = e.id /\ n.attempts = e.attempts
  BY <1>1 DEF Executions, After
<1>3. ClaimOf(n) = ClaimOf(e)
  BY <1>2 DEF ClaimOf
<1>4. /\ active'[p] = (active[p] \ {e}) \cup {n}
      /\ \A q \in Procs : q # p => active'[q] = active[q]
  BY DEF Settle, TypeOK
<1>. QED
  BY <1>3, <1>4

LEMMA TaskStep ==
    ASSUME IInv, NEW p \in Procs, NEW e \in active[p],
           NEW o \in {"ok", "threw"}, Settle(p, e, o),
           done \subseteq done', done' \subseteq done \cup {<<e.key, e.id>>},
           o = "ok" => <<e.key, e.id>> \in done',
           UNCHANGED <<row, lost, overtaken>>
    PROVE  Safe'
<1>. DEFINE n == After(e, o)
<1>1. /\ n.key = e.key /\ n.id = e.id /\ n.attempts = e.attempts /\ n.outcome = o
      /\ e.key \in Keys /\ e.id \in Nat
  BY ExecutionType DEF Executions, After, IInv
<1>2. /\ \A q \in Procs : \A f \in active'[q] :
            (f \in active[q] /\ (q = p => f # e)) \/ (q = p /\ f = n)
      /\ \A q \in Procs : \A f \in active[q] :
            \E g \in active'[q] : ClaimOf(g) = ClaimOf(f)
      /\ ClaimOf(n) = ClaimOf(e)
  <2>. TypeOK /\ o \in {"busy", "ok", "threw"}
    BY DEF IInv
  <2>. QED
    BY SettleClaims
<1>. HIDE DEF n
<1>3. ExecutionsBehind'
  BY <1>1, <1>2 DEF IInv, Safe, ExecutionsBehind
<1>4. HistoryBehind'
  BY <1>1 DEF IInv, Safe, HistoryBehind, ExecutionsBehind
<1>5. ClaimsAreUnique'
  BY <1>2 DEF IInv, Safe, ClaimsAreUnique
<1>6. NotOvertaken'
  BY <1>1, <1>2 DEF IInv, Safe, NotOvertaken
<1>7. OverlapNeedsStaleLock'
  BY <1>1, <1>2 DEF IInv, Safe, OverlapNeedsStaleLock
<1>8. RunningRowIsHeld'
  BY <1>2 DEF IInv, Safe, RunningRowIsHeld, CurrentClaim
<1>9. CompletedIsPerformed' /\ DeadIsSpent'
  BY DEF IInv, Safe, CompletedIsPerformed, DeadIsSpent
<1>. QED
  BY <1>3, <1>4, <1>5, <1>6, <1>7, <1>8, <1>9 DEF Safe

(* The execution's own statement: it closes the row or requeues it, and the *)
(* execution is gone or left with a recorded failure.                       *)
LEMMA OutcomeStep ==
    ASSUME IInv, NEW p \in Procs, NEW e \in active[p], NEW s \in {"completed", "dead", "retry"},
           UpdateRow(e, s, FALSE),
           Forget(p, e) \/ (s = "completed" /\ Settle(p, e, "threw")),
           s = "completed" => e.outcome = "ok",
           s = "dead" => IsDead(e),
           UNCHANGED <<done, lost, overtaken>>
    PROVE  Safe'
<1>. DEFINE n == After(e, "threw")
<1>1. /\ n.key = e.key /\ n.id = e.id /\ n.attempts = e.attempts /\ n.outcome = "threw"
      /\ e.key \in Keys /\ e.id \in Nat /\ ClaimOf(n) = ClaimOf(e)
  BY ExecutionType DEF Executions, After, IInv, ClaimOf
<1>. HIDE DEF n
<1>2. /\ \A q \in Procs : \A f \in active'[q] :
            (f \in active[q] /\ (q = p => f # e)) \/ (q = p /\ f = n /\ s = "completed")
      /\ \A q \in Procs : \A f \in active[q] : (q = p => f # e) => f \in active'[q]
  BY DEF Forget, Settle, IInv, TypeOK, n
<1>3. \A k \in Keys :
        \/ row'[k] = row[k] /\ ~(k = e.key /\ Updates(e))
        \/ /\ k = e.key /\ e.id = row[k].id
           /\ row[k].status = "running" /\ row'[k].status = s
           /\ row'[k].id = row[k].id /\ row'[k].attempts = row[k].attempts
  BY <1>1 DEF UpdateRow, Updates, Released, IInv, TypeOK, Rows
<1>4. ExecutionsBehind'
  <2>. SUFFICES ASSUME NEW q \in Procs, NEW f \in active'[q]
                PROVE  /\ f.id <= row'[f.key].id
                       /\ f.id = row'[f.key].id => f.attempts <= row'[f.key].attempts
                       /\ f.outcome = "ok" => <<f.key, f.id>> \in done
    BY DEF ExecutionsBehind
  <2>1. PICK g \in active[q] : f.key = g.key /\ f.id = g.id /\ f.attempts = g.attempts
                               /\ (f.outcome = "ok" => g.outcome = "ok")
    BY <1>1, <1>2
  <2>2. g.key \in Keys
    BY ExecutionType DEF IInv
  <2>. QED
    BY <1>3, <2>1, <2>2 DEF IInv, Safe, ExecutionsBehind
<1>5. HistoryBehind'
  BY <1>3 DEF IInv, Safe, HistoryBehind, TypeOK, Claims
<1>6. ClaimsAreUnique'
  BY <1>1, <1>2 DEF IInv, Safe, ClaimsAreUnique
<1>7. OverlapNeedsStaleLock'
  BY <1>1, <1>2 DEF IInv, Safe, OverlapNeedsStaleLock
<1>8. NotOvertaken'
  <2>. SUFFICES ASSUME NEW q \in Procs, NEW f \in active'[q],
                       f.id = row'[f.key].id, <<f.key, f.id>> \notin overtaken
                PROVE  /\ f.attempts = row'[f.key].attempts
                       /\ row'[f.key].status \notin {"pending", "retry"}
    BY DEF NotOvertaken
  <2>1. PICK g \in active[q] : /\ f.key = g.key /\ f.id = g.id /\ f.attempts = g.attempts
                               /\ (q = p => g # e) \/ s = "completed"
    BY <1>1, <1>2
  <2>2. g.key \in Keys
    BY ExecutionType DEF IInv
  <2>3. g.id = row[g.key].id
    BY <1>3, <2>1, <2>2
  <2>4. g.attempts = row[g.key].attempts /\ row[g.key].status \notin {"pending", "retry"}
    BY <2>1, <2>3 DEF IInv, Safe, NotOvertaken
  <2>5. CASE row'[g.key] = row[g.key]
    BY <2>1, <2>4, <2>5
  <2>6. CASE row'[g.key] # row[g.key]
    <3>1. g.key = e.key /\ g.id = e.id /\ row'[g.key].status = s
          /\ row'[g.key].attempts = row[g.key].attempts
      BY <1>3, <2>2, <2>3, <2>6
    <3>2. q = p /\ g = e
      BY <2>1, <3>1 DEF IInv, Safe, OverlapNeedsStaleLock
    <3>. QED
      BY <2>1, <2>4, <3>1, <3>2
  <2>. QED
    BY <2>5, <2>6
<1>9. RunningRowIsHeld'
  <2>. SUFFICES ASSUME NEW k \in Keys, row'[k].status = "running", CurrentClaim(k)' \notin lost
                PROVE  /\ row'[k].holder \in Procs
                       /\ \E f \in active'[row'[k].holder] : ClaimOf(f) = CurrentClaim(k)'
    BY DEF RunningRowIsHeld
  <2>1. row'[k] = row[k] /\ ~(k = e.key /\ Updates(e))
    BY <1>3
  <2>2. row[k].holder \in Procs /\ CurrentClaim(k)' = CurrentClaim(k)
    BY <2>1 DEF IInv, Safe, RunningRowIsHeld, CurrentClaim
  <2>3. PICK f \in active[row[k].holder] : ClaimOf(f) = CurrentClaim(k)
    BY <2>1, <2>2 DEF IInv, Safe, RunningRowIsHeld, CurrentClaim
  <2>4. f # e
    BY <2>1, <2>3 DEF ClaimOf, CurrentClaim, Updates
  <2>. QED
    BY <1>2, <2>1, <2>2, <2>3, <2>4
<1>10. CompletedIsPerformed'
  BY <1>3 DEF IInv, Safe, CompletedIsPerformed, ExecutionsBehind
<1>11. DeadIsSpent'
  <2>. SUFFICES ASSUME NEW k \in Keys, row'[k].status = "dead"
                PROVE  row'[k].attempts >= MaxAttempts
    BY DEF DeadIsSpent
  <2>1. CASE row'[k] = row[k]
    BY <2>1 DEF IInv, Safe, DeadIsSpent
  <2>2. CASE row'[k] # row[k]
    <3>1. IsDead(e) /\ e.key = k /\ e.id = row[k].id /\ row'[k].attempts = row[k].attempts
      BY <1>3, <2>2
    <3>2. e.attempts <= row[k].attempts /\ e.attempts \in Nat /\ row[k].attempts \in Nat
      BY <3>1, ExecutionType DEF IInv, Safe, ExecutionsBehind
    <3>. QED
      BY <3>1, <3>2, MaxAttemptsAssumption DEF IsDead
  <2>. QED
    BY <2>1, <2>2
<1>. QED
  BY <1>4, <1>5, <1>6, <1>7, <1>8, <1>9, <1>10, <1>11 DEF Safe

(* Executions that vanish are remembered as lost.                          *)
LEMMA LossStep ==
    ASSUME IInv, NEW p \in Procs, NEW L \in SUBSET active[p],
           active' = [active EXCEPT ![p] = @ \ L],
           lost' = lost \cup {ClaimOf(e) : e \in L},
           UNCHANGED <<row, done, overtaken>>
    PROVE  Safe'
<1>1. /\ \A q \in Procs : active'[q] \subseteq active[q]
      /\ \A q \in Procs : \A e \in active[q] : e \in active'[q] \/ (q = p /\ e \in L)
      /\ \A e \in active'[p] : e \notin L
  BY DEF IInv, TypeOK
<1>2. ExecutionsBehind' /\ NotOvertaken' /\ OverlapNeedsStaleLock'
  BY <1>1 DEF IInv, Safe, ExecutionsBehind, NotOvertaken, OverlapNeedsStaleLock
<1>3. HistoryBehind'
  <2>1. \A e \in L : /\ ClaimOf(e)[1] = e.key /\ ClaimOf(e)[2] = e.id /\ ClaimOf(e)[3] = e.attempts
    BY DEF ClaimOf
  <2>2. \A c \in lost' : c[2] <= row[c[1]].id /\ (c[2] = row[c[1]].id => c[3] <= row[c[1]].attempts)
    <3>. TAKE c \in lost'
    <3>1. CASE c \in lost
      BY <3>1 DEF IInv, Safe, HistoryBehind
    <3>2. CASE c \in {ClaimOf(e) : e \in L}
      <4>1. PICK e \in L : c = ClaimOf(e)
        BY <3>2
      <4>. QED
        BY <2>1, <4>1 DEF IInv, Safe, ExecutionsBehind
    <3>. QED
      BY <3>1, <3>2
  <2>. QED
    BY <2>2 DEF IInv, Safe, HistoryBehind
<1>4. ClaimsAreUnique'
  BY <1>1 DEF IInv, Safe, ClaimsAreUnique
<1>5. RunningRowIsHeld'
  BY <1>1 DEF IInv, Safe, RunningRowIsHeld, CurrentClaim
<1>6. CompletedIsPerformed' /\ DeadIsSpent'
  BY DEF IInv, Safe, CompletedIsPerformed, DeadIsSpent
<1>. QED
  BY <1>2, <1>3, <1>4, <1>5, <1>6 DEF Safe

LEMMA InitSafe == Init => IInv
<1>. SUFFICES ASSUME Init PROVE IInv
  OBVIOUS
<1>1. TypeOK
  BY NoProcAssumption DEF Init, TypeOK, Rows, Statuses, Phases, Claims
<1>2. Safe
  BY DEF Init, Safe, ExecutionsBehind, HistoryBehind, ClaimsAreUnique, NotOvertaken,
         RunningRowIsHeld, OverlapNeedsStaleLock, CompletedIsPerformed, DeadIsSpent
<1>. QED
  BY <1>1, <1>2 DEF IInv

LEMMA SafeStep == IInv /\ [Next]_queueVars => IInv'
<1>. SUFFICES ASSUME IInv, [Next]_queueVars PROVE Safe'
  BY TypeStep DEF IInv
<1>1. ASSUME NEW p \in Procs, Startup(p) PROVE Safe'
  <2>1. CASE Start(p)
    BY <2>1, IdleStep DEF Start
  <2>. QED
    BY <1>1, <2>1, RecoverStep, PruneStep DEF Startup
<1>2. ASSUME NEW p \in Procs, NEW S \in SUBSET Keys, Backfill(p, S) PROVE Safe'
  BY <1>2, InsertStep DEF Backfill
<1>3. ASSUME NEW p \in Procs, NEW k \in Keys, Enqueue(p, k) PROVE Safe'
  <2>1. {k} \in SUBSET Keys
    OBVIOUS
  <2>. QED
    BY <1>3, <2>1, InsertStep DEF Enqueue
<1>4. ASSUME NEW p \in Procs, Dispatch(p) PROVE Safe'
  <2>1. CASE BeginTick(p) \/ FindNothing(p)
    BY <2>1, IdleStep DEF BeginTick, FindNothing
  <2>. QED
    BY <1>4, <2>1, ClaimStep DEF Dispatch
<1>5. ASSUME NEW p \in Procs, NEW e \in active[p], TaskReturns(p, e) \/ TaskThrows(p, e)
      PROVE  Safe'
  <2>1. CASE TaskReturns(p, e)
    BY <2>1, TaskStep DEF TaskReturns
  <2>2. CASE TaskThrows(p, e)
    BY <2>2, TaskStep DEF TaskThrows
  <2>. QED
    BY <1>5, <2>1, <2>2
<1>6. ASSUME NEW p \in Procs, NEW e \in active[p], Settling(p, e) PROVE Safe'
  <2>1. CASE Complete(p, e)
    BY <2>1, OutcomeStep DEF Complete
  <2>2. CASE CompleteErrors(p, e)
    <3>1. CASE UpdateRow(e, "completed", FALSE)
      BY <2>2, <3>1, OutcomeStep DEF CompleteErrors
    <3>2. CASE UNCHANGED row
      BY <2>2, <3>2, TaskStep DEF CompleteErrors
    <3>. QED
      BY <2>2, <3>1, <3>2 DEF CompleteErrors
  <2>3. CASE Fail(p, e)
    <3>1. CASE IsDead(e)
      BY <2>3, <3>1, OutcomeStep DEF Fail
    <3>2. CASE ~IsDead(e)
      BY <2>3, <3>2, OutcomeStep DEF Fail
    <3>. QED
      BY <3>1, <3>2
  <2>4. CASE FailErrors(p, e)
    <3>. DEFINE L == {e}
    <3>1. L \in SUBSET active[p] /\ {ClaimOf(f) : f \in L} = {ClaimOf(e)}
      OBVIOUS
    <3>2. /\ active' = [active EXCEPT ![p] = @ \ L]
          /\ lost' = lost \cup {ClaimOf(f) : f \in L}
          /\ UNCHANGED <<row, done, overtaken>>
      BY <2>4, <3>1 DEF FailErrors, Forget
    <3>. QED
      BY <3>1, <3>2, LossStep
  <2>. QED
    BY <1>6, <2>1, <2>2, <2>3, <2>4 DEF Settling
<1>7. ASSUME NEW p \in Procs, Leaving(p) PROVE Safe'
  <2>1. CASE Shutdown(p) \/ StopAccepting(p) \/ Exit(p)
    BY <2>1, IdleStep DEF Shutdown, StopAccepting, Exit
  <2>2. CASE GraceExpires(p) \/ Crash(p)
    <3>1. active[p] \in SUBSET active[p] /\ active[p] \ active[p] = {}
      OBVIOUS
    <3>2. /\ active' = [active EXCEPT ![p] = @ \ active[p]]
          /\ lost' = lost \cup {ClaimOf(e) : e \in active[p]}
          /\ UNCHANGED <<row, done, overtaken>>
      BY <2>2, <3>1 DEF GraceExpires, Crash, Vanish
    <3>. QED
      BY <3>1, <3>2, LossStep
  <2>. QED
    BY <1>7, <2>1, <2>2 DEF Leaving
<1>8. ASSUME NEW k \in Keys, TimePasses(k) PROVE Safe'
  BY <1>8, TimeStep
<1>9. CASE UNCHANGED queueVars
  BY <1>9, IdleStep DEF queueVars
<1>. QED
  BY <1>1, <1>2, <1>3, <1>4, <1>5, <1>6, <1>7, <1>8, <1>9 DEF Next, QueueStep

LEMMA Invariance == Spec => []IInv
  BY InitSafe, SafeStep, PTL DEF Spec

(* A running row has a live execution in the process named by locked_by,    *)
(* or lost it with that process (Lock, Remember, Vanish).                   *)
THEOREM RunningHeld == Spec => []RunningRowIsHeld
<1>1. IInv => RunningRowIsHeld
  BY DEF IInv, Safe
<1>. QED
  BY <1>1, Invariance, PTL

(* Two executions of one row need a stale lock recovered while its holder   *)
(* was alive (claimNext, recoverStale, fail).                               *)
THEOREM NoOverlap == Spec => []OverlapNeedsStaleLock
<1>1. IInv => OverlapNeedsStaleLock
  BY DEF IInv, Safe
<1>. QED
  BY <1>1, Invariance, PTL

(* A completed row has been performed (complete).                          *)
THEOREM CompletedPerformed == Spec => []CompletedIsPerformed
<1>1. IInv => CompletedIsPerformed
  BY DEF IInv, Safe
<1>. QED
  BY <1>1, Invariance, PTL

(* A dead row has used up its attempts (fail).                             *)
THEOREM DeadSpent == Spec => []DeadIsSpent
<1>1. IInv => DeadIsSpent
  BY DEF IInv, Safe
<1>. QED
  BY <1>1, Invariance, PTL

-----------------------------------------------------------------------------
(* The table implements the abstract queue: every step of the system is one *)
(* of WorkQueue's or leaves its variables alone.                            *)

Fate == [k \in Keys |-> AbstractFate(k)]
Performed == {k \in Keys : <<k, row[k].id>> \in done}

LEMMA Quiet ==
    ASSUME \A k \in Keys : AbstractFate(k)' = AbstractFate(k) /\ row'[k].id = row[k].id,
           UNCHANGED done
    PROVE  UNCHANGED <<Fate, Performed>>
  BY DEF Fate, Performed

LEMMA QuietIdle == UNCHANGED <<row, done>> => UNCHANGED <<Fate, Performed>>
  BY DEF Fate, Performed, AbstractFate, Open

LEMMA InsertAccepts ==
    ASSUME IInv, NEW T \in SUBSET Keys, InsertIfAbsent(T), UNCHANGED done
    PROVE  Queue!Next
<1>0. PICK A \in SUBSET Keys : A = {k \in T : row[k].status = "absent"}
  OBVIOUS
<1>1. \A k \in Keys :
        \/ k \notin A /\ row'[k] = row[k]
        \/ /\ k \in A /\ row[k].status = "absent" /\ row'[k].status = "pending"
           /\ row'[k].id = row[k].id + 1 /\ row[k].id \in Nat
           /\ <<k, row'[k].id>> \notin done
  <2>1. \A k \in Keys : row[k].id \in Nat /\ <<k, row[k].id + 1>> \notin done
    <3>. TAKE k \in Keys
    <3>1. row[k].id \in Nat
      BY DEF IInv, TypeOK, Rows
    <3>2. ASSUME <<k, row[k].id + 1>> \in done PROVE row[k].id + 1 <= row[k].id
      BY <3>2 DEF IInv, Safe, HistoryBehind
    <3>. QED
      BY <3>1, <3>2
  <2>. QED
    BY <1>0, <2>1 DEF InsertIfAbsent, NewRow
<1>2. Fate' = [k \in Keys |-> IF k \in A THEN "open" ELSE Fate[k]]
  BY <1>1 DEF Fate, AbstractFate, Open
<1>3. Performed' = Performed \ A
  BY <1>1 DEF Performed
<1>4. \A k \in A : Fate[k] = "absent"
  BY <1>0 DEF Fate, AbstractFate, Open
<1>5. Queue!Accept(A)
  BY <1>2, <1>3, <1>4 DEF Queue!Accept, Fate, Performed
<1>. QED
  BY <1>5 DEF Queue!Next

LEMMA PruneRefines ==
    ASSUME IInv, NEW p \in Procs, PruneFinished(p)
    PROVE  Queue!Next
<1>0. PICK A \in SUBSET Keys : A = {k \in Keys : Finished(k) /\ row[k].due}
  OBVIOUS
<1>1. \A k \in Keys :
        \/ k \notin A /\ row'[k] = row[k]
        \/ k \in A /\ row'[k].status = "absent" /\ row'[k].id = row[k].id
  BY <1>0 DEF PruneFinished, Released, IInv, TypeOK, Rows
<1>2. Fate' = [k \in Keys |-> IF k \in A THEN "absent" ELSE Fate[k]]
  BY <1>1 DEF Fate, AbstractFate, Open
<1>3. Performed' = Performed
  BY <1>1 DEF Performed, PruneFinished
<1>4. \A k \in A : Fate[k] \in {"completed", "dead"}
  BY <1>0 DEF Fate, AbstractFate, Open, Finished
<1>5. Queue!Prune(A)
  BY <1>2, <1>3, <1>4 DEF Queue!Prune, Fate, Performed
<1>. QED
  BY <1>5 DEF Queue!Next

LEMMA OutcomeRefines ==
    ASSUME IInv, NEW p \in Procs, NEW e \in active[p], NEW s \in {"completed", "dead", "retry"},
           UpdateRow(e, s, FALSE), s = "completed" => e.outcome = "ok", UNCHANGED done
    PROVE  Queue!Next \/ UNCHANGED <<Fate, Performed>>
<1>. DEFINE k == e.key
<1>1. k \in Keys
  BY ExecutionType DEF IInv
<1>2. CASE Updates(e) /\ s # "retry"
  <2>1. /\ \A j \in Keys : row'[j].id = row[j].id /\ (j # k => row'[j] = row[j])
        /\ row[k].status = "running" /\ row[k].id = e.id /\ row'[k].status = s
    BY <1>1, <1>2 DEF UpdateRow, Updates, Released, IInv, TypeOK, Rows
  <2>2. Fate' = [Fate EXCEPT ![k] = s] /\ Fate[k] = "open"
    BY <1>1, <1>2, <2>1 DEF Fate, AbstractFate, Open
  <2>3. Performed' = Performed
    BY <2>1 DEF Performed
  <2>4. s = "completed" => k \in Performed
    BY <1>1, <2>1 DEF Performed, IInv, Safe, ExecutionsBehind
  <2>5. CASE s = "completed"
    BY <1>1, <2>2, <2>3, <2>4, <2>5 DEF Queue!Next, Queue!Finish, Fate, Performed
  <2>6. CASE s = "dead"
    BY <1>1, <2>2, <2>3, <2>6 DEF Queue!Next, Queue!GiveUp, Fate, Performed
  <2>. QED
    BY <1>2, <2>5, <2>6
<1>3. CASE ~(Updates(e) /\ s # "retry")
  <2>1. \A j \in Keys : AbstractFate(j)' = AbstractFate(j) /\ row'[j].id = row[j].id
    BY <1>1, <1>3 DEF UpdateRow, Updates, Released, IInv, TypeOK, Rows, AbstractFate, Open
  <2>. QED
    BY <2>1, Quiet
<1>. QED
  BY <1>2, <1>3

LEMMA TaskRefines ==
    ASSUME IInv, NEW p \in Procs, NEW e \in active[p], TaskReturns(p, e)
    PROVE  Queue!Next \/ UNCHANGED <<Fate, Performed>>
<1>1. e.key \in Keys
  BY ExecutionType DEF IInv
<1>2. UNCHANGED row /\ done' = done \cup {<<e.key, e.id>>}
  BY DEF TaskReturns
<1>3. Fate' = Fate
  BY <1>2 DEF Fate, AbstractFate, Open
<1>4. CASE e.id = row[e.key].id
  <2>1. Performed' = Performed \cup {e.key}
    BY <1>1, <1>2, <1>4 DEF Performed
  <2>. QED
    BY <1>1, <1>3, <2>1 DEF Queue!Next, Queue!Perform, Fate, Performed
<1>5. CASE e.id # row[e.key].id
  <2>1. Performed' = Performed
    BY <1>2, <1>5 DEF Performed
  <2>. QED
    BY <1>3, <2>1
<1>. QED
  BY <1>4, <1>5

LEMMA QueueRefines ==
    ASSUME IInv, [Next]_queueVars
    PROVE  Queue!Next \/ UNCHANGED <<Fate, Performed>>
<1>1. ASSUME NEW p \in Procs, Start(p) \/ BeginTick(p) \/ FindNothing(p) \/ Leaving(p)
      PROVE  UNCHANGED <<Fate, Performed>>
  BY <1>1, QuietIdle DEF Start, BeginTick, FindNothing, Leaving, Shutdown, StopAccepting,
                         Exit, GraceExpires, Crash
<1>2. ASSUME NEW p \in Procs, RecoverStale(p) PROVE UNCHANGED <<Fate, Performed>>
  <2>1. \A k \in Keys : AbstractFate(k)' = AbstractFate(k) /\ row'[k].id = row[k].id
    BY <1>2 DEF RecoverStale, Stale, Released, AbstractFate, Open, IInv, TypeOK, Rows
  <2>. QED
    BY <1>2, <2>1, Quiet DEF RecoverStale
<1>3. ASSUME NEW p \in Procs, NEW S \in SUBSET Keys, Backfill(p, S) PROVE Queue!Next
  BY <1>3, InsertAccepts DEF Backfill
<1>4. ASSUME NEW p \in Procs, NEW k \in Keys, Enqueue(p, k) PROVE Queue!Next
  <2>1. {k} \in SUBSET Keys
    OBVIOUS
  <2>. QED
    BY <1>4, <2>1, InsertAccepts DEF Enqueue
<1>5. ASSUME NEW p \in Procs, NEW k \in Keys, ClaimNext(p, k) PROVE UNCHANGED <<Fate, Performed>>
  <2>1. \A j \in Keys : AbstractFate(j)' = AbstractFate(j) /\ row'[j].id = row[j].id
    BY <1>5 DEF ClaimNext, Claimable, Lock, AbstractFate, Open, IInv, TypeOK, Rows
  <2>. QED
    BY <1>5, <2>1, Quiet DEF ClaimNext
<1>6. ASSUME NEW p \in Procs, NEW e \in active[p], TaskThrows(p, e) \/ FailErrors(p, e)
      PROVE  UNCHANGED <<Fate, Performed>>
  BY <1>6, QuietIdle DEF TaskThrows, FailErrors
<1>7. ASSUME NEW p \in Procs, NEW e \in active[p],
             Complete(p, e) \/ CompleteErrors(p, e) \/ Fail(p, e)
      PROVE  Queue!Next \/ UNCHANGED <<Fate, Performed>>
  <2>1. CASE Complete(p, e)
    BY <2>1, OutcomeRefines DEF Complete
  <2>2. CASE CompleteErrors(p, e)
    BY <2>2, OutcomeRefines, QuietIdle DEF CompleteErrors
  <2>3. CASE Fail(p, e) /\ IsDead(e)
    BY <2>3, OutcomeRefines DEF Fail
  <2>4. CASE Fail(p, e) /\ ~IsDead(e)
    BY <2>4, OutcomeRefines DEF Fail
  <2>. QED
    BY <1>7, <2>1, <2>2, <2>3, <2>4
<1>8. ASSUME NEW k \in Keys, TimePasses(k) PROVE UNCHANGED <<Fate, Performed>>
  <2>1. \A j \in Keys : AbstractFate(j)' = AbstractFate(j) /\ row'[j].id = row[j].id
    BY <1>8 DEF TimePasses, AbstractFate, Open, IInv, TypeOK, Rows
  <2>. QED
    BY <1>8, <2>1, Quiet DEF TimePasses
<1>9. CASE UNCHANGED queueVars
  BY <1>9, QuietIdle DEF queueVars
<1>. QED
  BY <1>1, <1>2, <1>3, <1>4, <1>5, <1>6, <1>7, <1>8, <1>9, PruneRefines, TaskRefines
     DEF Next, QueueStep, Startup, Dispatch, Settling

(* The table, its workers and their crashes implement the abstract queue.  *)
THEOREM Refinement == Spec => ImplementsQueue
<1>1. Init => Queue!Init
  BY DEF Init, Queue!Init, AbstractFate, Open
<1>2. IInv /\ [Next]_queueVars => [Queue!Next]_(Queue!vars)
  BY QueueRefines DEF Queue!vars, Fate, Performed
<1>. QED
  BY <1>1, <1>2, Invariance, PTL DEF Spec, ImplementsQueue, Queue!Spec

-----------------------------------------------------------------------------
(* What a step may do to a finished row: nothing, or prune it when due.    *)
KeepsFinished(k) ==
    Finished(k) =>
        \/ row'[k].status = row[k].status /\ row'[k].id = row[k].id
        \/ row'[k].status = "absent" /\ row[k].due

LEMMA FinalStep ==
    ASSUME TypeOK, [Next]_queueVars, NEW k \in Keys
    PROVE  KeepsFinished(k)
<1>0. UNCHANGED row => KeepsFinished(k)
  BY DEF KeepsFinished
<1>1. ASSUME NEW p \in Procs, Startup(p) PROVE KeepsFinished(k)
  <2>1. CASE Start(p)
    BY <1>0, <2>1 DEF Start
  <2>2. CASE RecoverStale(p)
    <3>1. row'[k] = IF Stale(k) THEN Released(row[k], "retry", TRUE) ELSE row[k]
      BY <2>2 DEF RecoverStale
    <3>. QED
      BY <3>1 DEF Stale, Finished, KeepsFinished
  <2>3. CASE PruneFinished(p)
    <3>1. row'[k] = IF Finished(k) /\ row[k].due THEN Released(row[k], "absent", FALSE) ELSE row[k]
      BY <2>3 DEF PruneFinished
    <3>2. row[k] \in Rows
      BY DEF TypeOK
    <3>3. Released(row[k], "absent", FALSE).status = "absent"
      BY <3>2 DEF Released, Rows
    <3>. QED
      BY <3>1, <3>3 DEF KeepsFinished
  <2>. QED
    BY <1>1, <2>1, <2>2, <2>3 DEF Startup
<1>2. ASSUME NEW S \in SUBSET Keys, InsertIfAbsent(S) PROVE KeepsFinished(k)
  BY <1>2 DEF InsertIfAbsent, KeepsFinished, Finished
<1>3. ASSUME NEW p \in Procs, NEW j \in Keys, ClaimNext(p, j) PROVE KeepsFinished(k)
  BY <1>3 DEF ClaimNext, Claimable, Lock, KeepsFinished, Finished, TypeOK, Rows
<1>4. ASSUME NEW e, NEW s, UpdateRow(e, s, FALSE) PROVE KeepsFinished(k)
  BY <1>4 DEF UpdateRow, Updates, KeepsFinished, Finished, TypeOK
<1>5. ASSUME NEW j \in Keys, TimePasses(j) PROVE KeepsFinished(k)
  BY <1>5 DEF TimePasses, KeepsFinished, Finished, TypeOK, Rows
<1>7. ASSUME NEW p \in Procs, NEW S \in SUBSET Keys, Backfill(p, S) PROVE KeepsFinished(k)
  BY <1>2, <1>7 DEF Backfill
<1>8. ASSUME NEW p \in Procs, NEW j \in Keys, Enqueue(p, j) PROVE KeepsFinished(k)
  <2>1. {j} \in SUBSET Keys
    OBVIOUS
  <2>. QED
    BY <1>2, <1>8, <2>1 DEF Enqueue
<1>9. ASSUME NEW p \in Procs, NEW e \in active[p],
             Settling(p, e) \/ TaskReturns(p, e) \/ TaskThrows(p, e)
      PROVE  KeepsFinished(k)
  BY <1>4, <1>0, <1>9 DEF Settling, Complete, CompleteErrors, Fail, FailErrors,
                          TaskReturns, TaskThrows
<1>10. ASSUME NEW p \in Procs, Leaving(p) \/ BeginTick(p) \/ FindNothing(p)
       PROVE  KeepsFinished(k)
  BY <1>0, <1>10 DEF Leaving, Shutdown, StopAccepting, Exit, GraceExpires, Crash,
                     BeginTick, FindNothing
<1>. QED
  BY <1>0, <1>1, <1>3, <1>5, <1>7, <1>8, <1>9, <1>10 DEF Next, QueueStep, Dispatch, queueVars

(* Late outcomes and repeated enqueues never reopen a finished row.        *)
THEOREM FinishedFinal == Spec => FinishedIsFinal
<1>1. TypeOK /\ [Next]_queueVars =>
        [\A k \in Keys : Finished(k) =>
             \/ row'[k].status = row[k].status /\ row'[k].id = row[k].id
             \/ row'[k].status = "absent" /\ row[k].due]_queueVars
  BY FinalStep DEF KeepsFinished
<1>. QED
  BY <1>1, TypeCorrect, PTL DEF Spec, FinishedIsFinal

-----------------------------------------------------------------------------
(* How often a job is attempted. A row goes back for another claim when an attempt   *)
(* fails that is not the last one allowed, at most once for each of these, or when a *)
(* starting process recovers it, at most once for each start. What a row has used   *)
(* and may still use of both is its Spent: its attempts, or all but the last one if   *)
(* it has made fewer, its turn if it waits for a claim, and the attempts that can     *)
(* still send it back, at most one for each.                                      *)
Counted(k) == IF row[k].attempts >= MaxAttempts THEN row[k].attempts ELSE MaxAttempts - 1
Turn(k) == IF row[k].status \in {"pending", "retry"} THEN 1 ELSE 0
Failable(k) ==
    {a \in 0..(MaxAttempts - 1) :
        \E p \in Procs : \E e \in active[p] : ClaimOf(e) = <<k, row[k].id, a>>}
Spent(k) == Counted(k) + Turn(k) + Cardinality(Failable(k))

Recovering == {p \in Procs : proc[p] = "recovering"}

Budget ==
    /\ IsFiniteSet(Recovering) /\ Cardinality(Recovering) <= starts
    /\ \A k \in Keys : Spent(k) + Cardinality(Recovering) <= MaxAttempts + starts

LEMMA FailableFinite ==
    ASSUME NEW k \in Keys
    PROVE  /\ IsFiniteSet(Failable(k)) /\ Cardinality(Failable(k)) \in Nat
           /\ IsFiniteSet(Failable(k)') /\ Cardinality(Failable(k)') \in Nat
<1>1. IsFiniteSet(0..(MaxAttempts - 1))
  BY FS_Interval, MaxAttemptsAssumption
<1>2. Failable(k) \subseteq 0..(MaxAttempts - 1) /\ Failable(k)' \subseteq 0..(MaxAttempts - 1)
  BY DEF Failable
<1>. QED
  BY <1>1, <1>2, FS_Subset, FS_CardinalityType

\* Executions disappear, and the row does not begin to wait.
LEMMA NoMoreSpent ==
    ASSUME TypeOK, TypeOK', NEW k \in Keys,
           row'[k].id = row[k].id, row'[k].attempts = row[k].attempts,
           row'[k].status \in {"pending", "retry"} => row[k].status \in {"pending", "retry"},
           \A p \in Procs : \A f \in active'[p] : \E e \in active[p] : ClaimOf(f) = ClaimOf(e)
    PROVE  Spent(k)' <= Spent(k)
<1>1. Failable(k)' \subseteq Failable(k)
  BY DEF Failable
<1>2. /\ Cardinality(Failable(k)') <= Cardinality(Failable(k))
      /\ Cardinality(Failable(k)) \in Nat /\ Cardinality(Failable(k)') \in Nat
  BY <1>1, FailableFinite, FS_Subset
<1>3. Turn(k)' <= Turn(k) /\ Turn(k) \in Nat /\ Turn(k)' \in Nat
  BY DEF Turn
<1>4. Counted(k)' = Counted(k) /\ Counted(k) \in Nat
  <2>1. row[k].attempts \in Nat
    BY DEF TypeOK, Rows
  <2>. QED
    BY <2>1, MaxAttemptsAssumption DEF Counted
<1>5. Spent(k) = Counted(k) + Turn(k) + Cardinality(Failable(k))
      /\ Spent(k)' = Counted(k)' + Turn(k)' + Cardinality(Failable(k)')
  BY DEF Spent
<1>. QED
  BY ONLY <1>2, <1>3, <1>4, <1>5

LEMMA SpentRecovered ==
    ASSUME TypeOK, NEW p \in Procs, RecoverStale(p), NEW k \in Keys
    PROVE  Spent(k)' <= Spent(k) + 1
<1>1. /\ active' = active
      /\ row'[k] = IF Stale(k) THEN Released(row[k], "retry", TRUE) ELSE row[k]
  BY DEF RecoverStale
<1>2. row[k] \in Rows
  BY DEF TypeOK
<1>3. row'[k].id = row[k].id /\ row'[k].attempts = row[k].attempts
  BY <1>1, <1>2 DEF Released, Rows
<1>4. Failable(k)' = Failable(k) /\ Counted(k)' = Counted(k)
  BY <1>1, <1>3 DEF Failable, Counted
<1>5. Turn(k)' <= Turn(k) + 1 /\ Turn(k) \in Nat /\ Turn(k)' \in Nat
  BY DEF Turn
<1>6. Counted(k) \in Nat /\ Cardinality(Failable(k)) \in Nat
  BY <1>2, FailableFinite, MaxAttemptsAssumption DEF Counted, Rows
<1>7. Spent(k) = Counted(k) + Turn(k) + Cardinality(Failable(k))
      /\ Spent(k)' = Counted(k) + Turn(k)' + Cardinality(Failable(k))
  BY <1>4 DEF Spent
<1>. QED
  BY ONLY <1>5, <1>6, <1>7

LEMMA SpentInserted ==
    ASSUME IInv, TypeOK', NEW S \in SUBSET Keys, InsertIfAbsent(S), active' = active, NEW k \in Keys
    PROVE  Spent(k)' <= Spent(k) \/ Spent(k)' = MaxAttempts
<1>0. TypeOK /\ ExecutionsBehind
  BY DEF IInv, Safe
<1>1. row'[k] = IF k \in S /\ row[k].status = "absent" THEN NewRow(k) ELSE row[k]
  BY DEF InsertIfAbsent
<1>2. CASE k \in S /\ row[k].status = "absent"
  <2>1. row'[k].id = row[k].id + 1 /\ row'[k].attempts = 0 /\ row'[k].status = "pending"
    BY <1>1, <1>2 DEF NewRow
  <2>2. Failable(k)' = {}
    <3>1. \A p \in Procs : \A e \in active[p] : e.key = k => e.id # row[k].id + 1
      <4>. SUFFICES ASSUME NEW p \in Procs, NEW e \in active[p], e.key = k
                    PROVE  e.id # row[k].id + 1
        OBVIOUS
      <4>1. e \in Executions /\ row[k] \in Rows
        BY <1>0 DEF TypeOK
      <4>2. e.id <= row[k].id /\ e.id \in Nat /\ row[k].id \in Nat
        BY <1>0, <4>1 DEF ExecutionsBehind, Rows, Executions
      <4>. QED
        BY <4>2
    <3>. QED
      BY <2>1, <3>1 DEF Failable, ClaimOf
  <2>3. Counted(k)' = MaxAttempts - 1 /\ Turn(k)' = 1 /\ Cardinality(Failable(k)') = 0
    BY <2>1, <2>2, FS_EmptySet, MaxAttemptsAssumption DEF Counted, Turn
  <2>. QED
    BY <2>3, MaxAttemptsAssumption DEF Spent
<1>3. CASE ~(k \in S /\ row[k].status = "absent")
  BY <1>0, <1>1, <1>3, NoMoreSpent
<1>. QED
  BY <1>2, <1>3

LEMMA SpentClaimed ==
    ASSUME TypeOK, TypeOK', NEW p \in Procs, NEW j \in Keys, ClaimNext(p, j), NEW k \in Keys
    PROVE  Spent(k)' <= Spent(k)
<1>1. /\ row' = [row EXCEPT ![j].status = "running", ![j].attempts = @ + 1,
                            ![j].due = FALSE, ![j].holder = p]
      /\ active' = [active EXCEPT ![p] = @ \cup {Claimed(j)}]
      /\ row[j].status \in {"pending", "retry"}
  BY DEF ClaimNext, Lock, Remember, Claimable
<1>2. \A q \in Procs : \A f \in active'[q] : f \in active[q] \/ f = Claimed(j)
  BY <1>1 DEF TypeOK
<1>3. row[k] \in Rows /\ row[j] \in Rows
  BY DEF TypeOK
<1>4. CASE k # j
  <2>1. row'[k] = row[k]
    BY <1>1, <1>4 DEF TypeOK
  <2>2. Failable(k)' = Failable(k)
    <3>1. \A q \in Procs : \A f \in active'[q] : f.key = k => f \in active[q]
      BY <1>2, <1>4 DEF Claimed
    <3>2. \A q \in Procs : active[q] \subseteq active'[q]
      BY <1>1 DEF TypeOK
    <3>. QED
      BY <2>1, <3>1, <3>2 DEF Failable, ClaimOf
  <2>3. Spent(k)' = Spent(k)
    BY <2>1, <2>2 DEF Spent, Counted, Turn
  <2>4. Spent(k) \in Nat
    BY <1>3, FailableFinite, MaxAttemptsAssumption DEF Spent, Counted, Turn, Rows
  <2>. QED
    BY <2>3, <2>4
<1>5. CASE k = j
  <2>1. /\ row'[k].id = row[k].id /\ row'[k].attempts = row[k].attempts + 1
        /\ row'[k].status = "running" /\ row[k].attempts \in Nat
    BY <1>1, <1>3, <1>5 DEF TypeOK, Rows
  <2>2. Turn(k)' = 0 /\ Turn(k) = 1
    BY <1>1, <1>5, <2>1 DEF Turn
  <2>3. Failable(k)' \subseteq Failable(k) \cup {row[k].attempts + 1}
    BY <1>2, <1>5, <2>1 DEF Failable, ClaimOf, Claimed
  <2>4. CASE row[k].attempts + 1 < MaxAttempts
    <3>1. Cardinality(Failable(k)') <= Cardinality(Failable(k)) + 1
      <4>1. /\ IsFiniteSet(Failable(k) \cup {row[k].attempts + 1})
            /\ Cardinality(Failable(k) \cup {row[k].attempts + 1})
                 \in {Cardinality(Failable(k)), Cardinality(Failable(k)) + 1}
        BY FailableFinite, FS_AddElement, Zenon
      <4>2. Cardinality(Failable(k)') <= Cardinality(Failable(k) \cup {row[k].attempts + 1})
        BY <2>3, <4>1, FS_Subset
      <4>. QED
        BY <4>1, <4>2, FailableFinite, FS_CardinalityType
    <3>2. Counted(k)' = MaxAttempts - 1 /\ Counted(k) = MaxAttempts - 1
      BY <2>1, <2>4, MaxAttemptsAssumption DEF Counted
    <3>. QED
      BY <2>2, <3>1, <3>2, FailableFinite, MaxAttemptsAssumption DEF Spent
  <2>5. CASE row[k].attempts + 1 >= MaxAttempts
    <3>1. Failable(k)' \subseteq Failable(k)
      <4>1. row[k].attempts + 1 \notin Failable(k)'
        BY <2>1, <2>5, MaxAttemptsAssumption DEF Failable
      <4>. QED
        BY <2>3, <4>1
    <3>2. Cardinality(Failable(k)') <= Cardinality(Failable(k))
      BY <3>1, FailableFinite, FS_Subset
    <3>3. Counted(k)' = Counted(k) + 1 /\ Counted(k) \in Nat
      BY <2>1, <2>5, MaxAttemptsAssumption DEF Counted
    <3>. QED
      BY <2>2, <3>2, <3>3, FailableFinite DEF Spent
  <2>. QED
    BY <2>1, <2>4, <2>5, MaxAttemptsAssumption
<1>. QED
  BY <1>4, <1>5

\* An attempt that fails for the first and only time.
LEMMA SpentFailed ==
    ASSUME IInv, TypeOK', NEW p \in Procs, NEW e \in active[p], Fail(p, e), NEW k \in Keys
    PROVE  Spent(k)' <= Spent(k)
<1>0. TypeOK /\ ClaimsAreUnique /\ e \in Executions
  BY DEF IInv, Safe, TypeOK
<1>1. active' = [active EXCEPT ![p] = @ \ {e}]
  BY DEF Fail, Forget
<1>2. \A q \in Procs : active'[q] \subseteq active[q]
  BY <1>0, <1>1 DEF TypeOK
<1>3. row[k] \in Rows
  BY <1>0 DEF TypeOK
<1>4. CASE ~Updates(e) \/ e.key # k
  <2>1. row'[k] = row[k]
    BY <1>0, <1>4 DEF Fail, UpdateRow, TypeOK
  <2>. QED
    BY <1>0, <1>2, <2>1, NoMoreSpent
<1>5. CASE Updates(e) /\ e.key = k
  <2>1. row'[k] = Released(row[k], IF IsDead(e) THEN "dead" ELSE "retry", FALSE)
    BY <1>0, <1>5 DEF Fail, UpdateRow, TypeOK
  <2>2. /\ row'[k].id = row[k].id /\ row'[k].attempts = row[k].attempts
        /\ row'[k].status = IF IsDead(e) THEN "dead" ELSE "retry"
    BY <1>3, <2>1 DEF Released, Rows
  <2>3. CASE IsDead(e)
    BY <1>0, <1>2, <2>2, <2>3, NoMoreSpent
  <2>4. CASE ~IsDead(e)
    <3>1. e.attempts \in 0..(MaxAttempts - 1) /\ ClaimOf(e) = <<k, row[k].id, e.attempts>>
      BY <1>0, <1>5, <2>4, MaxAttemptsAssumption DEF Executions, IsDead, Updates, ClaimOf
    <3>2. e.attempts \in Failable(k)
      BY <3>1 DEF Failable
    <3>3. \A q \in Procs : \A f \in active'[q] : ClaimOf(f) # ClaimOf(e)
      BY <1>0, <1>1, <1>2 DEF ClaimsAreUnique, TypeOK
    <3>4. Failable(k)' \subseteq Failable(k) \ {e.attempts}
      BY <1>2, <2>2, <3>1, <3>3 DEF Failable
    <3>5. Cardinality(Failable(k)') <= Cardinality(Failable(k)) - 1
      <4>1. /\ IsFiniteSet(Failable(k) \ {e.attempts})
            /\ Cardinality(Failable(k) \ {e.attempts}) = Cardinality(Failable(k)) - 1
        BY <3>2, FailableFinite, FS_RemoveElement
      <4>2. Cardinality(Failable(k)') <= Cardinality(Failable(k) \ {e.attempts})
        BY <3>4, <4>1, FS_Subset
      <4>. QED
        BY <4>1, <4>2
    <3>6. Turn(k)' = 1 /\ Turn(k) = 0
      BY <1>5, <2>2, <2>4 DEF Turn, Updates
    <3>7. Counted(k)' = Counted(k) /\ Counted(k) \in Nat
      BY <1>3, <2>2, MaxAttemptsAssumption DEF Counted, Rows
    <3>. QED
      BY <3>5, <3>6, <3>7, FailableFinite DEF Spent
  <2>. QED
    BY <2>3, <2>4
<1>. QED
  BY <1>4, <1>5

\* All the other steps of the queue.
LEMMA SpentOtherwise ==
    ASSUME TypeOK, TypeOK', NEW k \in Keys, NEW p \in Procs,
           \/ Start(p) \/ PruneFinished(p) \/ BeginTick(p) \/ FindNothing(p) \/ Leaving(p)
           \/ \E e \in active[p] : \/ TaskReturns(p, e) \/ TaskThrows(p, e) \/ Complete(p, e)
                                   \/ CompleteErrors(p, e) \/ FailErrors(p, e)
           \/ \E j \in Keys : TimePasses(j)
    PROVE  Spent(k)' <= Spent(k)
<1>0. row[k] \in Rows
  BY DEF TypeOK
<1>1. ASSUME row'[k] = row[k], \A q \in Procs : active'[q] \subseteq active[q]
      PROVE  Spent(k)' <= Spent(k)
  BY <1>1, NoMoreSpent
<1>2. CASE Start(p) \/ BeginTick(p) \/ FindNothing(p)
  BY <1>1, <1>2 DEF Start, BeginTick, FindNothing
<1>3. CASE Leaving(p)
  BY <1>1, <1>3 DEF Leaving, Shutdown, StopAccepting, Exit, GraceExpires, Crash, Vanish, TypeOK
<1>4. CASE PruneFinished(p)
  <2>1. /\ active' = active
        /\ row'[k] = IF Finished(k) /\ row[k].due THEN Released(row[k], "absent", FALSE) ELSE row[k]
    BY <1>4 DEF PruneFinished
  <2>2. /\ row'[k].id = row[k].id /\ row'[k].attempts = row[k].attempts
        /\ row'[k].status \in {row[k].status, "absent"}
    BY <1>0, <2>1 DEF Released, Rows
  <2>. QED
    BY <2>1, <2>2, NoMoreSpent
<1>5. CASE \E j \in Keys : TimePasses(j)
  <2>1. /\ active' = active /\ row'[k].id = row[k].id /\ row'[k].attempts = row[k].attempts
        /\ row'[k].status = row[k].status
    BY <1>0, <1>5 DEF TimePasses, TypeOK, Rows
  <2>. QED
    BY <2>1, NoMoreSpent
<1>6. ASSUME NEW e \in active[p],
             \/ TaskReturns(p, e) \/ TaskThrows(p, e) \/ Complete(p, e) \/ CompleteErrors(p, e)
             \/ FailErrors(p, e)
      PROVE  Spent(k)' <= Spent(k)
  <2>0. e \in Executions
    BY DEF TypeOK
  <2>1. /\ row'[k].id = row[k].id /\ row'[k].attempts = row[k].attempts
        /\ row'[k].status \in {row[k].status, "completed"}
    <3>1. row' = row \/ UpdateRow(e, "completed", FALSE)
      BY <1>6 DEF TaskReturns, TaskThrows, Complete, CompleteErrors, FailErrors
    <3>2. CASE UpdateRow(e, "completed", FALSE)
      <4>1. row'[k] = row[k] \/ row'[k] = Released(row[k], "completed", FALSE)
        BY <3>2 DEF UpdateRow, TypeOK
      <4>. QED
        BY <1>0, <4>1 DEF Released, Rows
    <3>. QED
      BY <3>1, <3>2
  <2>2. \E outcome \in {"ok", "threw"} : Settle(p, e, outcome) \/ Forget(p, e)
    BY <1>6 DEF TaskReturns, TaskThrows, Complete, CompleteErrors, FailErrors
  <2>3. \A outcome : ClaimOf(After(e, outcome)) = ClaimOf(e)
    BY <2>0 DEF After, ClaimOf, Executions
  <2>4. \A q \in Procs : \A f \in active'[q] : f \in active[q] \/ (ClaimOf(f) = ClaimOf(e) /\ q = p)
    BY <2>2, <2>3 DEF Settle, Forget, TypeOK
  <2>. QED
    BY <2>1, <2>4, NoMoreSpent
<1>. QED
  BY <1>2, <1>3, <1>4, <1>5, <1>6

\* A start adds a process that recovers, which only recovering can turn into a use.
LEMMA StartsKept ==
    ASSUME TypeOK, IsFiniteSet(Recovering), [Next]_queueVars
    PROVE  /\ IsFiniteSet(Recovering')
           /\ starts' - Cardinality(Recovering') >= starts - Cardinality(Recovering)
           /\ \A p \in Procs : RecoverStale(p) =>
                starts' - Cardinality(Recovering') >= starts - Cardinality(Recovering) + 1
<1>0. Cardinality(Recovering) \in Nat /\ starts \in Nat
  BY FS_CardinalityType DEF TypeOK
<1>1. ASSUME NEW p \in Procs, Start(p)
      PROVE  Recovering' = Recovering \cup {p} /\ p \notin Recovering /\ starts' = starts + 1
  BY <1>1 DEF Start, Recovering, TypeOK
<1>2. ASSUME NEW p \in Procs, RecoverStale(p)
      PROVE  Recovering' = Recovering \ {p} /\ p \in Recovering /\ starts' = starts
  BY <1>2 DEF RecoverStale, Recovering, TypeOK
<1>3. (\E p \in Procs : Start(p) \/ RecoverStale(p))
      \/ (Recovering' \subseteq Recovering /\ starts' = starts /\ \A p \in Procs : ~RecoverStale(p))
  <2>1. CASE UNCHANGED queueVars
    BY <2>1 DEF queueVars, Recovering, RecoverStale, TypeOK
  <2>2. ASSUME NEW p \in Procs, \/ PruneFinished(p) \/ Dispatch(p) \/ Leaving(p)
                                \/ \E e \in active[p] : Settling(p, e)
                                \/ \E S \in SUBSET Keys : Backfill(p, S)
                                \/ \E k \in Keys : Enqueue(p, k)
                                \/ \E e \in active[p] : TaskReturns(p, e) \/ TaskThrows(p, e)
        PROVE  starts' = starts /\ \A q \in Procs : proc'[q] \in {proc[q], "backfilling", "up",
                                                          "closing", "stopping", "down"}
    BY <2>2 DEF PruneFinished, Dispatch, BeginTick, FindNothing, ClaimNext, Leaving, Shutdown,
                StopAccepting, Exit, GraceExpires, Crash, Vanish, Settling, Complete,
                CompleteErrors, Fail, FailErrors, Backfill, Enqueue, TaskReturns, TaskThrows, TypeOK
  <2>3. ASSUME NEW k \in Keys, TimePasses(k) PROVE starts' = starts /\ proc' = proc
    BY <2>3 DEF TimePasses
  <2>. QED
    BY <2>1, <2>2, <2>3, <1>2 DEF Next, QueueStep, Startup, Recovering
<1>4. CASE \E p \in Procs : Start(p) \/ RecoverStale(p)
  <2>1. PICK p \in Procs : Start(p) \/ RecoverStale(p)
    BY <1>4
  <2>2. CASE Start(p)
    <3>1. \A q \in Procs : ~RecoverStale(q)
      BY <2>2 DEF Start, RecoverStale, TypeOK
    <3>. QED
      BY <1>0, <1>1, <2>2, <3>1, FS_AddElement
  <2>3. CASE RecoverStale(p)
    BY <1>0, <1>2, <2>3, FS_RemoveElement
  <2>. QED
    BY <2>1, <2>2, <2>3
<1>5. CASE Recovering' \subseteq Recovering /\ starts' = starts /\ \A p \in Procs : ~RecoverStale(p)
  <2>1. IsFiniteSet(Recovering') /\ Cardinality(Recovering') <= Cardinality(Recovering)
    BY <1>5, FS_Subset
  <2>2. Cardinality(Recovering') \in Nat
    BY <2>1, FS_CardinalityType
  <2>. QED
    BY <1>0, <1>5, <2>1, <2>2
<1>. QED
  BY <1>3, <1>4, <1>5

LEMMA SpentStep ==
    ASSUME IInv, TypeOK', [Next]_queueVars, NEW k \in Keys
    PROVE  \/ Spent(k)' <= Spent(k)
           \/ Spent(k)' = MaxAttempts
           \/ Spent(k)' <= Spent(k) + 1 /\ \E p \in Procs : RecoverStale(p)
<1>0. TypeOK
  BY DEF IInv
<1>1. CASE UNCHANGED queueVars
  BY <1>0, <1>1, NoMoreSpent DEF queueVars
<1>2. ASSUME NEW p \in Procs, Startup(p) \/ Dispatch(p) \/ Leaving(p)
      PROVE  \/ Spent(k)' <= Spent(k)
             \/ Spent(k)' <= Spent(k) + 1 /\ RecoverStale(p)
  BY <1>0, <1>2, SpentRecovered, SpentClaimed, SpentOtherwise DEF Startup, Dispatch
<1>3. ASSUME NEW p \in Procs, NEW e \in active[p],
             Settling(p, e) \/ TaskReturns(p, e) \/ TaskThrows(p, e)
      PROVE  Spent(k)' <= Spent(k)
  BY <1>0, <1>3, SpentFailed, SpentOtherwise DEF Settling
<1>4. ASSUME NEW S \in SUBSET Keys, InsertIfAbsent(S), active' = active
      PROVE  Spent(k)' <= Spent(k) \/ Spent(k)' = MaxAttempts
  BY <1>4, SpentInserted
<1>5. ASSUME NEW p \in Procs, NEW S \in SUBSET Keys, Backfill(p, S)
      PROVE  Spent(k)' <= Spent(k) \/ Spent(k)' = MaxAttempts
  BY <1>4, <1>5 DEF Backfill
<1>6. ASSUME NEW p \in Procs, NEW j \in Keys, Enqueue(p, j)
      PROVE  Spent(k)' <= Spent(k) \/ Spent(k)' = MaxAttempts
  <2>1. {j} \in SUBSET Keys
    OBVIOUS
  <2>. QED
    BY <1>4, <1>6, <2>1 DEF Enqueue
<1>7. ASSUME NEW j \in Keys, TimePasses(j) PROVE Spent(k)' <= Spent(k)
  <2>1. /\ active' = active /\ row'[k].id = row[k].id /\ row'[k].attempts = row[k].attempts
        /\ row'[k].status = row[k].status
    BY <1>0, <1>7 DEF TimePasses, TypeOK, Rows
  <2>. QED
    BY <1>0, <2>1, NoMoreSpent
<1>. QED
  BY <1>1, <1>2, <1>3, <1>5, <1>6, <1>7 DEF Next, QueueStep

LEMMA BudgetStep ==
    ASSUME IInv, TypeOK', Budget, [Next]_queueVars
    PROVE  Budget'
<1>0. TypeOK
  BY DEF IInv
<1> DEFINE slack == starts - Cardinality(Recovering)
<1>1. /\ IsFiniteSet(Recovering') /\ slack' >= slack
      /\ \A p \in Procs : RecoverStale(p) => slack' >= slack + 1
  BY <1>0, StartsKept DEF Budget
<1>2. /\ Cardinality(Recovering) \in Nat /\ Cardinality(Recovering') \in Nat
      /\ starts \in Nat /\ starts' \in Nat
  BY <1>0, <1>1, FS_CardinalityType DEF Budget, TypeOK
<1>3. slack >= 0
  BY <1>2 DEF Budget
<1>4. ASSUME NEW k \in Keys PROVE Spent(k)' <= MaxAttempts + slack'
  <2>1. Spent(k) \in Nat /\ Spent(k)' \in Nat
    BY <1>0, FailableFinite, MaxAttemptsAssumption DEF Spent, Counted, Turn, TypeOK, Rows
  <2>2. Spent(k) <= MaxAttempts + slack
    BY <1>2, <2>1, MaxAttemptsAssumption DEF Budget
  <2>3. \/ Spent(k)' <= Spent(k) \/ Spent(k)' = MaxAttempts
        \/ Spent(k)' <= Spent(k) + 1 /\ slack' >= slack + 1
    BY <1>1, SpentStep
  <2>4. slack \in Int /\ slack' \in Int
    BY <1>2
  <2> HIDE DEF slack
  <2>. QED
    BY <1>1, <1>3, <2>1, <2>2, <2>3, <2>4, MaxAttemptsAssumption
<1>5. \A k \in Keys : Spent(k)' \in Nat
  BY FailableFinite, MaxAttemptsAssumption DEF Spent, Counted, Turn, TypeOK, Rows
<1>6. slack' >= 0
  BY <1>1, <1>2, <1>3
<1>. QED
  BY <1>1, <1>2, <1>4, <1>5, <1>6, MaxAttemptsAssumption DEF Budget

\* What JOB_MAX_ATTEMPTS bounds: the failures, not the recoveries.
AttemptsAreBounded == \A k \in Keys : row[k].attempts <= MaxAttempts + starts

(* A job is attempted as often as it may fail, and once more for every start of a   *)
(* process, however late outcomes, recoveries and claims interleave, also when it   *)
(* is recovered while its executions are alive and each reports its own failure     *)
(* (jobRepository.js, claimNext, fail and recoverStale).                            *)
THEOREM AttemptsBounded == Spec => []AttemptsAreBounded
<1>1. Init => Budget
  <2>. SUFFICES ASSUME Init PROVE Budget
    OBVIOUS
  <2>1. Recovering = {} /\ starts = 0
    BY DEF Init, Recovering
  <2>2. ASSUME NEW k \in Keys
        PROVE  Counted(k) = MaxAttempts - 1 /\ Turn(k) = 0 /\ Failable(k) = {}
    BY MaxAttemptsAssumption DEF Init, Counted, Turn, Failable
  <2>3. IsFiniteSet({}) /\ Cardinality({}) = 0
    BY FS_EmptySet
  <2>. QED
    BY <2>1, <2>2, <2>3, MaxAttemptsAssumption DEF Budget, Spent
<1>2. TypeOK /\ Budget => AttemptsAreBounded
  <2>. SUFFICES ASSUME TypeOK, Budget, NEW k \in Keys PROVE row[k].attempts <= MaxAttempts + starts
    BY DEF AttemptsAreBounded
  <2>1. /\ Counted(k) \in Nat /\ Turn(k) \in Nat /\ Cardinality(Failable(k)) \in Nat
        /\ row[k].attempts <= Counted(k) /\ row[k].attempts \in Nat
    BY FailableFinite, MaxAttemptsAssumption DEF Counted, Turn, TypeOK, Rows
  <2>2. Cardinality(Recovering) \in Nat /\ starts \in Nat
    BY FS_CardinalityType DEF Budget, TypeOK
  <2>3. Counted(k) + Turn(k) + Cardinality(Failable(k)) + Cardinality(Recovering)
          <= MaxAttempts + starts
    BY DEF Budget, Spent
  <2>. QED
    BY ONLY <2>1, <2>2, <2>3, MaxAttemptsAssumption
<1>3. TypeOK /\ IInv /\ Budget /\ [Next]_queueVars /\ TypeOK' => Budget'
  BY BudgetStep
<1>. QED
  BY <1>1, <1>2, <1>3, TypeCorrect, Invariance, PTL DEF Spec

-----------------------------------------------------------------------------
(* ReportJobs.                                                             *)

(* Types of the variables the reports add to the queue's.                  *)
ReportTypes ==
    /\ report \in [Keys -> [status : {"none", "processing", "completed", "failed", "deleted"},
                            stored : BOOLEAN]]
    /\ file \in [Keys -> {"none", "partial", "whole"}]
    /\ creating \in SUBSET Keys
    /\ stage \in SUBSET (Claims \X Stages)
    /\ patch \in [Keys -> {"none", "processing", "completed", "failed"}]
    /\ deletion \in [Keys -> {"none", "stored", "unstored", "unlink", "done"}]

(* Nothing is known of a report before it is created.                      *)
Unseen(k) ==
    /\ row[k].status = "absent"
    /\ k \notin creating
    /\ \A p \in Procs : \A e \in active[p] : e.key # k

NothingBeforeCreation ==
    \A k \in Keys : report[k].status = "none" => Unseen(k) /\ deletion[k] = "none"

(* A task that ran to the end stored its file reference, or found no row.  *)
PerformedStored ==
    \A d \in done : /\ report[d[1]].status # "none"
                    /\ report[d[1]].stored \/ report[d[1]].status = "deleted"

(* Files are removed after their row, and written before they are named.   *)
UnlinkedAfterDelete ==
    \A k \in Keys : deletion[k] \in {"unlink", "done"} => report[k].status = "deleted"

FileKept ==
    \A k \in Keys : report[k].status # "deleted" =>
        /\ report[k].stored => file[k] # "none"
        /\ \A x \in stage : x[1][1] = k /\ x[2] \in {"open", "written"} => file[k] # "none"

(* The inductive invariant, on top of the queue's.                         *)
ReportSafe ==
    /\ NothingBeforeCreation
    /\ PerformedStored
    /\ UnlinkedAfterDelete
    /\ FileKept
-----------------------------------------------------------------------------
(* The composition: what a report does to the queue is a step of the queue. *)

LEMMA ReportStepIsQueueStep == [ReportNext]_vars => [Next]_queueVars
<1>. SUFFICES ASSUME [ReportNext]_vars PROVE [Next]_queueVars
  OBVIOUS
<1>1. CASE UNCHANGED vars
  BY <1>1 DEF vars
<1>2. ASSUME NEW p \in Procs, QueueStep(p) PROVE Next
  BY <1>2 DEF Next
<1>3. ASSUME NEW p \in Procs, Backfill(p, Waiting) PROVE Next
  <2>. Waiting \in SUBSET Keys
    BY DEF Waiting
  <2>. QED
    BY <1>3 DEF Next
<1>4. ASSUME NEW p \in Procs, NEW k \in Keys, EnqueueReport(p, k) PROVE Next
  BY <1>4 DEF EnqueueReport, Next
<1>5. ASSUME NEW p \in Procs, NEW e \in active[p], Generate(p, e) PROVE [Next]_queueVars
  <2>1. CASE BeginGeneration(p, e) \/ OpenFile(p, e) \/ CloseFile(p, e)
    BY <2>1 DEF BeginGeneration, OpenFile, CloseFile
  <2>2. CASE MarkCompleted(p, e) \/ MarkFailed(p, e)
    BY <2>2 DEF MarkCompleted, MarkFailed, Next
  <2>. QED
    BY <1>5, <2>1, <2>2 DEF Generate
<1>6. ASSUME NEW k \in Keys, TimePasses(k) PROVE Next
  BY <1>6 DEF Next
<1>7. ASSUME NEW p \in Procs, NEW k \in Keys,
             \/ CreateReport(p, k) \/ BeginDelete(p, k)
             \/ \E new \in PatchTargets : BeginPatch(p, k, new)
             \/ EnqueueFails(k) \/ ApplyPatch(k) \/ CommitDelete(k) \/ Unlink(k)
      PROVE  UNCHANGED queueVars
  BY <1>7 DEF CreateReport, BeginDelete, BeginPatch, EnqueueFails, ApplyPatch, CommitDelete, Unlink
<1>8. ASSUME NEW k \in Keys,
             EnqueueFails(k) \/ ApplyPatch(k) \/ CommitDelete(k) \/ Unlink(k)
      PROVE  UNCHANGED queueVars
  BY <1>8 DEF EnqueueFails, ApplyPatch, CommitDelete, Unlink
<1>. QED
  BY <1>1, <1>2, <1>3, <1>4, <1>5, <1>6, <1>7, <1>8 DEF ReportNext

(* Reports, dataset exports and their requests use the queue only through   *)
(* its operations: every theorem about the queue holds of them.             *)
THEOREM ReportsUseQueue == ReportSpec => Spec
<1>1. ReportInit => Init
  BY DEF ReportInit
<1>. QED
  BY <1>1, ReportStepIsQueueStep, PTL DEF ReportSpec, Spec
-----------------------------------------------------------------------------
LEMMA ClaimType == TypeOK => \A p \in Procs : \A e \in active[p] :
                                e.key \in Keys /\ ClaimOf(e) \in Claims
  BY DEF TypeOK, Executions, Claims, ClaimOf

LEMMA SetReportType ==
    ASSUME ReportTypes, NEW k \in Keys, NEW s \in {"processing", "completed", "failed"},
           NEW b \in BOOLEAN, SetReport(k, s, b)
    PROVE  report' \in [Keys -> [status : {"none", "processing", "completed", "failed", "deleted"},
                                 stored : BOOLEAN]]
  BY DEF SetReport, ReportTypes

(* Every step keeps the variables of the reports well typed.               *)
LEMMA ReportTypesStep == ReportTypes /\ TypeOK /\ [ReportNext]_vars => ReportTypes'
<1>. SUFFICES ASSUME ReportTypes, TypeOK, [ReportNext]_vars PROVE ReportTypes'
  OBVIOUS
<1>1. CASE UNCHANGED vars
  BY <1>1 DEF vars, reportVars, ReportTypes
<1>2. ASSUME DropStages, UNCHANGED <<report, file, creating, patch, deletion>> PROVE ReportTypes'
  BY <1>2 DEF DropStages, ReportTypes
<1>3. ASSUME UNCHANGED reportVars PROVE ReportTypes'
  BY <1>3 DEF reportVars, ReportTypes
<1>4. ASSUME NEW p \in Procs, NEW k \in Keys, CreateReport(p, k) PROVE ReportTypes'
  BY <1>4 DEF CreateReport, ReportTypes
<1>5. ASSUME NEW p \in Procs, NEW k \in Keys, EnqueueReport(p, k) \/ BeginDelete(p, k)
      PROVE  ReportTypes'
  BY <1>5 DEF EnqueueReport, BeginDelete, ReportTypes
<1>6. ASSUME NEW p \in Procs, NEW k \in Keys, NEW new \in PatchTargets, BeginPatch(p, k, new)
      PROVE  ReportTypes'
  BY <1>6, PatchTargetsAssumption DEF BeginPatch, ReportTypes
<1>7. ASSUME NEW p \in Procs, NEW e \in active[p], Generate(p, e) PROVE ReportTypes'
  <2>. /\ e.key \in Keys /\ ClaimOf(e) \in Claims
       /\ report[e.key].stored \in BOOLEAN
    BY ClaimType DEF ReportTypes
  <2>1. CASE BeginGeneration(p, e)
    BY <2>1 DEF BeginGeneration, ReportTypes, Stages
  <2>2. CASE OpenFile(p, e)
    BY <2>2 DEF OpenFile, Advance, ReportTypes, Stages
  <2>3. CASE CloseFile(p, e)
    BY <2>3 DEF CloseFile, Advance, ReportTypes, Stages
  <2>4. CASE MarkCompleted(p, e)
    BY <2>4, SetReportType DEF MarkCompleted, Unstage, ReportTypes
  <2>5. CASE MarkFailed(p, e)
    BY <2>5, SetReportType DEF MarkFailed, Unstage, ReportTypes
  <2>. QED
    BY <1>7, <2>1, <2>2, <2>3, <2>4, <2>5 DEF Generate
<1>8. ASSUME NEW k \in Keys, EnqueueFails(k) \/ CommitDelete(k) \/ Unlink(k) PROVE ReportTypes'
  <2>1. CASE EnqueueFails(k)
    BY <2>1 DEF EnqueueFails, ReportTypes
  <2>2. CASE CommitDelete(k)
    <3>1. [status |-> "deleted", stored |-> FALSE]
            \in [status : {"none", "processing", "completed", "failed", "deleted"},
                stored : BOOLEAN]
      OBVIOUS
    <3>2. deletion' \in [Keys -> {"none", "stored", "unstored", "unlink", "done"}]
      BY <2>2 DEF CommitDelete, ReportTypes
    <3>. QED
      BY <2>2, <3>1, <3>2 DEF CommitDelete, ReportTypes
  <2>3. CASE Unlink(k)
    BY <2>3 DEF Unlink, ReportTypes
  <2>. QED
    BY <1>8, <2>1, <2>2, <2>3
<1>9. ASSUME NEW k \in Keys, ApplyPatch(k) PROVE ReportTypes'
  <2>. patch[k] \in {"processing", "completed", "failed"} /\ report[k].stored \in BOOLEAN
    BY <1>9 DEF ApplyPatch, ReportTypes
  <2>. QED
    BY <1>9, SetReportType DEF ApplyPatch, ReportTypes
<1>. QED
  BY <1>1, <1>2, <1>3, <1>4, <1>5, <1>6, <1>7, <1>8, <1>9 DEF ReportNext

LEMMA ReportTypesInvariance == ReportSpec => []ReportTypes
<1>1. ReportInit => ReportTypes
  BY DEF ReportInit, ReportTypes
<1>2. ReportSpec => []TypeOK
  BY ReportsUseQueue, TypeCorrect, PTL
<1>. QED
  BY <1>1, <1>2, ReportTypesStep, PTL DEF ReportSpec

(* The type invariant of reports, jobs, files and requests together.       *)
THEOREM ReportTypeCorrect == ReportSpec => []ReportTypeOK
<1>1. TypeOK /\ ReportTypes => ReportTypeOK
  BY DEF ReportTypes, ReportTypeOK
<1>. QED
  BY <1>1, ReportsUseQueue, TypeCorrect, ReportTypesInvariance, PTL
-----------------------------------------------------------------------------
(* A step of the queue's own, or a passing of time, brings nothing to a key *)
(* that no request has enqueued, and performs nothing.                      *)
LEMMA UnseenStep ==
    ASSUME TypeOK, NEW k \in Keys, Unseen(k), creating' = creating,
           \/ \E p \in Procs : QueueStep(p)
           \/ \E j \in Keys : TimePasses(j)
    PROVE  Unseen(k)'
<1>1. ASSUME NEW p \in Procs, Startup(p) PROVE Unseen(k)'
  BY <1>1 DEF Startup, Start, RecoverStale, Stale, PruneFinished, Finished, Released, Unseen
<1>2. ASSUME NEW p \in Procs, Dispatch(p) PROVE Unseen(k)'
  <2>1. CASE BeginTick(p) \/ FindNothing(p)
    BY <2>1 DEF BeginTick, FindNothing, Unseen
  <2>2. ASSUME NEW j \in Keys, ClaimNext(p, j) PROVE Unseen(k)'
    <3>1. j # k
      BY <2>2 DEF ClaimNext, Claimable, Unseen
    <3>2. row'[k] = row[k]
      BY <2>2, <3>1 DEF ClaimNext, Lock, TypeOK
    <3>3. \A q \in Procs : active'[q] \subseteq active[q] \cup {Claimed(j)}
      BY <2>2 DEF ClaimNext, Remember, TypeOK
    <3>4. Claimed(j).key = j
      BY DEF Claimed
    <3>. QED
      BY <3>1, <3>2, <3>3, <3>4 DEF Unseen
  <2>. QED
    BY <1>2, <2>1, <2>2 DEF Dispatch
<1>3. ASSUME NEW p \in Procs, Leaving(p) PROVE Unseen(k)'
  <2>1. \A q \in Procs : active'[q] \subseteq active[q]
    BY <1>3 DEF Leaving, Shutdown, StopAccepting, Exit, GraceExpires, Crash, Vanish, TypeOK
  <2>2. row' = row
    BY <1>3 DEF Leaving, Shutdown, StopAccepting, Exit, GraceExpires, Crash
  <2>. QED
    BY <2>1, <2>2 DEF Unseen
<1>4. ASSUME NEW p \in Procs, NEW e \in active[p], Settling(p, e) PROVE Unseen(k)'
  <2>1. e.key # k
    BY DEF Unseen
  <2>2. row'[k] = row[k]
    BY <1>4, <2>1 DEF Settling, Complete, CompleteErrors, Fail, FailErrors, UpdateRow, TypeOK
  <2>3. After(e, "threw").key = e.key
    BY DEF TypeOK, Executions, After
  <2>4. \A q \in Procs : active'[q] \subseteq active[q] \cup {After(e, "threw")}
    BY <1>4 DEF Settling, Complete, CompleteErrors, Fail, FailErrors, Settle, Forget, TypeOK
  <2>. QED
    BY <2>1, <2>2, <2>3, <2>4 DEF Unseen
<1>5. ASSUME NEW j \in Keys, TimePasses(j) PROVE Unseen(k)'
  BY <1>5 DEF TimePasses, Unseen, TypeOK
<1>. QED
  BY <1>1, <1>2, <1>3, <1>4, <1>5 DEF QueueStep

LEMMA QueueStepPerformsNothing ==
    ASSUME NEW p \in Procs, QueueStep(p)
    PROVE  done' = done
  BY DEF QueueStep, Startup, Start, RecoverStale, PruneFinished, Dispatch, BeginTick,
         FindNothing, ClaimNext, Leaving, Shutdown, StopAccepting, Exit, GraceExpires, Crash,
         Settling, Complete, CompleteErrors, Fail, FailErrors

(* Inserting the jobs of reports that exist changes no other row.          *)
LEMMA UnseenInsert ==
    ASSUME TypeOK, NEW k \in Keys, Unseen(k), NEW S \in SUBSET Keys, k \notin S,
           InsertIfAbsent(S), active' = active, creating' \subseteq creating
    PROVE  Unseen(k)'
  BY DEF InsertIfAbsent, Unseen

(* An UPDATE of a report's row neither creates nor removes rows, and does   *)
(* not touch other rows.                                                    *)
LEMMA SetReportEffect ==
    ASSUME ReportTypes, NEW k \in Keys, NEW s \in {"processing", "completed", "failed"},
           NEW b \in BOOLEAN, SetReport(k, s, b)
    PROVE  \A j \in Keys :
             /\ report'[j].status = "none" <=> report[j].status = "none"
             /\ report'[j].status = "deleted" <=> report[j].status = "deleted"
             /\ j # k => report'[j] = report[j]
             /\ j = k /\ report'[k].status # "none" =>
                  report'[k].status = "deleted" \/ report'[k].stored = b
             /\ b = report[k].stored \/ b = TRUE =>
                  (report[j].stored = TRUE => report'[j].stored = TRUE)
             /\ b = report[k].stored => report'[j].stored = report[j].stored
  BY DEF SetReport, ReportTypes, Exists

(* A failed generation keeps what the report refers to.                     *)
LEMMA SetFailedEffect ==
    ASSUME ReportTypes, NEW k \in Keys, SetReport(k, "failed", report[k].stored)
    PROVE  \A j \in Keys :
             /\ report'[j].status = "none" <=> report[j].status = "none"
             /\ report'[j].status = "deleted" <=> report[j].status = "deleted"
             /\ report'[j].stored = report[j].stored
             /\ j # k => report'[j] = report[j]
  BY DEF SetReport, ReportTypes, Exists
-----------------------------------------------------------------------------
ReportInv == TypeOK /\ ReportTypes /\ ReportSafe

(* Steps of the queue that leave the reports alone.                        *)
LEMMA QueueSideStep ==
    ASSUME ReportInv, UNCHANGED <<report, file, creating, patch, deletion>>,
           stage' \subseteq stage, done' = done,
           \A k \in Keys : report[k].status = "none" => Unseen(k)'
    PROVE  ReportSafe'
<1>1. NothingBeforeCreation'
  BY DEF NothingBeforeCreation, ReportInv, ReportSafe
<1>2. PerformedStored' /\ UnlinkedAfterDelete' /\ FileKept'
  BY DEF PerformedStored, UnlinkedAfterDelete, FileKept, ReportInv, ReportSafe
<1>. QED
  BY <1>1, <1>2 DEF ReportSafe

(* Steps of a request or a generation that leave the queue alone.          *)
LEMMA RequestStep ==
    ASSUME ReportInv, [ReportNext]_vars,
           NEW k \in Keys,
           \/ \E p \in Procs : CreateReport(p, k) \/ BeginDelete(p, k)
           \/ \E p \in Procs, new \in PatchTargets : BeginPatch(p, k, new)
           \/ EnqueueFails(k) \/ CommitDelete(k) \/ Unlink(k) \/ ApplyPatch(k)
    PROVE  ReportSafe'
<1>. USE DEF ReportInv, ReportSafe
<1>1. ASSUME NEW p \in Procs, CreateReport(p, k) PROVE ReportSafe'
  <2>1. /\ report' = [report EXCEPT ![k].status = "processing"]
        /\ report[k].status = "none" /\ creating' = creating \cup {k}
        /\ UNCHANGED <<row, active, done, file, stage, deletion>>
    BY <1>1 DEF CreateReport, queueVars
  <2>2. \A j \in Keys : /\ j # k => report'[j] = report[j]
                        /\ report'[k].status = "processing"
                        /\ report'[k].stored = report[k].stored
    BY <2>1 DEF ReportTypes
  <2>3. NothingBeforeCreation'
    BY <2>1, <2>2 DEF NothingBeforeCreation, Unseen
  <2>4. PerformedStored'
    BY <2>1, <2>2 DEF PerformedStored, TypeOK
  <2>5. UnlinkedAfterDelete'
    BY <2>1, <2>2 DEF UnlinkedAfterDelete
  <2>6. FileKept'
    BY <2>1, <2>2 DEF FileKept
  <2>. QED
    BY <2>3, <2>4, <2>5, <2>6
<1>2. ASSUME NEW p \in Procs, BeginDelete(p, k) PROVE ReportSafe'
  <2>1. /\ report[k].status # "none" /\ UNCHANGED <<row, active, done, report, file, creating, stage>>
        /\ \A j \in Keys : deletion'[j] = deletion[j] \/ (j = k /\ deletion'[j] \in {"stored", "unstored"})
    BY <1>2 DEF BeginDelete, queueVars, Exists, ReportTypes
  <2>2. NothingBeforeCreation'
    BY <2>1 DEF NothingBeforeCreation, Unseen
  <2>3. UnlinkedAfterDelete'
    BY <2>1 DEF UnlinkedAfterDelete
  <2>. QED
    BY <2>1, <2>2, <2>3 DEF PerformedStored, FileKept
<1>3. ASSUME NEW p \in Procs, NEW new \in PatchTargets, BeginPatch(p, k, new) PROVE ReportSafe'
  BY <1>3 DEF BeginPatch, queueVars, NothingBeforeCreation, Unseen, PerformedStored,
              UnlinkedAfterDelete, FileKept
<1>4. ASSUME EnqueueFails(k) PROVE ReportSafe'
  BY <1>4 DEF EnqueueFails, queueVars, NothingBeforeCreation, Unseen, PerformedStored,
              UnlinkedAfterDelete, FileKept
<1>5. ASSUME CommitDelete(k) PROVE ReportSafe'
  <2>1. /\ UNCHANGED <<row, active, done, file, creating, stage>>
        /\ report' = [report EXCEPT ![k] = [status |-> "deleted", stored |-> FALSE]]
        /\ deletion[k] # "none"
        /\ \A j \in Keys : j # k => deletion'[j] = deletion[j]
    BY <1>5 DEF CommitDelete, queueVars, ReportTypes
  <2>2. \A j \in Keys : j # k => report'[j] = report[j]
    BY <2>1 DEF ReportTypes
  <2>3. report'[k].status = "deleted"
    BY <2>1 DEF ReportTypes
  <2>4. NothingBeforeCreation'
    BY <2>1, <2>2, <2>3 DEF NothingBeforeCreation, Unseen
  <2>5. PerformedStored'
    BY <2>1, <2>2, <2>3 DEF PerformedStored, TypeOK
  <2>6. UnlinkedAfterDelete'
    BY <2>1, <2>2, <2>3 DEF UnlinkedAfterDelete
  <2>7. FileKept'
    BY <2>1, <2>2, <2>3 DEF FileKept
  <2>. QED
    BY <2>4, <2>5, <2>6, <2>7
<1>6. ASSUME Unlink(k) PROVE ReportSafe'
  <2>1. /\ UNCHANGED <<row, active, done, report, creating, stage>>
        /\ report[k].status = "deleted"
        /\ \A j \in Keys : j # k => file'[j] = file[j] /\ deletion'[j] = deletion[j]
    BY <1>6 DEF Unlink, queueVars, UnlinkedAfterDelete, ReportTypes
  <2>2. NothingBeforeCreation'
    BY <2>1 DEF NothingBeforeCreation, Unseen
  <2>3. UnlinkedAfterDelete' /\ FileKept'
    BY <2>1 DEF UnlinkedAfterDelete, FileKept
  <2>. QED
    BY <2>1, <2>2, <2>3 DEF PerformedStored
<1>7. ASSUME ApplyPatch(k) PROVE ReportSafe'
  <2>1. /\ UNCHANGED <<row, active, done, file, creating, stage, deletion>>
        /\ patch[k] \in {"processing", "completed", "failed"}
        /\ report[k].stored \in BOOLEAN
        /\ SetReport(k, patch[k], report[k].stored)
    BY <1>7 DEF ApplyPatch, queueVars, ReportTypes
  <2>2. \A j \in Keys : /\ report'[j].status = "none" <=> report[j].status = "none"
                        /\ report'[j].status = "deleted" <=> report[j].status = "deleted"
                        /\ report'[j].stored = report[j].stored
    <3>. HIDE DEF ReportTypes
    <3>. QED
      BY <2>1, SetReportEffect
  <2>3. NothingBeforeCreation'
    BY <2>1, <2>2 DEF NothingBeforeCreation, Unseen
  <2>4. PerformedStored'
    BY <2>1, <2>2 DEF PerformedStored, TypeOK
  <2>5. UnlinkedAfterDelete' /\ FileKept'
    BY <2>1, <2>2 DEF UnlinkedAfterDelete, FileKept
  <2>. QED
    BY <2>3, <2>4, <2>5
<1>. QED
  BY <1>1, <1>2, <1>3, <1>4, <1>5, <1>6, <1>7

(* Steps of a generation: it stores the file reference only once the file  *)
(* was opened, and performs the job only together with storing it.         *)
LEMMA GenerationStep ==
    ASSUME ReportInv, NEW p \in Procs, NEW e \in active[p], Generate(p, e)
    PROVE  ReportSafe'
<1>. USE DEF ReportInv, ReportSafe
<1>. DEFINE k == e.key
<1>0. /\ k \in Keys /\ ClaimOf(e) \in Claims /\ ClaimOf(e)[1] = k
      /\ report[k].status # "none"
  BY ClaimType DEF ClaimOf, NothingBeforeCreation, Unseen
<1>1. CASE BeginGeneration(p, e)
  <2>1. /\ UNCHANGED <<row, active, done, report, file, creating, deletion>>
        /\ stage' = stage \cup {<<ClaimOf(e), "read">>}
    BY <1>1 DEF BeginGeneration, queueVars
  <2>2. FileKept'
    BY <2>1 DEF FileKept
  <2>. QED
    BY <2>1, <2>2 DEF NothingBeforeCreation, Unseen, PerformedStored, UnlinkedAfterDelete
<1>2. CASE OpenFile(p, e)
  <2>1. /\ UNCHANGED <<row, active, done, report, creating, deletion>>
        /\ file' = [file EXCEPT ![k] = "partial"]
        /\ stage' \subseteq stage \cup {<<ClaimOf(e), "open">>}
    BY <1>2 DEF OpenFile, Advance, queueVars
  <2>2. FileKept'
    BY <1>0, <2>1 DEF FileKept, ReportTypes
  <2>. QED
    BY <2>1, <2>2 DEF NothingBeforeCreation, Unseen, PerformedStored, UnlinkedAfterDelete
<1>3. CASE CloseFile(p, e)
  <2>1. /\ UNCHANGED <<row, active, done, report, creating, deletion>>
        /\ \A j \in Keys : file[j] # "none" => file'[j] # "none"
        /\ <<ClaimOf(e), "open">> \in stage
        /\ stage' \subseteq stage \cup {<<ClaimOf(e), "written">>}
    BY <1>3 DEF CloseFile, Advance, At, queueVars, ReportTypes
  <2>2. FileKept'
    BY <1>0, <2>1 DEF FileKept
  <2>. QED
    BY <2>1, <2>2 DEF NothingBeforeCreation, Unseen, PerformedStored, UnlinkedAfterDelete
<1>4. CASE MarkCompleted(p, e) \/ MarkFailed(p, e)
  <2>1. /\ UNCHANGED <<row, file, creating, deletion>> /\ stage' \subseteq stage
    BY <1>4 DEF MarkCompleted, MarkFailed, Unstage, TaskReturns, TaskThrows
  <2>2. \A q \in Procs : \A f \in active'[q] : f \in active[q] \/ f.key = k
    <3>1. /\ After(e, "ok").key = k
          /\ After(e, "threw").key = k
      BY DEF After, TypeOK, Executions
    <3>2. \A q \in Procs :
            active'[q] \subseteq active[q] \cup {After(e, "ok"), After(e, "threw")}
      <4>1. Settle(p, e, "ok") \/ Settle(p, e, "threw")
        BY <1>4 DEF MarkCompleted, MarkFailed, TaskReturns, TaskThrows
      <4>. QED
        BY <4>1 DEF Settle, TypeOK
    <3>. QED
      BY <3>1, <3>2
  <2>3. \/ /\ report' = report
           /\ done' = done
        \/ /\ SetReport(k, "failed", report[k].stored)
           /\ done' = done
        \/ /\ SetReport(k, "completed", TRUE)
           /\ At(e, "written")
           /\ done' \subseteq done \cup {<<k, e.id>>}
    BY <1>4 DEF MarkCompleted, MarkFailed, TaskReturns, TaskThrows
  <2>4. \A j \in Keys : /\ report'[j].status = "none" <=> report[j].status = "none"
                        /\ report'[j].status = "deleted" <=> report[j].status = "deleted"
                        /\ report[j].stored = TRUE => report'[j].stored = TRUE
                        /\ j # k => report'[j] = report[j]
    <3>. report[k].stored \in BOOLEAN
      BY <1>0 DEF ReportTypes
    <3>1. CASE report' = report
      BY <3>1
    <3>2. CASE SetReport(k, "failed", report[k].stored)
      BY <1>0, <3>2, SetFailedEffect
    <3>3. CASE SetReport(k, "completed", TRUE)
      BY <1>0, <3>3, SetReportEffect
    <3>. QED
      BY <2>3, <3>1, <3>2, <3>3
  <2>5. NothingBeforeCreation'
    BY <1>0, <2>1, <2>2, <2>4 DEF NothingBeforeCreation, Unseen
  <2>6. PerformedStored'
    <3>1. SetReport(k, "completed", TRUE) => report'[k].stored \/ report'[k].status = "deleted"
      BY <1>0, SetReportEffect DEF Exists, ReportTypes
    <3>2. \A d \in done : d[1] \in Keys
      BY DEF TypeOK
    <3>3. ASSUME NEW d \in done'
          PROVE  /\ report'[d[1]].status # "none"
                 /\ report'[d[1]].stored \/ report'[d[1]].status = "deleted"
      <4>1. CASE d \in done
        <5>1. d[1] \in Keys
          BY <3>2, <4>1
        <5>2. /\ report[d[1]].status # "none"
              /\ report[d[1]].stored \/ report[d[1]].status = "deleted"
          BY <4>1 DEF PerformedStored
        <5>3. report[d[1]].stored \in BOOLEAN
          BY <5>1 DEF ReportTypes
        <5>. QED
          BY <2>4, <5>1, <5>2, <5>3
      <4>2. CASE d \notin done
        <5>0. d = <<k, e.id>> /\ SetReport(k, "completed", TRUE)
          BY <2>3, <3>3, <4>2, Zenon
        <5>1. d[1] = k /\ SetReport(k, "completed", TRUE)
          BY <5>0
        <5>. QED
          BY <1>0, <2>4, <3>1, <5>1
      <4>. QED
        BY <4>1, <4>2
    <3>. QED
      BY <3>3 DEF PerformedStored
  <2>7. UnlinkedAfterDelete'
    BY <2>1, <2>4 DEF UnlinkedAfterDelete
  <2>8. FileKept'
    <3>1. \A j \in Keys : report'[j].stored /\ report'[j].status # "deleted" => file[j] # "none"
      <4>1. CASE report' = report \/ SetReport(k, "failed", report[k].stored)
        <5>. report[k].stored \in BOOLEAN
          BY <1>0 DEF ReportTypes
        <5>1. CASE report' = report
          BY <5>1 DEF FileKept
        <5>2. CASE SetReport(k, "failed", report[k].stored)
          <6>1. \A j \in Keys : /\ report'[j].stored = report[j].stored
                                /\ report'[j].status = "deleted" <=> report[j].status = "deleted"
            BY <1>0, <5>2, SetFailedEffect
          <6>. QED
            BY <6>1 DEF FileKept
        <5>. QED
          BY <4>1, <5>1, <5>2
      <4>2. CASE At(e, "written")
        BY <1>0, <2>4, <4>2 DEF FileKept, At
      <4>. QED
        BY <2>3, <4>1, <4>2
    <3>. QED
      BY <2>1, <2>4, <3>1 DEF FileKept
  <2>. QED
    BY <2>5, <2>6, <2>7, <2>8
<1>. QED
  BY <1>1, <1>2, <1>3, <1>4 DEF Generate

LEMMA ReportSafeStep == ReportInv /\ [ReportNext]_vars => ReportSafe'
<1>. SUFFICES ASSUME ReportInv, [ReportNext]_vars PROVE ReportSafe'
  OBVIOUS
<1>0. \A k \in Keys : report[k].status = "none" => Unseen(k)
  BY DEF ReportInv, ReportSafe, NothingBeforeCreation
<1>1. CASE UNCHANGED vars
  BY <1>1 DEF vars, queueVars, reportVars, ReportInv, ReportSafe, NothingBeforeCreation,
              Unseen, PerformedStored, UnlinkedAfterDelete, FileKept
<1>2. ASSUME NEW p \in Procs, QueueStep(p), DropStages,
             UNCHANGED <<report, file, creating, patch, deletion>>
      PROVE  ReportSafe'
  <2>1. \A k \in Keys : report[k].status = "none" => Unseen(k)'
    BY <1>0, <1>2, UnseenStep DEF ReportInv
  <2>2. stage' \subseteq stage
    BY <1>2 DEF DropStages
  <2>. QED
    BY <1>2, <2>1, <2>2, QueueSideStep, QueueStepPerformsNothing
<1>3. ASSUME NEW p \in Procs, Backfill(p, Waiting), UNCHANGED reportVars PROVE ReportSafe'
  <2>1. \A k \in Keys : report[k].status = "none" => k \notin Waiting
    BY DEF Waiting
  <2>2. Waiting \in SUBSET Keys
    BY DEF Waiting
  <2>3. \A k \in Keys : report[k].status = "none" => Unseen(k)'
    BY <1>0, <1>3, <2>1, <2>2, UnseenInsert DEF Backfill, reportVars, ReportInv
  <2>. QED
    BY <1>3, <2>3, QueueSideStep DEF Backfill, reportVars
<1>4. ASSUME NEW p \in Procs, NEW j \in Keys, EnqueueReport(p, j) PROVE ReportSafe'
  <2>1. \A k \in Keys : report[k].status = "none" => k \notin {j}
    BY <1>0, <1>4 DEF EnqueueReport, Unseen
  <2>2. \A k \in Keys : report[k].status = "none" => Unseen(k)'
    BY <1>0, <1>4, <2>1, UnseenInsert DEF EnqueueReport, Enqueue, ReportInv
  <2>3. UNCHANGED <<report, file, stage, deletion, done>>
    BY <1>4 DEF EnqueueReport, Enqueue
  <2>. QED
    BY <2>2, <2>3 DEF ReportInv, ReportSafe, NothingBeforeCreation, PerformedStored,
                      UnlinkedAfterDelete, FileKept
<1>5. ASSUME NEW j \in Keys, TimePasses(j), UNCHANGED reportVars PROVE ReportSafe'
  <2>1. \A k \in Keys : report[k].status = "none" => Unseen(k)'
    BY <1>0, <1>5, UnseenStep DEF ReportInv, reportVars
  <2>. QED
    BY <1>5, <2>1, QueueSideStep DEF TimePasses, reportVars
<1>6. ASSUME NEW p \in Procs, NEW e \in active[p], Generate(p, e) PROVE ReportSafe'
  BY <1>6, GenerationStep
<1>7. ASSUME NEW k \in Keys,
             \/ \E p \in Procs : CreateReport(p, k) \/ BeginDelete(p, k)
             \/ \E p \in Procs, new \in PatchTargets : BeginPatch(p, k, new)
             \/ EnqueueFails(k) \/ CommitDelete(k) \/ Unlink(k) \/ ApplyPatch(k)
      PROVE  ReportSafe'
  BY <1>7, RequestStep
<1>. QED
  BY <1>1, <1>2, <1>3, <1>4, <1>5, <1>6, <1>7 DEF ReportNext

LEMMA ReportInvariance == ReportSpec => []ReportInv
<1>1. ReportInit => ReportSafe
  BY DEF ReportInit, Init, ReportSafe, NothingBeforeCreation, Unseen, PerformedStored,
         UnlinkedAfterDelete, FileKept
<1>2. ReportSpec => [](TypeOK /\ ReportTypes)
  BY ReportsUseQueue, TypeCorrect, ReportTypesInvariance, PTL
<1>3. ReportSafe /\ (TypeOK /\ ReportTypes) /\ [ReportNext]_vars => ReportSafe'
  BY ReportSafeStep DEF ReportInv
<1>4. ReportSafe /\ (TypeOK /\ ReportTypes) => ReportInv
  BY DEF ReportInv
<1>. QED
  BY <1>1, <1>2, <1>3, <1>4, PTL DEF ReportSpec

(* A completed job has left its report with a file reference, unless the    *)
(* report was deleted.                                                      *)
THEOREM CompletedStored == ReportSpec => []CompletedJobStoredReport
<1>1. ReportInv /\ CompletedIsPerformed => CompletedJobStoredReport
  BY DEF ReportInv, ReportSafe, PerformedStored, CompletedIsPerformed,
         CompletedJobStoredReport, Exists
<1>. QED
  BY <1>1, ReportsUseQueue, CompletedPerformed, ReportInvariance, PTL

(* A report offered for download has a file.                               *)
THEOREM DownloadHasFile == ReportSpec => []ReadyHasFile
<1>1. ReportInv => ReadyHasFile
  BY DEF ReportInv, ReportSafe, FileKept, ReadyHasFile, Ready
<1>. QED
  BY <1>1, ReportInvariance, PTL

-----------------------------------------------------------------------------
(* Audit packs: their generation. What holds of a pack of which no two attempts   *)
(* have overlapped: one attempt is at work on it at most, only while it is not     *)
(* completed; what it has written is what it built; and the pack, once completed,   *)
(* is the file that its digest and its report's say.                             *)
Contents == Names \cup {Nothing}

PackTypes ==
    /\ name \in Names
    /\ packs \in [Versions -> [status : {"none", "processing", "completed", "failed"},
                               digest : Contents, covered : BOOLEAN]]
    /\ reports \in [Versions -> Contents] /\ files \in [Versions -> Contents]
    /\ drafts \in [Versions -> Contents]
    /\ workers \in [Workers -> [step : {"idle", "build", "verify", "rename", "record"},
                                pack : Versions \cup {0}, content : Contents]]

AtWorkOn(w, v) == workers[w].step # "idle" /\ workers[w].pack = v

Recorded(v) ==
    /\ \A w, x \in Workers : AtWorkOn(w, v) /\ AtWorkOn(x, v) => w = x
    /\ \A w \in Workers : AtWorkOn(w, v) =>
        /\ packs[v].status # "completed"
        /\ workers[w].step = "rename" => drafts[v] = workers[w].content
        /\ workers[w].step = "record" => files[v] = workers[w].content
    /\ packs[v].status = "completed" => files[v] = packs[v].digest /\ reports[v] = packs[v].digest

PackInv == PackTypes /\ \A v \in Versions : v \in overlapped \/ Recorded(v)

AttemptStep(w) ==
    \/ \E v \in Versions : StartAttempt(w, v)
    \/ WriteDraft(w) \/ VerifyDraft(w) \/ RenameDraft(w) \/ RecordPack(w) \/ FailAttempt(w)

LEMMA PackInit ==
    ASSUME AuditInit
    PROVE  PackInv
  <1>1. PackTypes
    <2>1. PICK past \in {"none", "completed", "issued"} :
            packs = [v \in Versions |-> IF v = 1 /\ past # "none" THEN Completed(name) ELSE NoPack]
      BY DEF AuditInit
    <2>2. packs \in [Versions -> [status : {"none", "processing", "completed", "failed"},
                                  digest : Contents, covered : BOOLEAN]]
      BY <2>1 DEF AuditInit, Contents, Completed, NoPack
    <2> QED
      BY <2>2 DEF AuditInit, PackTypes, Contents, Rest
  <1>2. ASSUME NEW v \in Versions PROVE Recorded(v)
    BY DEF AuditInit, Recorded, AtWorkOn, Rest
  <1> QED
    BY <1>1, <1>2 DEF PackInv

LEMMA AttemptTypes ==
    ASSUME PackTypes, NEW w \in Workers, AttemptStep(w)
    PROVE  PackTypes'
  <1>0. workers[w].content \in Contents /\ name \in Contents
    BY DEF PackTypes, Contents
  <1>1. ASSUME NEW v \in Versions, StartAttempt(w, v) PROVE PackTypes'
    BY <1>0, <1>1 DEF StartAttempt, Attempt, PackTypes
  <1>2. CASE WriteDraft(w)
    BY <1>0, <1>2 DEF WriteDraft, StepTo, PackTypes
  <1>3. CASE VerifyDraft(w)
    BY <1>3 DEF VerifyDraft, StepTo, PackTypes
  <1>4. CASE RenameDraft(w)
    BY <1>4 DEF RenameDraft, StepTo, PackTypes, Contents
  <1>5. CASE RecordPack(w)
    <2>1. packs' \in [Versions -> [status : {"none", "processing", "completed", "failed"},
                                   digest : Contents, covered : BOOLEAN]]
      <3>1. packs' = packs \/ packs' = [packs EXCEPT ![workers[w].pack].status = "completed",
                                               ![workers[w].pack].digest = workers[w].content]
        BY <1>5 DEF RecordPack
      <3>2. packs \in [Versions -> [status : {"none", "processing", "completed", "failed"},
                                    digest : Contents, covered : BOOLEAN]]
        BY DEF PackTypes
      <3> QED
        BY ONLY <1>0, <3>1, <3>2
    <2>2. reports' \in [Versions -> Contents]
      BY <1>0, <1>5 DEF RecordPack, PackTypes
    <2>3. workers' \in [Workers -> [step : {"idle", "build", "verify", "rename", "record"},
                                    pack : Versions \cup {0}, content : Contents]]
      BY <1>5 DEF RecordPack, PackTypes, Contents, Rest
    <2> QED
      BY <1>5, <2>1, <2>2, <2>3 DEF RecordPack, PackTypes
  <1>6. CASE FailAttempt(w)
    <2>1. /\ UNCHANGED <<name, reports, files>> /\ workers' = [workers EXCEPT ![w] = Rest]
          /\ packs' = packs \/ packs' = [packs EXCEPT ![workers[w].pack].status = "failed"]
          /\ drafts' = drafts \/ drafts' = [drafts EXCEPT ![workers[w].pack] = Nothing]
      BY <1>6 DEF FailAttempt
    <2>2. packs' \in [Versions -> [status : {"none", "processing", "completed", "failed"},
                                   digest : Contents, covered : BOOLEAN]]
      BY <2>1 DEF PackTypes
    <2>3. drafts' \in [Versions -> Contents]
      BY <2>1 DEF PackTypes, Contents
    <2>4. workers' \in [Workers -> [step : {"idle", "build", "verify", "rename", "record"},
                                    pack : Versions \cup {0}, content : Contents]]
      BY <2>1 DEF PackTypes, Contents, Rest
    <2> QED
      BY <2>1, <2>2, <2>3, <2>4 DEF PackTypes
  <1> QED
    BY <1>1, <1>2, <1>3, <1>4, <1>5, <1>6 DEF AttemptStep

LEMMA AttemptRecorded ==
    ASSUME PackTypes, NEW w \in Workers, AttemptStep(w), NEW v \in Versions,
           v \notin overlapped', Recorded(v), PackTypes'
    PROVE  Recorded(v)'
  <1>1. ASSUME NEW u \in Versions, StartAttempt(w, u) PROVE Recorded(v)'
    <2>0. /\ workers[w] = Rest /\ u \in Created
          /\ UNCHANGED <<packs, files, drafts, reports>>
          /\ overlapped' = IF \E x \in Workers : workers[x].pack = u
                           THEN overlapped \cup {u} ELSE overlapped
      BY <1>1 DEF StartAttempt, Attempt
    <2>1. CASE packs[u].status = "completed"
      <3>1. workers' = workers
        BY <1>1, <2>1 DEF StartAttempt, Attempt
      <3> QED
        BY <2>0, <3>1 DEF Recorded, AtWorkOn
    <2>2. CASE packs[u].status # "completed"
      <3>1. workers' = [workers EXCEPT ![w] = [step |-> "build", pack |-> u, content |-> name]]
        BY <1>1, <2>2 DEF StartAttempt, Attempt
      <3>2. \A x \in Workers : x # w => workers'[x] = workers[x]
        BY <3>1 DEF PackTypes
      <3>3. workers'[w] = [step |-> "build", pack |-> u, content |-> name]
        BY <3>1 DEF PackTypes
      <3>4. CASE v = u
        <4>1. \A x \in Workers : ~AtWorkOn(x, v)
          BY <2>0, <3>4 DEF AtWorkOn
        <4> QED
          BY <2>0, <2>2, <3>2, <3>3, <3>4, <4>1 DEF Recorded, AtWorkOn
      <3>5. CASE v # u
        <4>1. \A x \in Workers : AtWorkOn(x, v)' => x # w /\ AtWorkOn(x, v)
          BY <3>2, <3>3, <3>5 DEF AtWorkOn
        <4> QED
          BY <2>0, <3>2, <4>1 DEF Recorded
      <3> QED
        BY <3>4, <3>5
    <2> QED
      BY <2>1, <2>2
  <1>2. CASE WriteDraft(w) \/ VerifyDraft(w) \/ RenameDraft(w) \/ RecordPack(w) \/ FailAttempt(w)
    <2> DEFINE u == workers[w].pack
    <2>1. workers[w].step # "idle"
      BY <1>2 DEF WriteDraft, VerifyDraft, RenameDraft, RecordPack, FailAttempt
    <2>2. \A x \in Workers : x # w => workers'[x] = workers[x]
      BY <1>2 DEF WriteDraft, VerifyDraft, RenameDraft, RecordPack, FailAttempt, StepTo, PackTypes
    <2>3. workers'[w] = Rest \/ (workers'[w].pack = u /\ workers'[w].content = workers[w].content)
      BY <1>2 DEF WriteDraft, VerifyDraft, RenameDraft, RecordPack, FailAttempt, StepTo, PackTypes
    <2>4. \A x \in Workers : AtWorkOn(x, v)' => AtWorkOn(x, v)
      BY <2>1, <2>2, <2>3 DEF AtWorkOn, Rest
    <2>5. CASE v # u
      <3>1. packs'[v] = packs[v] /\ files'[v] = files[v] /\ drafts'[v] = drafts[v]
            /\ reports'[v] = reports[v]
        BY <1>2, <2>5 DEF WriteDraft, VerifyDraft, RenameDraft, RecordPack, FailAttempt, PackTypes
      <3>2. \A x \in Workers : AtWorkOn(x, v)' => x # w
        BY <2>3, <2>5 DEF AtWorkOn, Rest
      <3> QED
        BY <2>2, <2>4, <3>1, <3>2 DEF Recorded
    <2>6. CASE v = u
      <3>0. AtWorkOn(w, v) /\ packs[v].status # "completed"
        BY <2>1, <2>6 DEF AtWorkOn, Recorded
      <3>1. \A x \in Workers : AtWorkOn(x, v)' => x = w
        BY <2>4, <3>0 DEF Recorded
      <3>2. CASE WriteDraft(w)
        <4>1. workers'[w].step = "verify" /\ packs' = packs
          BY <3>2 DEF WriteDraft, StepTo, PackTypes
        <4> QED
          BY <3>0, <3>1, <4>1 DEF Recorded
      <3>3. CASE VerifyDraft(w)
        <4>1. /\ workers'[w].step = "rename" /\ packs' = packs /\ drafts' = drafts
              /\ drafts[v] = workers[w].content /\ workers'[w].content = workers[w].content
          BY <2>6, <3>3 DEF VerifyDraft, StepTo, PackTypes
        <4> QED
          BY <3>0, <3>1, <4>1 DEF Recorded
      <3>4. CASE RenameDraft(w)
        <4>1. /\ workers'[w].step = "record" /\ packs' = packs
              /\ files'[v] = drafts[v] /\ workers'[w].content = workers[w].content
          BY <2>6, <3>4 DEF RenameDraft, StepTo, PackTypes
        <4>2. drafts[v] = workers[w].content
          BY <3>0, <3>4 DEF Recorded, RenameDraft
        <4> QED
          BY <3>0, <3>1, <4>1, <4>2 DEF Recorded
      <3>5. CASE RecordPack(w)
        <4>1. /\ workers'[w] = Rest /\ files' = files
              /\ packs'[v].digest = workers[w].content /\ reports'[v] = workers[w].content
          BY <2>6, <3>0, <3>5 DEF RecordPack, PackTypes
        <4>2. files[v] = workers[w].content
          BY <3>0, <3>5 DEF Recorded, RecordPack
        <4>3. \A x \in Workers : ~AtWorkOn(x, v)'
          BY <3>1, <4>1 DEF AtWorkOn, Rest
        <4> QED
          BY <4>1, <4>2, <4>3 DEF Recorded
      <3>6. CASE FailAttempt(w)
        <4>1. workers'[w] = Rest /\ packs'[v].status = "failed"
          BY <2>6, <3>0, <3>6 DEF FailAttempt, PackTypes
        <4>2. \A x \in Workers : ~AtWorkOn(x, v)'
          BY <3>1, <4>1 DEF AtWorkOn, Rest
        <4> QED
          BY <4>1, <4>2 DEF Recorded
      <3> QED
        BY <1>2, <3>2, <3>3, <3>4, <3>5, <3>6
    <2> QED
      BY <2>5, <2>6
  <1> QED
    BY <1>1, <1>2 DEF AttemptStep

LEMMA GenerationOrNot ==
    ASSUME [AuditNext]_auditVars
    PROVE  \/ createAuditBundle \/ Rename \/ Stop \/ \E w \in Workers : AttemptStep(w)
           \/ UNCHANGED generation
  BY DEF AuditNext, AttemptStep, Begin, Read, readForReview, reviewAuditBundle, readForIssue,
         issueAuditBundle, readForShare, createAuditBundleShare, readForAssurance,
         createAuditBundleAssuranceRecord, _findPublicAuditBundleShare,
         downloadPublicAuditBundleShare, revokeAuditBundleShare, Expire, auditVars

LEMMA PackStep ==
    ASSUME PackInv, [AuditNext]_auditVars
    PROVE  PackInv'
  <1>1. CASE createAuditBundle
    <2>1. PICK u \in Versions, covered \in BOOLEAN : packs' = [packs EXCEPT ![u] =
                [status |-> "processing", digest |-> Nothing, covered |-> covered]]
      BY <1>1 DEF createAuditBundle
    <2>2. UNCHANGED <<name, reports, files, drafts, workers, overlapped>>
      BY <1>1 DEF createAuditBundle
    <2>3. PackTypes'
      BY <2>1, <2>2 DEF PackInv, PackTypes, Contents
    <2>4. ASSUME NEW v \in Versions, Recorded(v) PROVE Recorded(v)'
      BY <2>1, <2>2, <2>4 DEF PackInv, PackTypes, Recorded, AtWorkOn
    <2> QED
      BY <2>2, <2>3, <2>4 DEF PackInv
  <1>2. CASE Rename
    BY <1>2 DEF Rename, PackInv, PackTypes, Recorded, AtWorkOn
  <1>3. CASE Stop
    <2>1. /\ UNCHANGED <<name, packs, reports, files, drafts, overlapped>>
          /\ workers' = [w \in Workers |-> Rest]
      BY <1>3 DEF Stop
    <2>2. PackTypes'
      BY <2>1 DEF PackInv, PackTypes, Rest, Contents
    <2>3. \A w \in Workers, v \in Versions : ~AtWorkOn(w, v)'
      BY <2>1 DEF AtWorkOn, Rest
    <2> QED
      BY <2>1, <2>2, <2>3 DEF PackInv, Recorded
  <1>4. ASSUME NEW w \in Workers, AttemptStep(w) PROVE PackInv'
    <2>1. PackTypes'
      BY <1>4, AttemptTypes DEF PackInv
    <2>2. overlapped \subseteq overlapped'
      BY <1>4 DEF AttemptStep, StartAttempt, Attempt, WriteDraft, VerifyDraft, RenameDraft,
                  RecordPack, FailAttempt
    <2> QED
      BY <1>4, <2>1, <2>2, AttemptRecorded DEF PackInv
  <1>5. CASE UNCHANGED generation
    BY <1>5 DEF generation, PackInv, PackTypes, Recorded, AtWorkOn
  <1>6. \/ createAuditBundle \/ Rename \/ Stop \/ \E w \in Workers : AttemptStep(w)
        \/ UNCHANGED generation
    BY GenerationOrNot
  <1> QED
    BY <1>1, <1>2, <1>3, <1>4, <1>5, <1>6

(* The file of a completed pack stays the one that was recorded, for any versions,  *)
(* attempts at once and names of the product: only two attempts that overlapped,     *)
(* which takes a lock of the queue that is wrongly held for stale, can change it.     *)

THEOREM RecordedFile == AuditSpec => []CompletedFileIsRecorded
  <1>1. PackInv => CompletedFileIsRecorded
    BY DEF PackInv, Recorded, CompletedFileIsRecorded
  <1> QED
    BY <1>1, PackInit, PackStep, PTL DEF AuditSpec

(* A product that keeps its name: every attempt builds the same content, whoever else *)
(* is at work on the pack.                                                          *)
OneContent ==
    /\ \A v \in Versions : drafts[v] \in {Nothing, name}
    /\ \A w \in Workers : workers[w].step # "idle" =>
         workers[w].pack \in Versions /\ workers[w].content = name
    /\ \A w \in Workers : workers[w].step = "record" => files[workers[w].pack] = name
    /\ \A v \in Versions : packs[v].status = "completed" =>
         packs[v].digest = name /\ files[v] = name /\ reports[v] = name

LEMMA OneContentInit ==
    ASSUME AuditInit
    PROVE  OneContent
  <1>1. PICK past \in {"none", "completed", "issued"} :
          packs = [v \in Versions |-> IF v = 1 /\ past # "none" THEN Completed(name) ELSE NoPack]
    BY DEF AuditInit
  <1>2. \A v \in Versions : packs[v].status = "completed" => packs[v].digest = name
    BY <1>1 DEF Completed, NoPack
  <1>3. \A v \in Versions : reports[v] = packs[v].digest /\ files[v] = packs[v].digest /\ drafts[v] = Nothing
    BY DEF AuditInit
  <1>4. \A w \in Workers : workers[w].step = "idle"
    BY DEF AuditInit, Rest
  <1> QED
    BY <1>2, <1>3, <1>4 DEF OneContent

LEMMA OneContentAttempt ==
    ASSUME PackTypes, OneContent, NEW w \in Workers, AttemptStep(w)
    PROVE  OneContent'
  <1>1. ASSUME NEW v \in Versions, StartAttempt(w, v) PROVE OneContent'
    <2>1. /\ UNCHANGED <<name, packs, reports, files, drafts>>
          /\ \/ workers' = workers
             \/ workers' = [workers EXCEPT ![w] = [step |-> "build", pack |-> v, content |-> name]]
      BY <1>1 DEF StartAttempt, Attempt
    <2>2. ASSUME NEW x \in Workers
          PROVE  \/ workers'[x] = workers[x]
                 \/ workers'[x].step = "build" /\ workers'[x].pack = v /\ workers'[x].content = name
      BY <2>1 DEF PackTypes
    <2>3. \A x \in Workers : workers'[x].step # "idle" =>
            workers'[x].pack \in Versions /\ workers'[x].content = name'
      BY <2>1, <2>2 DEF OneContent
    <2>4. \A x \in Workers : workers'[x].step = "record" => files'[workers'[x].pack] = name'
      BY <2>1, <2>2 DEF OneContent
    <2> QED
      BY <2>1, <2>3, <2>4 DEF OneContent
  <1>2. ASSUME WriteDraft(w) \/ VerifyDraft(w) \/ RenameDraft(w) \/ RecordPack(w) \/ FailAttempt(w)
        PROVE  OneContent'
    <2> DEFINE u == workers[w].pack
    <2>1. u \in Versions /\ workers[w].content = name /\ name' = name
      BY <1>2 DEF OneContent, WriteDraft, VerifyDraft, RenameDraft, RecordPack, FailAttempt
    <2>2. \A x \in Workers : x # w => workers'[x] = workers[x]
      BY <1>2 DEF WriteDraft, VerifyDraft, RenameDraft, RecordPack, FailAttempt, StepTo, PackTypes
    <2>3. \/ workers'[w].step = "idle"
          \/ workers'[w].content = name /\ workers'[w].pack = u
      BY <1>2, <2>1 DEF WriteDraft, VerifyDraft, RenameDraft, RecordPack, FailAttempt, StepTo,
                        PackTypes, Rest
    <2>4. \A v \in Versions : drafts'[v] \in {Nothing, name}
      BY <1>2, <2>1 DEF OneContent, WriteDraft, VerifyDraft, RenameDraft, RecordPack, FailAttempt,
                        PackTypes
    <2>5. \A v \in Versions : files[v] = name => files'[v] = name
      <3>1. CASE RenameDraft(w)
        BY <3>1 DEF OneContent, RenameDraft, PackTypes
      <3> QED
        BY <1>2, <3>1 DEF WriteDraft, VerifyDraft, RecordPack, FailAttempt
    <2>6. \A x \in Workers : workers'[x].step = "record" => files'[workers'[x].pack] = name
      <3>1. workers'[w].step = "record" => files'[workers'[w].pack] = name
        <4>1. CASE RenameDraft(w)
          <5>1. drafts[u] # Nothing /\ files' = [files EXCEPT ![u] = drafts[u]]
                /\ workers'[w].pack = u
            BY <4>1 DEF RenameDraft, StepTo, PackTypes
          <5> QED
            BY <2>1, <5>1 DEF OneContent, PackTypes
        <4>2. CASE ~RenameDraft(w)
          BY <1>2, <4>2 DEF WriteDraft, VerifyDraft, RecordPack, FailAttempt, StepTo, PackTypes, Rest
        <4> QED
          BY <4>1, <4>2
      <3>2. ASSUME NEW x \in Workers, x # w, workers'[x].step = "record"
            PROVE  files'[workers'[x].pack] = name
        BY <2>2, <2>5, <3>2 DEF OneContent, PackTypes
      <3> QED
        BY <3>1, <3>2
    <2>7. \A v \in Versions : packs'[v].status = "completed" =>
            packs'[v].digest = name /\ files'[v] = name /\ reports'[v] = name
      <3>1. CASE RecordPack(w)
        <4>1. /\ files' = files /\ reports' = [reports EXCEPT ![u] = name] /\ files[u] = name
              /\ \/ packs' = packs
                 \/ packs' = [packs EXCEPT ![u].status = "completed", ![u].digest = name]
          BY <2>1, <3>1 DEF OneContent, RecordPack
        <4> QED
          BY <2>1, <4>1 DEF OneContent, PackTypes
      <3>2. CASE FailAttempt(w)
        <4>1. /\ files' = files /\ reports' = reports
              /\ \/ packs' = packs
                 \/ packs' = [packs EXCEPT ![u].status = "failed"]
          BY <3>2 DEF FailAttempt
        <4> QED
          BY <2>1, <4>1 DEF OneContent, PackTypes
      <3>3. CASE ~(RecordPack(w) \/ FailAttempt(w))
        <4>1. packs' = packs /\ reports' = reports
          BY <1>2, <3>3 DEF WriteDraft, VerifyDraft, RenameDraft
        <4> QED
          BY <2>5, <4>1 DEF OneContent
      <3> QED
        BY <3>1, <3>2, <3>3
    <2>8. \A x \in Workers : workers'[x].step # "idle" =>
            workers'[x].pack \in Versions /\ workers'[x].content = name
      BY <2>1, <2>2, <2>3 DEF OneContent
    <2> QED
      BY <2>1, <2>4, <2>6, <2>7, <2>8 DEF OneContent
  <1> QED
    BY <1>1, <1>2 DEF AttemptStep

LEMMA OneContentStep ==
    ASSUME PackInv, OneContent, [AuditNext]_auditVars, name' = name
    PROVE  OneContent'
  <1>1. CASE createAuditBundle
    <2>1. PICK u \in Versions, covered \in BOOLEAN : packs' = [packs EXCEPT ![u] =
                [status |-> "processing", digest |-> Nothing, covered |-> covered]]
      BY <1>1 DEF createAuditBundle
    <2>2. UNCHANGED <<name, reports, files, drafts, workers>>
      BY <1>1 DEF createAuditBundle
    <2>3. \A v \in Versions : packs'[v].status = "completed" => packs'[v] = packs[v]
      BY <2>1 DEF PackInv, PackTypes
    <2> QED
      BY <2>2, <2>3 DEF OneContent
  <1>2. CASE Rename
    BY <1>2 DEF Rename, OneContent
  <1>3. CASE Stop
    <2>1. /\ UNCHANGED <<name, packs, reports, files, drafts>>
          /\ workers' = [w \in Workers |-> Rest]
      BY <1>3 DEF Stop
    <2>2. \A w \in Workers : workers'[w].step = "idle"
      BY <2>1 DEF Rest
    <2> QED
      BY <2>1, <2>2 DEF OneContent
  <1>4. ASSUME NEW w \in Workers, AttemptStep(w) PROVE OneContent'
    BY <1>4, OneContentAttempt DEF PackInv
  <1>5. CASE UNCHANGED generation
    BY <1>5 DEF generation, OneContent
  <1>6. \/ createAuditBundle \/ Rename \/ Stop \/ \E w \in Workers : AttemptStep(w)
        \/ UNCHANGED generation
    BY GenerationOrNot
  <1> QED
    BY <1>1, <1>2, <1>3, <1>4, <1>5, <1>6

\* What CompletedFileIsRecorded says of packs without overlapped attempts, of all packs.
EveryFileIsRecorded ==
    \A v \in Versions : packs[v].status = "completed" =>
        files[v] = packs[v].digest /\ reports[v] = packs[v].digest

(* While the product keeps its name, overlapped attempts do no harm either: the file of every   *)
(* completed pack is the one recorded, although an attempt renames its draft before it looks at *)
(* the row (_generateAuditBundle). With RecordedFile: it takes an overlap and a rename of the   *)
(* product.                                                                                 *)
THEOREM SameNameSameFile == AuditSpec /\ [][name' = name]_auditVars => []EveryFileIsRecorded
  <1>1. OneContent => EveryFileIsRecorded
    BY DEF OneContent, EveryFileIsRecorded
  <1>2. PackInv /\ OneContent /\ [AuditNext]_auditVars /\ [name' = name]_auditVars
          => PackInv' /\ OneContent'
    <2>1. UNCHANGED auditVars => name' = name
      BY DEF auditVars, generation
    <2> QED
      BY <2>1, PackStep, OneContentStep
  <1> QED
    BY <1>1, <1>2, PackInit, OneContentInit, PTL DEF AuditSpec
-----------------------------------------------------------------------------
(* Audit packs: review, issue and assurance. The row with the latest time is the     *)
(* last one unless some row was recorded out of order, because no two transactions     *)
(* have one time; and what a transaction has read under the lock of a pack is still    *)
(* so when it writes, because it alone holds the lock.                              *)
Reviews == [decision : {"approved", "blocked", "rejected"}, by : Users \cup {NoOne}, at : Nat]
Assurances == [outcome : {"limited_assurance", "withdrawn"}, at : Nat, supersedes : Nat \cup Shares]
Transactions ==
    [step : {"idle", "begun", "read", "serve"},
     kind : {"none", "review", "issue", "share", "assurance", "download"},
     pack : Versions \cup {0}, at : Nat, by : Users \cup {NoOne}, seen : Nat \cup Shares]

LifecycleTypes ==
    /\ time \in Nat /\ requests \in [Callers -> Transactions]
    /\ reviews \in [Versions -> Seq(Reviews)] /\ issues \in [Versions -> Transactions]
    /\ records \in [Versions -> Seq(Assurances)]

TimesApart(rows) == \A i, j \in DOMAIN rows : i # j => rows[i].at # rows[j].at
Free(rows, at) == \A i \in DOMAIN rows : rows[i].at # at
Passed(rows) == \A i \in DOMAIN rows : rows[i].at \in 0..time
Began(r) == requests[r].step \in {"begun", "read"}

OneTimeEach ==
    /\ \A v \in Versions : TimesApart(reviews[v]) /\ TimesApart(records[v])
                           /\ Passed(reviews[v]) /\ Passed(records[v])
    /\ \A r \in Callers : Began(r) =>
        /\ requests[r].pack \in Versions /\ requests[r].at \in 0..time
        /\ \A v \in Versions : Free(reviews[v], requests[r].at) /\ Free(records[v], requests[r].at)
    /\ \A r, q \in Callers : Began(r) /\ Began(q) /\ requests[r].at = requests[q].at => r = q

Reading(r, kind) == requests[r].step = "read" /\ requests[r].kind = kind

LockedOnce ==
    \A r, q \in Callers : requests[r].step = "read" /\ requests[q].step = "read"
                           /\ requests[r].pack = requests[q].pack => r = q

StillRead(r) ==
    LET v == requests[r].pack
    IN  /\ Reading(r, "review") => v \notin Issued
        /\ Reading(r, "issue") =>
            /\ v \notin Issued /\ reviews[v] # <<>>
            /\ Approves(reviews[v][LatestOf(reviews[v])], requests[r].by)
        /\ Reading(r, "assurance") => requests[r].seen = LatestOf(records[v])

Superseding(rows) ==
    \A i \in DOMAIN rows : rows[i].supersedes = i - 1 \/ OutOfOrder(SubSeq(rows, 1, i - 1))

Decided(v) ==
    /\ v \in Issued => /\ reviews[v] # <<>>
                       /\ Approves(Last(reviews[v]), issues[v].by) \/ OutOfOrder(reviews[v])
    /\ Superseding(records[v])

LinkTypes ==
    shares \in [Shares -> [pack : Versions \cup {0}, count : Nat, revoked : BOOLEAN, expired : BOOLEAN]]

LifecycleInv ==
    /\ LifecycleTypes /\ OneTimeEach /\ LockedOnce
    /\ \A r \in Callers : StillRead(r)
    /\ \A v \in Versions : Decided(v)

(* A set of times that have passed has a latest one.                              *)

LEMMA LatestExists ==
    ASSUME NEW n \in Nat, NEW S \in SUBSET (0..n), S # {}
    PROVE  \E x \in S : \A y \in S : y <= x
  <1> DEFINE T == {n - x : x \in S}
  <1>1. T \subseteq Nat /\ T # {}
    <2>1. ASSUME NEW x \in S PROVE n - x \in Nat
      <3>1. x \in 0..n
        OBVIOUS
      <3> QED
        BY <3>1
    <2>2. \E x \in S : TRUE
      OBVIOUS
    <2> QED
      BY <2>1, <2>2
  <1>2. PICK m \in T : \A y \in T : <<y, m>> \notin OpToRel(<, Nat)
    <2> HIDE DEF T
    <2> QED
      BY <1>1, WFMin, NatLessThanWellFounded
  <1>3. PICK x \in S : m = n - x
    OBVIOUS
  <1>4. \A y \in S : x >= y
    <2> SUFFICES ASSUME NEW y \in S, y > x PROVE FALSE
      OBVIOUS
    <2>1. n - y \in T /\ n - y \in Nat /\ m \in Nat /\ n - y < m
      BY <1>3
    <2>2. <<n - y, m>> \in OpToRel(<, Nat)
      BY <2>1 DEF OpToRel
    <2> QED
      BY <1>2, <2>1, <2>2
  <1> QED
    BY <1>4

LEMMA LatestIsRow ==
    ASSUME time \in Nat, NEW S, NEW rows \in Seq(S), rows # <<>>, Passed(rows)
    PROVE  /\ LatestOf(rows) \in DOMAIN rows
           /\ \A j \in DOMAIN rows : rows[j].at <= rows[LatestOf(rows)].at
  <1> DEFINE T == {rows[i].at : i \in DOMAIN rows}
  <1>1. T \in SUBSET (0..time)
    BY DEF Passed
  <1>2. T # {}
    <2>1. 1 \in DOMAIN rows
      OBVIOUS
    <2> QED
      BY <2>1
  <1>3. PICK t \in T : \A y \in T : y <= t
    <2> HIDE DEF T
    <2> QED
      BY <1>1, <1>2, LatestExists
  <1>4. PICK i \in DOMAIN rows : t = rows[i].at
    OBVIOUS
  <1>5. \A j \in DOMAIN rows : rows[j].at <= rows[i].at
    BY <1>3, <1>4
  <1>6. LatestOf(rows) = CHOOSE k \in DOMAIN rows : \A j \in DOMAIN rows : rows[j].at <= rows[k].at
    BY DEF LatestOf
  <1> HIDE DEF T
  <1> QED
    BY <1>5, <1>6

LEMMA LatestIsLast ==
    ASSUME time \in Nat, NEW S, NEW rows \in Seq(S), rows # <<>>, Passed(rows), TimesApart(rows),
           ~OutOfOrder(rows)
    PROVE  LatestOf(rows) = Len(rows)
  <1> DEFINE i == LatestOf(rows)
  <1>1. i \in DOMAIN rows /\ \A j \in DOMAIN rows : rows[j].at <= rows[i].at
    BY LatestIsRow
  <1>2. Len(rows) \in DOMAIN rows /\ DOMAIN rows = 1..Len(rows) /\ Len(rows) \in Nat
    OBVIOUS
  <1> HIDE DEF i
  <1>3. SUFFICES ASSUME i # Len(rows) PROVE FALSE
    BY DEF i
  <1>4. i < Len(rows)
    BY <1>1, <1>2, <1>3
  <1>5. ~(rows[Len(rows)].at < rows[i].at)
    BY <1>1, <1>2, <1>4 DEF OutOfOrder
  <1>6. rows[Len(rows)].at \in Nat /\ rows[i].at \in Nat
    BY <1>1, <1>2 DEF Passed
  <1>7. rows[Len(rows)].at = rows[i].at
    BY <1>1, <1>2, <1>5, <1>6
  <1> QED
    BY <1>1, <1>2, <1>3, <1>7 DEF TimesApart

(* A row of a new time keeps times apart and the rows before as they were.          *)

LEMMA AppendTimes ==
    ASSUME time \in Nat, NEW S, NEW rows \in Seq(S), NEW entry \in S, Passed(rows), TimesApart(rows),
           entry.at \in 0..time, Free(rows, entry.at)
    PROVE  TimesApart(Append(rows, entry)) /\ Passed(Append(rows, entry))
  <1>1. /\ DOMAIN Append(rows, entry) = 1..(Len(rows) + 1) /\ Len(rows) \in Nat
        /\ DOMAIN rows = 1..Len(rows)
        /\ Append(rows, entry)[Len(rows) + 1] = entry
        /\ \A i \in 1..Len(rows) : Append(rows, entry)[i] = rows[i]
    OBVIOUS
  <1>2. TimesApart(Append(rows, entry))
    BY <1>1 DEF TimesApart, Free
  <1>3. Passed(Append(rows, entry))
    <2> SUFFICES ASSUME NEW i \in 1..(Len(rows) + 1) PROVE Append(rows, entry)[i].at \in 0..time
      BY <1>1 DEF Passed
    <2>1. i = Len(rows) + 1 \/ i \in 1..Len(rows)
      BY <1>1
    <2> QED
      BY <1>1, <2>1 DEF Passed
  <1> QED
    BY <1>2, <1>3

LEMMA AppendFree ==
    ASSUME NEW S, NEW rows \in Seq(S), NEW entry \in S, NEW at, Free(rows, at), entry.at # at
    PROVE  Free(Append(rows, entry), at)
  <1>1. /\ DOMAIN Append(rows, entry) = 1..(Len(rows) + 1) /\ Len(rows) \in Nat
        /\ DOMAIN rows = 1..Len(rows)
        /\ Append(rows, entry)[Len(rows) + 1] = entry
        /\ \A i \in 1..Len(rows) : Append(rows, entry)[i] = rows[i]
    OBVIOUS
  <1>2. SUFFICES ASSUME NEW i \in 1..(Len(rows) + 1) PROVE Append(rows, entry)[i].at # at
    BY <1>1 DEF Free
  <1>3. i = Len(rows) + 1 \/ i \in 1..Len(rows)
    BY <1>1
  <1> QED
    BY <1>1, <1>3 DEF Free

LEMMA PrefixOfAppend ==
    ASSUME NEW S, NEW rows \in Seq(S), NEW entry \in S, NEW n \in 0..Len(rows)
    PROVE  SubSeq(Append(rows, entry), 1, n) = SubSeq(rows, 1, n)
  <1>1. Append(rows, entry) \in Seq(S) /\ Len(Append(rows, entry)) = Len(rows) + 1 /\ Len(rows) \in Nat
    OBVIOUS
  <1>2. SubSeq(rows, 1, n) = [i \in 1..n |-> rows[i]]
    BY <1>1
  <1>3. SubSeq(Append(rows, entry), 1, n) = [i \in 1..n |-> Append(rows, entry)[i]]
    BY <1>1
  <1>4. \A i \in 1..n : Append(rows, entry)[i] = rows[i]
    BY <1>1
  <1> QED
    BY <1>2, <1>3, <1>4

LEMMA WholePrefix ==
    ASSUME NEW S, NEW rows \in Seq(S)
    PROVE  SubSeq(rows, 1, Len(rows)) = rows
  OBVIOUS

LEMMA LifecycleInit ==
    ASSUME AuditInit
    PROVE  LifecycleInv
  <1>0. PICK past \in {"none", "completed", "issued"}, by \in Users : \E other \in Users \ {by} :
        /\ packs = [v \in Versions |-> IF v = 1 /\ past # "none" THEN Completed(name) ELSE NoPack]
        /\ reviews = [v \in Versions |->
              IF v = 1 /\ past = "issued" THEN <<[decision |-> "approved", by |-> by, at |-> 0]>> ELSE <<>>]
        /\ issues = [v \in Versions |->
              IF v = 1 /\ past = "issued" THEN [NoCall EXCEPT !.pack = 1, !.by = other] ELSE NoCall]
    BY Zenon DEF AuditInit
  <1>1. PICK other \in Users \ {by} :
        /\ reviews = [v \in Versions |->
              IF v = 1 /\ past = "issued" THEN <<[decision |-> "approved", by |-> by, at |-> 0]>> ELSE <<>>]
        /\ issues = [v \in Versions |->
              IF v = 1 /\ past = "issued" THEN [NoCall EXCEPT !.pack = 1, !.by = other] ELSE NoCall]
    BY <1>0, Zenon
  <1>2. \A r \in Callers : requests[r].step = "idle"
    BY DEF AuditInit, NoCall
  <1>3. \A v \in Versions : records[v] = <<>>
    BY DEF AuditInit
  <1>4. LifecycleTypes
    <2>1. requests \in [Callers -> Transactions] /\ time \in Nat
      BY DEF AuditInit, NoCall, Transactions
    <2>2. issues \in [Versions -> Transactions]
      BY <1>1 DEF NoCall, Transactions
    <2>3. reviews \in [Versions -> Seq(Reviews)]
      <3>1. [decision |-> "approved", by |-> by, at |-> 0] \in Reviews
        BY DEF Reviews
      <3>2. <<[decision |-> "approved", by |-> by, at |-> 0]>> \in Seq(Reviews)
        BY <3>1
      <3> QED
        BY <1>1, <3>2
    <2>4. records \in [Versions -> Seq(Assurances)]
      BY DEF AuditInit
    <2> QED
      BY <2>1, <2>2, <2>3, <2>4 DEF LifecycleTypes
  <1>5. \A v \in Versions : TimesApart(reviews[v]) /\ Passed(reviews[v])
    BY <1>1 DEF TimesApart, Passed, AuditInit
  <1>6. \A v \in Versions : TimesApart(records[v]) /\ Passed(records[v])
    BY <1>3 DEF TimesApart, Passed
  <1>7. OneTimeEach /\ LockedOnce /\ \A r \in Callers : StillRead(r)
    BY <1>2, <1>5, <1>6 DEF OneTimeEach, LockedOnce, StillRead, Began, Reading
  <1>8. ASSUME NEW v \in Versions PROVE Decided(v)
    <2>1. CASE v = 1 /\ past = "issued"
      <3>1. reviews[v] = <<[decision |-> "approved", by |-> by, at |-> 0]>>
            /\ issues[v].by = other /\ records[v] = <<>>
        BY <1>1, <1>3, <2>1 DEF NoCall
      <3>2. Len(reviews[v]) = 1 /\ reviews[v][1] = [decision |-> "approved", by |-> by, at |-> 0]
        BY <3>1
      <3>3. Approves(Last(reviews[v]), issues[v].by)
        BY <1>1, <3>1, <3>2 DEF Approves, Last
      <3>4. reviews[v] # <<>>
        BY <3>2
      <3> QED
        BY <3>1, <3>3, <3>4 DEF Decided, Superseding
    <2>2. CASE ~(v = 1 /\ past = "issued")
      BY <1>1, <1>3, <2>2 DEF Decided, Superseding, Issued
    <2> QED
      BY <2>1, <2>2
  <1> QED
    BY <1>4, <1>7, <1>8 DEF LifecycleInv

(* A transaction that is over, or a download, holds nothing.                      *)

LEMMA Leaves ==
    ASSUME LifecycleInv, NEW r \in Callers, NEW state \in Transactions,
           state.step \notin {"begun", "read"}, requests' = [requests EXCEPT ![r] = state],
           UNCHANGED <<time, reviews, issues, records>>
    PROVE  LifecycleInv'
  <1>0. requests \in [Callers -> Transactions]
    BY DEF LifecycleInv, LifecycleTypes
  <1>1. LifecycleTypes'
    BY DEF LifecycleInv, LifecycleTypes
  <1>2. /\ requests'[r].step \notin {"begun", "read"}
        /\ \A q \in Callers : q # r => requests'[q] = requests[q]
    BY <1>0
  <1>3. OneTimeEach'
    BY <1>2 DEF LifecycleInv, OneTimeEach, Began, Passed
  <1>4. LockedOnce'
    BY <1>2 DEF LifecycleInv, LockedOnce
  <1>5. ASSUME NEW q \in Callers PROVE StillRead(q)'
    <2>1. CASE q = r
      BY <1>2, <2>1 DEF StillRead, Reading
    <2>2. CASE q # r
      BY <1>2, <2>2 DEF LifecycleInv, StillRead, Reading, Issued
    <2> QED
      BY <2>1, <2>2
  <1>6. \A v \in Versions : Decided(v)'
    BY DEF LifecycleInv, Decided, Issued
  <1> QED
    BY <1>1, <1>3, <1>4, <1>5, <1>6 DEF LifecycleInv

LEMMA IdleIsTransaction == NoCall \in Transactions /\ NoCall.step = "idle"
  BY DEF NoCall, Transactions

LEMMA BeginStep ==
    ASSUME LifecycleInv, NEW r \in Callers, NEW kind \in {"review", "issue", "share", "assurance"},
           NEW v \in Versions, NEW by \in Users \cup {NoOne}, Begin(r, kind, v, by)
    PROVE  LifecycleInv'
  <1> DEFINE state == [step |-> "begun", kind |-> kind, pack |-> v, at |-> time + 1, by |-> by, seen |-> 0]
  <1>0. requests \in [Callers -> Transactions] /\ time \in Nat
    BY DEF LifecycleInv, LifecycleTypes
  <1>1. /\ requests' = [requests EXCEPT ![r] = state] /\ time' = time + 1
        /\ UNCHANGED <<reviews, issues, records>>
    BY DEF Begin
  <1>2. state \in Transactions
    BY <1>0 DEF Transactions
  <1>3. LifecycleTypes'
    BY <1>0, <1>1, <1>2 DEF LifecycleInv, LifecycleTypes
  <1>4. /\ requests'[r] = state
        /\ \A q \in Callers : q # r => requests'[q] = requests[q]
    BY <1>0, <1>1
  <1>5. \A u \in Versions : /\ Passed(reviews[u]) /\ Passed(records[u])
                            /\ TimesApart(reviews[u]) /\ TimesApart(records[u])
    BY DEF LifecycleInv, OneTimeEach
  <1>6. \A u \in Versions : /\ Passed(reviews[u])' /\ Passed(records[u])'
                            /\ Free(reviews[u], time + 1) /\ Free(records[u], time + 1)
    BY <1>0, <1>1, <1>5 DEF Passed, Free
  <1>7. OneTimeEach'
    <2>1. ASSUME NEW q \in Callers, Began(q)'
          PROVE  /\ requests'[q].pack \in Versions /\ requests'[q].at \in 0..time'
                 /\ \A u \in Versions : Free(reviews'[u], requests'[q].at) /\ Free(records'[u], requests'[q].at)
      <3>1. CASE q = r
        BY <1>0, <1>1, <1>4, <1>6, <3>1
      <3>2. CASE q # r
        <4>1. Began(q) /\ requests'[q] = requests[q]
          BY <1>4, <2>1, <3>2 DEF Began
        <4> QED
          BY <1>0, <1>1, <4>1 DEF LifecycleInv, OneTimeEach
      <3> QED
        BY <3>1, <3>2
    <2>2. ASSUME NEW p \in Callers, NEW q \in Callers, Began(p)', Began(q)',
                 requests'[p].at = requests'[q].at
          PROVE  p = q
      <3>1. \A x \in Callers : x # r /\ Began(x)' => Began(x) /\ requests[x].at \in 0..time
        BY <1>4 DEF LifecycleInv, OneTimeEach, Began
      <3>2. requests'[r].at = time + 1
        BY <1>4
      <3>3. \A x \in Callers : x # r /\ Began(x)' => requests'[x].at # time + 1
        BY <1>0, <1>4, <3>1
      <3> HIDE DEF state
      <3>4. CASE p = r \/ q = r
        BY <2>2, <3>2, <3>3, <3>4
      <3>5. CASE p # r /\ q # r
        BY <1>4, <2>2, <3>1, <3>5 DEF LifecycleInv, OneTimeEach
      <3> QED
        BY <3>4, <3>5
    <2> QED
      BY <1>1, <1>5, <1>6, <2>1, <2>2 DEF OneTimeEach, TimesApart
  <1>8. LockedOnce' /\ \A q \in Callers : StillRead(q)'
    <2>1. requests'[r].step = "begun"
      BY <1>4
    <2>2. \A q \in Callers : requests'[q].step = "read" => q # r
      BY <2>1
    <2> HIDE DEF state
    <2>3. LockedOnce'
      BY <1>4, <2>2 DEF LifecycleInv, LockedOnce
    <2>4. ASSUME NEW q \in Callers, requests'[q].step = "read" PROVE StillRead(q)'
      <3>1. requests'[q] = requests[q]
        BY <1>4, <2>2, <2>4
      <3> QED
        BY <1>1, <3>1 DEF LifecycleInv, StillRead, Reading, Issued
    <2> QED
      BY <2>3, <2>4 DEF StillRead, Reading
  <1>9. \A u \in Versions : Decided(u)'
    BY <1>1 DEF LifecycleInv, Decided, Issued
  <1> QED
    BY <1>3, <1>7, <1>8, <1>9 DEF LifecycleInv

(* Under the lock of its pack r becomes the one that reads.                        *)

LEMMA LockStep ==
    ASSUME LifecycleInv, NEW r \in Callers, requests[r].step = "begun",
           Unlocked(requests[r].pack), NEW seen \in Nat,
           requests' = [requests EXCEPT ![r].step = "read", ![r].seen = seen],
           UNCHANGED <<time, reviews, issues, records>>, StillRead(r)'
    PROVE  LifecycleInv'
  <1>0. requests \in [Callers -> Transactions]
    BY DEF LifecycleInv, LifecycleTypes
  <1>1. /\ requests'[r].step = "read" /\ requests'[r].pack = requests[r].pack
        /\ requests'[r].at = requests[r].at
        /\ \A q \in Callers : q # r => requests'[q] = requests[q]
    BY <1>0 DEF Transactions
  <1>2. requests' \in [Callers -> Transactions]
    <2>1. requests[r] \in Transactions
      BY <1>0
    <2>2. [requests[r] EXCEPT !.step = "read", !.seen = seen] \in Transactions
      BY <2>1 DEF Transactions
    <2>3. requests' = [requests EXCEPT ![r] = [requests[r] EXCEPT !.step = "read", !.seen = seen]]
      BY <1>0
    <2> QED
      BY <1>0, <2>2, <2>3
  <1>3. LifecycleTypes'
    BY <1>2 DEF LifecycleInv, LifecycleTypes
  <1>4. \A q \in Callers : /\ Began(q)' => Began(q)
                            /\ requests'[q].pack = requests[q].pack
                            /\ requests'[q].at = requests[q].at
    BY <1>1 DEF Began
  <1>5. OneTimeEach'
    BY <1>4 DEF LifecycleInv, OneTimeEach, Passed
  <1>6. LockedOnce'
    <2>1. \A q \in Callers : requests[q].step = "read" => requests[q].pack # requests[r].pack
      BY DEF Unlocked
    <2>2. \A q \in Callers : q # r /\ requests'[q].step = "read" => requests'[q].pack # requests'[r].pack
      BY <1>1, <2>1
    <2>3. \A p, q \in Callers : p # r /\ q # r /\ requests'[p].step = "read"
             /\ requests'[q].step = "read" /\ requests'[p].pack = requests'[q].pack => p = q
      BY <1>1 DEF LifecycleInv, LockedOnce
    <2> QED
      BY <2>2, <2>3 DEF LockedOnce
  <1>7. ASSUME NEW q \in Callers, q # r PROVE StillRead(q)'
    BY <1>1, <1>7 DEF LifecycleInv, StillRead, Reading, Issued
  <1>8. \A v \in Versions : Decided(v)'
    BY DEF LifecycleInv, Decided, Issued
  <1> QED
    BY <1>3, <1>5, <1>6, <1>7, <1>8 DEF LifecycleInv

(* A read that is refused ends the transaction.                                  *)

LEMMA ReadStep ==
    ASSUME LifecycleInv, NEW r \in Callers,
           readForReview(r) \/ readForIssue(r) \/ readForShare(r) \/ readForAssurance(r)
    PROVE  LifecycleInv'
  <1> DEFINE v == requests[r].pack
             Goes(seen) == requests' = [requests EXCEPT ![r].step = "read", ![r].seen = seen]
  <1>0. requests \in [Callers -> Transactions]
    BY DEF LifecycleInv, LifecycleTypes
  <1>1. /\ requests[r].step = "begun" /\ Unlocked(v)
        /\ UNCHANGED <<time, reviews, issues, records>>
    BY DEF readForReview, readForIssue, readForShare, readForAssurance, Read
  <1>2. CASE Finish(r)
    BY <1>1, <1>2, Leaves, IdleIsTransaction DEF Finish
  <1>3. v \in Versions /\ Passed(reviews[v]) /\ Passed(records[v])
        /\ reviews[v] \in Seq(Reviews) /\ records[v] \in Seq(Assurances) /\ time \in Nat
    BY <1>1 DEF LifecycleInv, LifecycleTypes, OneTimeEach, Began
  <1>4. ASSUME NEW seen \in Nat, Goes(seen)
        PROVE  /\ requests'[r].kind = requests[r].kind /\ requests'[r].seen = seen
               /\ requests'[r].pack = v /\ requests'[r].by = requests[r].by
    BY <1>0, <1>4 DEF Transactions
  <1>5. CASE readForReview(r) /\ ~Finish(r)
    <2>1. Goes(0) /\ v \notin Issued /\ requests[r].kind = "review"
      BY <1>5 DEF readForReview, Read
    <2>2. StillRead(r)'
      BY <1>1, <1>4, <2>1 DEF StillRead, Reading, Issued
    <2> QED
      BY <1>1, <2>1, <2>2, LockStep
  <1>6. CASE readForIssue(r) /\ ~Finish(r)
    <2> DEFINE i == LatestOf(reviews[v])
    <2>1. /\ Goes(i) /\ v \notin Issued /\ requests[r].kind = "issue"
          /\ i # 0 /\ Approves(reviews[v][i], requests[r].by)
      BY <1>6 DEF readForIssue, Read
    <2>2. reviews[v] # <<>>
      BY <2>1 DEF LatestOf
    <2>3. i \in Nat
      BY <1>3, <2>2, LatestIsRow
    <2>4. StillRead(r)'
      BY <1>1, <1>4, <2>1, <2>2, <2>3 DEF StillRead, Reading, Issued
    <2> QED
      BY <1>1, <2>1, <2>3, <2>4, LockStep
  <1>7. CASE readForShare(r) /\ ~Finish(r)
    <2>1. Goes(0) /\ requests[r].kind = "share"
      BY <1>7 DEF readForShare, Read
    <2>2. StillRead(r)'
      BY <1>4, <2>1 DEF StillRead, Reading
    <2> QED
      BY <1>1, <2>1, <2>2, LockStep
  <1>8. CASE readForAssurance(r) /\ ~Finish(r)
    <2> DEFINE i == LatestOf(records[v])
    <2>1. Goes(i) /\ requests[r].kind = "assurance"
      BY <1>8 DEF readForAssurance, Read
    <2>2. i \in Nat
      <3>1. CASE records[v] = <<>>
        BY <3>1 DEF LatestOf
      <3>2. CASE records[v] # <<>>
        BY <1>3, <3>2, LatestIsRow
      <3> QED
        BY <3>1, <3>2
    <2>3. StillRead(r)'
      BY <1>1, <1>4, <2>1, <2>2 DEF StillRead, Reading
    <2> QED
      BY <1>1, <2>1, <2>2, <2>3, LockStep
  <1> QED
    BY <1>2, <1>5, <1>6, <1>7, <1>8

(* What a transaction of pack v writes is free for it alone.                         *)

LEMMA WritesAlone ==
    ASSUME LifecycleInv, NEW r \in Callers, requests[r].step = "read",
           requests' = [requests EXCEPT ![r] = NoCall]
    PROVE  /\ requests[r].pack \in Versions /\ requests[r].at \in 0..time /\ time \in Nat
           /\ requests' \in [Callers -> Transactions]
           /\ requests'[r].step = "idle"
           /\ \A q \in Callers : q # r =>
                requests'[q] = requests[q] /\ (requests[q].step = "read" => requests[q].pack # requests[r].pack)
           /\ \A q \in Callers : q # r /\ Began(q) => requests[q].at # requests[r].at
  BY IdleIsTransaction DEF LifecycleInv, LifecycleTypes, OneTimeEach, LockedOnce, Began

LEMMA ReviewStep ==
    ASSUME LifecycleInv, NEW r \in Callers, reviewAuditBundle(r)
    PROVE  LifecycleInv'
  <1> DEFINE v == requests[r].pack
  <1>0. requests[r].step = "read" /\ Reading(r, "review") /\ requests' = [requests EXCEPT ![r] = NoCall]
    BY DEF reviewAuditBundle, Writes, Finish, Reading
  <1>1. /\ v \in Versions /\ requests[r].at \in 0..time /\ time \in Nat
        /\ requests' \in [Callers -> Transactions] /\ requests'[r].step = "idle"
        /\ \A q \in Callers : q # r =>
             requests'[q] = requests[q] /\ (requests[q].step = "read" => requests[q].pack # v)
        /\ \A q \in Callers : q # r /\ Began(q) => requests[q].at # requests[r].at
    BY <1>0, WritesAlone
  <1>2. v \notin Issued
    BY <1>0 DEF LifecycleInv, StillRead
  <1>3. PICK decision \in {"approved", "blocked", "rejected"} :
          reviews' = [reviews EXCEPT ![v] =
             Append(@, [decision |-> decision, by |-> requests[r].by, at |-> requests[r].at])]
    BY DEF reviewAuditBundle
  <1> DEFINE entry == [decision |-> decision, by |-> requests[r].by, at |-> requests[r].at]
  <1>4. UNCHANGED <<time, issues, records>>
    BY DEF reviewAuditBundle
  <1>5. reviews \in [Versions -> Seq(Reviews)] /\ issues \in [Versions -> Transactions]
    BY DEF LifecycleInv, LifecycleTypes
  <1>6. /\ Passed(reviews[v]) /\ TimesApart(reviews[v]) /\ Free(reviews[v], requests[r].at)
        /\ requests[r] \in Transactions
    BY <1>0, <1>1 DEF LifecycleInv, LifecycleTypes, OneTimeEach, Began
  <1>7. entry \in Reviews /\ entry.at = requests[r].at
    BY <1>1, <1>6 DEF Reviews, Transactions
  <1>8. reviews'[v] = Append(reviews[v], entry) /\ \A u \in Versions : u # v => reviews'[u] = reviews[u]
    BY <1>1, <1>3, <1>5
  <1> HIDE DEF entry
  <1>9. reviews' \in [Versions -> Seq(Reviews)]
    BY <1>1, <1>3, <1>5, <1>7 DEF entry
  <1>10. LifecycleTypes'
    BY <1>1, <1>4, <1>9 DEF LifecycleInv, LifecycleTypes
  <1>11. OneTimeEach'
    <2>1. TimesApart(reviews'[v]) /\ Passed(reviews'[v])
      BY <1>1, <1>5, <1>6, <1>7, <1>8, AppendTimes
    <2>2. ASSUME NEW q \in Callers, q # r, Began(q)
          PROVE  Free(reviews'[v], requests[q].at)
      <3>1. Free(reviews[v], requests[q].at) /\ entry.at # requests[q].at
        BY <1>1, <1>7, <2>2 DEF LifecycleInv, OneTimeEach
      <3> QED
        BY <1>1, <1>5, <1>7, <1>8, <3>1, AppendFree
    <2>3. \A q \in Callers : Began(q)' => q # r /\ Began(q)
      BY <1>1 DEF Began
    <2>4. \A u \in Versions : u # v => TimesApart(reviews'[u]) /\ Passed(reviews'[u])
      BY <1>8 DEF LifecycleInv, OneTimeEach
    <2>5. \A u \in Versions : TimesApart(reviews[u])' /\ TimesApart(records[u])'
                             /\ Passed(reviews[u])' /\ Passed(records[u])'
      BY <1>4, <2>1, <2>4 DEF LifecycleInv, OneTimeEach, Passed, TimesApart
    <2>6. ASSUME NEW q \in Callers, Began(q)'
          PROVE  /\ requests'[q].pack \in Versions /\ requests'[q].at \in 0..time'
                 /\ \A u \in Versions : Free(reviews'[u], requests'[q].at) /\ Free(records'[u], requests'[q].at)
      <3>1. q # r /\ Began(q) /\ requests'[q] = requests[q]
        BY <1>1, <2>3, <2>6
      <3> QED
        BY <1>4, <1>8, <2>2, <3>1 DEF LifecycleInv, OneTimeEach
    <2>7. \A p, q \in Callers : Began(p)' /\ Began(q)' /\ requests'[p].at = requests'[q].at => p = q
      BY <1>1, <2>3 DEF LifecycleInv, OneTimeEach
    <2> QED
      BY <2>5, <2>6, <2>7 DEF OneTimeEach
  <1>12. LockedOnce'
    BY <1>1 DEF LifecycleInv, LockedOnce
  <1>13. ASSUME NEW q \in Callers PROVE StillRead(q)'
    <2>1. CASE requests'[q].step = "read"
      <3>1. q # r /\ requests'[q] = requests[q] /\ requests[q].pack # v /\ requests[q].step = "read"
        BY <1>1, <2>1
      <3>2. requests[q].pack \in Versions
        BY <3>1 DEF LifecycleInv, OneTimeEach, Began
      <3> QED
        BY <1>4, <1>8, <3>1, <3>2 DEF LifecycleInv, StillRead, Reading, Issued
    <2>2. CASE requests'[q].step # "read"
      BY <2>2 DEF StillRead, Reading
    <2> QED
      BY <2>1, <2>2
  <1>14. ASSUME NEW u \in Versions PROVE Decided(u)'
    BY <1>2, <1>4, <1>8 DEF LifecycleInv, Decided, Issued
  <1> QED
    BY <1>10, <1>11, <1>12, <1>13, <1>14 DEF LifecycleInv

LEMMA AssuranceStep ==
    ASSUME LifecycleInv, NEW r \in Callers, createAuditBundleAssuranceRecord(r)
    PROVE  LifecycleInv'
  <1>0. requests[r].step = "read" /\ Reading(r, "assurance") /\ requests' = [requests EXCEPT ![r] = NoCall]
    BY DEF createAuditBundleAssuranceRecord, Writes, Finish, Reading
  <1>v. PICK v \in Versions : v = requests[r].pack
    BY <1>0, WritesAlone
  <1>1. /\ v \in Versions /\ requests[r].at \in 0..time /\ time \in Nat
        /\ requests' \in [Callers -> Transactions] /\ requests'[r].step = "idle"
        /\ \A q \in Callers : q # r =>
             requests'[q] = requests[q] /\ (requests[q].step = "read" => requests[q].pack # v)
        /\ \A q \in Callers : q # r /\ Began(q) => requests[q].at # requests[r].at
    BY <1>0, <1>v, WritesAlone
  <1>2. requests[r].seen = LatestOf(records[v])
    BY <1>0, <1>v DEF LifecycleInv, StillRead
  <1>3. PICK outcome \in {"limited_assurance", "withdrawn"} :
          records' = [records EXCEPT ![v] =
             Append(@, [outcome |-> outcome, at |-> requests[r].at, supersedes |-> requests[r].seen])]
    BY <1>v DEF createAuditBundleAssuranceRecord
  <1> DEFINE entry == [outcome |-> outcome, at |-> requests[r].at, supersedes |-> requests[r].seen]
  <1>4. UNCHANGED <<time, reviews, issues>>
    BY DEF createAuditBundleAssuranceRecord
  <1>5. records \in [Versions -> Seq(Assurances)]
    BY DEF LifecycleInv, LifecycleTypes
  <1>6. /\ Passed(records[v]) /\ TimesApart(records[v]) /\ Free(records[v], requests[r].at)
        /\ requests[r] \in Transactions
    BY <1>0, <1>1 DEF LifecycleInv, LifecycleTypes, OneTimeEach, Began
  <1>7. entry \in Assurances /\ entry.at = requests[r].at /\ entry.supersedes = LatestOf(records[v])
    BY <1>1, <1>2, <1>6 DEF Assurances, Transactions
  <1>8. records'[v] = Append(records[v], entry) /\ \A u \in Versions : u # v => records'[u] = records[u]
    BY <1>1, <1>3, <1>5
  <1> HIDE DEF entry
  <1>9. records' \in [Versions -> Seq(Assurances)]
    BY <1>1, <1>3, <1>5, <1>7 DEF entry
  <1>10. LifecycleTypes'
    BY <1>1, <1>4, <1>9 DEF LifecycleInv, LifecycleTypes
  <1>11. OneTimeEach'
    <2>1. TimesApart(records'[v]) /\ Passed(records'[v])
      BY <1>1, <1>5, <1>6, <1>7, <1>8, AppendTimes
    <2>2. ASSUME NEW q \in Callers, q # r, Began(q)
          PROVE  Free(records'[v], requests[q].at)
      <3>1. Free(records[v], requests[q].at) /\ entry.at # requests[q].at
        BY <1>1, <1>7, <2>2 DEF LifecycleInv, OneTimeEach
      <3> QED
        BY <1>1, <1>5, <1>7, <1>8, <3>1, AppendFree
    <2>3. \A q \in Callers : Began(q)' => q # r /\ Began(q)
      BY <1>1 DEF Began
    <2>4. \A u \in Versions : u # v => TimesApart(records'[u]) /\ Passed(records'[u])
      BY <1>8 DEF LifecycleInv, OneTimeEach
    <2>5. \A u \in Versions : TimesApart(reviews[u])' /\ TimesApart(records[u])'
                             /\ Passed(reviews[u])' /\ Passed(records[u])'
      BY <1>4, <2>1, <2>4 DEF LifecycleInv, OneTimeEach, Passed, TimesApart
    <2>6. ASSUME NEW q \in Callers, Began(q)'
          PROVE  /\ requests'[q].pack \in Versions /\ requests'[q].at \in 0..time'
                 /\ \A u \in Versions : Free(reviews'[u], requests'[q].at) /\ Free(records'[u], requests'[q].at)
      <3>1. q # r /\ Began(q) /\ requests'[q] = requests[q]
        BY <1>1, <2>3, <2>6
      <3> QED
        BY <1>4, <1>8, <2>2, <3>1 DEF LifecycleInv, OneTimeEach
    <2>7. \A p, q \in Callers : Began(p)' /\ Began(q)' /\ requests'[p].at = requests'[q].at => p = q
      BY <1>1, <2>3 DEF LifecycleInv, OneTimeEach
    <2> QED
      BY <2>5, <2>6, <2>7 DEF OneTimeEach
  <1>12. LockedOnce'
    BY <1>1 DEF LifecycleInv, LockedOnce
  <1>13. ASSUME NEW q \in Callers PROVE StillRead(q)'
    <2>1. CASE requests'[q].step = "read"
      <3>1. q # r /\ requests'[q] = requests[q] /\ requests[q].pack # v /\ requests[q].step = "read"
        BY <1>1, <2>1
      <3>2. requests[q].pack \in Versions
        BY <3>1 DEF LifecycleInv, OneTimeEach, Began
      <3> QED
        BY <1>4, <1>8, <3>1, <3>2 DEF LifecycleInv, StillRead, Reading, Issued
    <2>2. CASE requests'[q].step # "read"
      BY <2>2 DEF StillRead, Reading
    <2> QED
      BY <2>1, <2>2
  <1>14. ASSUME NEW u \in Versions, u # v PROVE Decided(u)'
    BY <1>4, <1>8, <1>14 DEF LifecycleInv, Decided, Issued
  <1>15. Decided(v)'
    <2> DEFINE rows == records[v]
               n == Len(rows)
    <2>0. rows \in Seq(Assurances) /\ n \in Nat /\ DOMAIN rows = 1..n
      BY <1>1, <1>5
    <2>1. /\ DOMAIN records'[v] = 1..(n + 1) /\ records'[v][n + 1] = entry
          /\ \A i \in 1..n : records'[v][i] = rows[i]
      BY <1>7, <1>8, <2>0
    <2>2. \A i \in 1..(n + 1) : SubSeq(records'[v], 1, i - 1) = SubSeq(rows, 1, i - 1)
      <3> SUFFICES ASSUME NEW i \in 1..(n + 1)
                   PROVE  SubSeq(records'[v], 1, i - 1) = SubSeq(rows, 1, i - 1)
        OBVIOUS
      <3>1. i - 1 \in 0..n
        BY <2>0
      <3> QED
        BY <1>7, <1>8, <2>0, <3>1, PrefixOfAppend
    <2>3. ASSUME NEW i \in 1..n
          PROVE  records'[v][i].supersedes = i - 1 \/ OutOfOrder(SubSeq(records'[v], 1, i - 1))
      <3>1. rows[i].supersedes = i - 1 \/ OutOfOrder(SubSeq(rows, 1, i - 1))
        BY <1>1, <2>0 DEF LifecycleInv, Decided, Superseding
      <3>2. i \in 1..(n + 1)
        BY <2>0
      <3>3. SubSeq(records'[v], 1, i - 1) = SubSeq(rows, 1, i - 1)
        BY <2>2, <3>2
      <3>4. records'[v][i] = rows[i]
        BY <2>1
      <3> HIDE DEF rows, n
      <3> QED
        BY <3>1, <3>3, <3>4
    <2>4. entry.supersedes = n \/ OutOfOrder(rows)
      <3>1. CASE rows = <<>>
        <4>1. n = 0 /\ LatestOf(rows) = 0
          BY <3>1 DEF LatestOf
        <4> QED
          BY <1>7, <4>1
      <3>2. CASE rows # <<>> /\ ~OutOfOrder(rows)
        <4>1. LatestOf(rows) = n
          BY <1>1, <1>6, <2>0, <3>2, LatestIsLast
        <4> QED
          BY <1>7, <4>1
      <3> QED
        BY <3>1, <3>2
    <2>5. SubSeq(rows, 1, n) = rows
      BY <2>0, WholePrefix
    <2>6. SubSeq(records'[v], 1, (n + 1) - 1) = rows /\ (n + 1) - 1 = n
      <3>1. n + 1 \in 1..(n + 1) /\ (n + 1) - 1 = n
        BY <2>0
      <3>2. SubSeq(records'[v], 1, (n + 1) - 1) = SubSeq(rows, 1, (n + 1) - 1)
        BY <2>2, <3>1
      <3> QED
        BY <2>5, <3>1, <3>2
    <2>7. \A i \in 1..(n + 1) : i = n + 1 \/ i \in 1..n
      BY <2>0
    <2>8. Superseding(records'[v])
      <3> HIDE DEF n, rows
      <3> QED
        BY <2>1, <2>3, <2>4, <2>6, <2>7 DEF Superseding
    <2>9. v \in Issued' => /\ reviews'[v] # <<>>
                           /\ Approves(Last(reviews'[v]), issues'[v].by) \/ OutOfOrder(reviews'[v])
      BY <1>1, <1>4 DEF LifecycleInv, Decided, Issued
    <2> QED
      BY <2>8, <2>9 DEF Decided
  <1> QED
    BY <1>10, <1>11, <1>12, <1>13, <1>14, <1>15 DEF LifecycleInv

LEMMA IssueStep ==
    ASSUME LifecycleInv, NEW r \in Callers, issueAuditBundle(r)
    PROVE  LifecycleInv'
  <1>0. requests[r].step = "read" /\ Reading(r, "issue") /\ requests' = [requests EXCEPT ![r] = NoCall]
    BY DEF issueAuditBundle, Writes, Finish, Reading
  <1>v. PICK v \in Versions : v = requests[r].pack
    BY <1>0, WritesAlone
  <1>1. /\ time \in Nat
        /\ requests' \in [Callers -> Transactions] /\ requests'[r].step = "idle"
        /\ \A q \in Callers : q # r =>
             requests'[q] = requests[q] /\ (requests[q].step = "read" => requests[q].pack # v)
    BY <1>0, <1>v, WritesAlone
  <1>2. reviews[v] # <<>> /\ Approves(reviews[v][LatestOf(reviews[v])], requests[r].by)
    BY <1>0, <1>v DEF LifecycleInv, StillRead
  <1>3. /\ issues' = [issues EXCEPT ![v] = requests[r]]
        /\ UNCHANGED <<time, reviews, records>>
    BY <1>v DEF issueAuditBundle
  <1>4. /\ issues \in [Versions -> Transactions] /\ reviews \in [Versions -> Seq(Reviews)]
        /\ requests[r] \in Transactions
    BY DEF LifecycleInv, LifecycleTypes
  <1>5. issues'[v] = requests[r] /\ \A u \in Versions : u # v => issues'[u] = issues[u]
    BY <1>3, <1>4
  <1>6. LifecycleTypes'
    BY <1>1, <1>3, <1>4 DEF LifecycleInv, LifecycleTypes
  <1>7. \A q \in Callers : Began(q)' => q # r /\ Began(q) /\ requests'[q] = requests[q]
    BY <1>1 DEF Began
  <1>8. OneTimeEach'
    BY <1>3, <1>7 DEF LifecycleInv, OneTimeEach, Passed, TimesApart
  <1>9. LockedOnce'
    BY <1>1 DEF LifecycleInv, LockedOnce
  <1>10. ASSUME NEW q \in Callers PROVE StillRead(q)'
    <2>1. CASE requests'[q].step = "read"
      <3>1. q # r /\ requests'[q] = requests[q] /\ requests[q].pack # v /\ requests[q].step = "read"
        BY <1>1, <2>1
      <3>2. requests[q].pack \in Versions
        BY <3>1 DEF LifecycleInv, OneTimeEach, Began
      <3> QED
        BY <1>3, <1>5, <3>1, <3>2 DEF LifecycleInv, StillRead, Reading, Issued
    <2>2. CASE requests'[q].step # "read"
      BY <2>2 DEF StillRead, Reading
    <2> QED
      BY <2>1, <2>2
  <1>11. ASSUME NEW u \in Versions, u # v PROVE Decided(u)'
    BY <1>3, <1>5, <1>11 DEF LifecycleInv, Decided, Issued
  <1>12. Decided(v)'
    <2>1. Passed(reviews[v]) /\ TimesApart(reviews[v])
      BY DEF LifecycleInv, OneTimeEach
    <2>2. ~OutOfOrder(reviews[v]) => Approves(Last(reviews[v]), requests[r].by)
      <3>1. ~OutOfOrder(reviews[v]) => LatestOf(reviews[v]) = Len(reviews[v])
        BY <1>1, <1>2, <1>4, <2>1, LatestIsLast
      <3> QED
        BY <1>2, <3>1 DEF Last
    <2> QED
      BY <1>2, <1>3, <1>5, <2>2 DEF LifecycleInv, Decided
  <1> QED
    BY <1>6, <1>8, <1>9, <1>10, <1>11, <1>12 DEF LifecycleInv

LEMMA LifecycleStep ==
    ASSUME LifecycleInv, LinkTypes, [AuditNext]_auditVars
    PROVE  LifecycleInv'
  <1>1. CASE UNCHANGED lifecycle
    BY <1>1 DEF lifecycle, LifecycleInv, LifecycleTypes, OneTimeEach, LockedOnce, StillRead, Decided,
                Began, Reading, Issued, Passed
  <1>2. ASSUME NEW r \in Callers, NEW v \in Created,
               \/ \E by \in Users, kind \in {"review", "issue"} : Begin(r, kind, v, by)
               \/ \E kind \in {"share", "assurance"} : Begin(r, kind, v, NoOne)
        PROVE  LifecycleInv'
    BY <1>2, BeginStep DEF Created
  <1>3. ASSUME NEW r \in Callers,
               readForReview(r) \/ readForIssue(r) \/ readForShare(r) \/ readForAssurance(r)
        PROVE  LifecycleInv'
    BY <1>3, ReadStep
  <1>4. ASSUME NEW r \in Callers, createAuditBundleShare(r) \/ downloadPublicAuditBundleShare(r)
        PROVE  LifecycleInv'
    <2>1. Finish(r) /\ UNCHANGED <<time, reviews, issues, records>>
      BY <1>4 DEF createAuditBundleShare, downloadPublicAuditBundleShare, Writes
    <2> QED
      BY <2>1, Leaves, IdleIsTransaction DEF Finish
  <1>5. ASSUME NEW r \in Callers, NEW s \in Shares, _findPublicAuditBundleShare(r, s)
        PROVE  LifecycleInv'
    <2> DEFINE state == [NoCall EXCEPT !.step = "serve", !.kind = "download", !.pack = shares[s].pack,
                                     !.seen = s]
    <2>1. state \in Transactions /\ state.step = "serve"
      BY <1>5 DEF LinkTypes, Transactions, NoCall
    <2>2. requests' = [requests EXCEPT ![r] = state] /\ UNCHANGED <<time, reviews, issues, records>>
      BY <1>5 DEF _findPublicAuditBundleShare
    <2> HIDE DEF state
    <2> QED
      BY <2>1, <2>2, Leaves
  <1>6. ASSUME NEW s \in Shares, revokeAuditBundleShare(s) \/ Expire(s)
        PROVE  LifecycleInv'
    BY <1>6
    DEF revokeAuditBundleShare, Expire, LifecycleInv, LifecycleTypes, OneTimeEach, LockedOnce,
        StillRead, Decided, Began, Reading, Issued, Passed
  <1>7. ASSUME createAuditBundle \/ Rename \/ Stop \/ (\E w \in Workers : AttemptStep(w))
        PROVE  UNCHANGED lifecycle
    BY <1>7 DEF createAuditBundle, Rename, Stop, AttemptStep, StartAttempt, Attempt, WriteDraft,
                VerifyDraft, RenameDraft, RecordPack, FailAttempt
  <1>8. CASE AuditNext
    <2> SUFFICES ASSUME ~LifecycleInv' PROVE FALSE
      OBVIOUS
    <2> QED
      BY <1>1, <1>2, <1>3, <1>4, <1>5, <1>6, <1>7, <1>8, ReviewStep, AssuranceStep, IssueStep
      DEF AuditNext, AttemptStep
  <1>9. CASE UNCHANGED auditVars
    BY <1>1, <1>9 DEF auditVars
  <1> QED
    BY <1>8, <1>9

(* A download holds the row of its link: the link was not revoked when it was found, *)
(* and it is not until the download has been counted.                              *)
Downloads(r) ==
    /\ requests[r].step = "serve" => requests[r].kind = "download"
    /\ requests[r].kind = "download" =>
        requests[r].seen \in Shares /\ shares[requests[r].seen].revoked = FALSE

AuditInv == LifecycleInv /\ LinkTypes /\ \A r \in Callers : Downloads(r)

LEMMA LinksInit ==
    ASSUME AuditInit
    PROVE  LinkTypes /\ \A r \in Callers : Downloads(r)
  BY DEF AuditInit, LinkTypes, NoLink, Downloads, NoCall

(* Callers that are no downloads leave links as they are but for new ones.           *)

LEMMA LinksStep ==
    ASSUME AuditInv, [AuditNext]_auditVars
    PROVE  LinkTypes' /\ \A r \in Callers : Downloads(r)'
  <1>0. requests \in [Callers -> Transactions]
    BY DEF AuditInv, LifecycleInv, LifecycleTypes
  <1>1. CASE shares' = shares /\ requests' = requests
    BY <1>1 DEF AuditInv, LinkTypes, Downloads
  <1>2. ASSUME NEW r \in Callers, NEW state, state.step # "serve", state.kind # "download",
               shares' = shares, requests' = [requests EXCEPT ![r] = state]
        PROVE  LinkTypes' /\ \A q \in Callers : Downloads(q)'
    BY <1>0, <1>2 DEF AuditInv, LinkTypes, Downloads
  <1>3. ASSUME NEW r \in Callers, NEW kind \in {"review", "issue", "share", "assurance"},
               NEW v, NEW by, Begin(r, kind, v, by)
        PROVE  LinkTypes' /\ \A q \in Callers : Downloads(q)'
    BY <1>2, <1>3 DEF Begin
  <1>4. ASSUME NEW r \in Callers,
               readForReview(r) \/ readForIssue(r) \/ readForShare(r) \/ readForAssurance(r)
        PROVE  LinkTypes' /\ \A q \in Callers : Downloads(q)'
    <2>1. /\ shares' = shares /\ requests[r].kind \in {"review", "issue", "share", "assurance"}
          /\ \/ Finish(r)
             \/ \E seen : requests' = [requests EXCEPT ![r].step = "read", ![r].seen = seen]
      BY <1>4 DEF readForReview, readForIssue, readForShare, readForAssurance, Read
    <2>2. CASE Finish(r)
      BY <1>2, <2>1, <2>2 DEF Finish, NoCall
    <2>3. ASSUME NEW seen, requests' = [requests EXCEPT ![r].step = "read", ![r].seen = seen]
          PROVE  LinkTypes' /\ \A q \in Callers : Downloads(q)'
      <3>1. requests'[r].step = "read" /\ requests'[r].kind = requests[r].kind
            /\ \A q \in Callers : q # r => requests'[q] = requests[q]
        BY <1>0, <2>3 DEF Transactions
      <3> QED
        BY <2>1, <3>1 DEF AuditInv, LinkTypes, Downloads
    <2> QED
      BY <2>1, <2>2, <2>3
  <1>5. ASSUME NEW r \in Callers,
               reviewAuditBundle(r) \/ issueAuditBundle(r) \/ createAuditBundleAssuranceRecord(r)
        PROVE  LinkTypes' /\ \A q \in Callers : Downloads(q)'
    <2>1. Finish(r) /\ shares' = shares
      BY <1>5 DEF reviewAuditBundle, issueAuditBundle, createAuditBundleAssuranceRecord, Writes
    <2> QED
      BY <1>2, <2>1 DEF Finish, NoCall
  <1>6. ASSUME NEW r \in Callers, createAuditBundleShare(r)
        PROVE  LinkTypes' /\ \A q \in Callers : Downloads(q)'
    <2>1. requests[r].step = "read" /\ Finish(r)
      BY <1>6 DEF createAuditBundleShare, Writes
    <2>2. requests[r].pack \in Versions
      BY <2>1 DEF AuditInv, LifecycleInv, OneTimeEach, Began
    <2>3. PICK s \in Shares : shares' = [shares EXCEPT ![s].pack = requests[r].pack]
      BY <1>6 DEF createAuditBundleShare
    <2>4. LinkTypes' /\ \A x \in Shares : shares'[x].revoked = shares[x].revoked
      BY <2>2, <2>3 DEF AuditInv, LinkTypes
    <2>5. requests'[r].step = "idle" /\ requests'[r].kind = "none"
          /\ \A q \in Callers : q # r => requests'[q] = requests[q]
      BY <1>0, <2>1 DEF Finish, NoCall
    <2> QED
      BY <2>4, <2>5 DEF AuditInv, Downloads
  <1>7. ASSUME NEW r \in Callers, NEW s \in Shares, _findPublicAuditBundleShare(r, s)
        PROVE  LinkTypes' /\ \A q \in Callers : Downloads(q)'
    <2>1. shares' = shares /\ shares[s].revoked = FALSE
      BY <1>7 DEF _findPublicAuditBundleShare, Live, AuditInv, LinkTypes
    <2>2. requests'[r].kind = "download" /\ requests'[r].seen = s
          /\ \A q \in Callers : q # r => requests'[q] = requests[q]
      BY <1>0, <1>7 DEF _findPublicAuditBundleShare, NoCall
    <2> QED
      BY <2>1, <2>2 DEF AuditInv, LinkTypes, Downloads
  <1>8. ASSUME NEW r \in Callers, downloadPublicAuditBundleShare(r)
        PROVE  LinkTypes' /\ \A q \in Callers : Downloads(q)'
    <2> DEFINE s == requests[r].seen
    <2>1. Finish(r) /\ (shares' = shares \/ shares' = [shares EXCEPT ![s].count = @ + 1])
      BY <1>8 DEF downloadPublicAuditBundleShare
    <2>2. LinkTypes' /\ \A x \in Shares : shares'[x].revoked = shares[x].revoked
      BY <2>1 DEF AuditInv, LinkTypes
    <2>3. requests'[r].step = "idle" /\ requests'[r].kind = "none"
          /\ \A q \in Callers : q # r => requests'[q] = requests[q]
      BY <1>0, <2>1 DEF Finish, NoCall
    <2> QED
      BY <2>2, <2>3 DEF AuditInv, Downloads
  <1>9. ASSUME NEW s \in Shares, revokeAuditBundleShare(s)
        PROVE  LinkTypes' /\ \A q \in Callers : Downloads(q)'
    <2>1. /\ requests' = requests /\ shares' = [shares EXCEPT ![s].revoked = TRUE]
          /\ \A q \in Callers : requests[q].kind = "download" => requests[q].seen # s
      BY <1>9 DEF revokeAuditBundleShare, Holds
    <2>2. LinkTypes' /\ \A x \in Shares : x # s => shares'[x].revoked = shares[x].revoked
      BY <2>1 DEF AuditInv, LinkTypes
    <2> QED
      BY <2>1, <2>2 DEF AuditInv, Downloads
  <1>10. ASSUME NEW s \in Shares, Expire(s)
         PROVE  LinkTypes' /\ \A q \in Callers : Downloads(q)'
    <2>1. requests' = requests /\ shares' = [shares EXCEPT ![s].expired = TRUE]
      BY <1>10 DEF Expire
    <2>2. LinkTypes' /\ \A x \in Shares : shares'[x].revoked = shares[x].revoked
      BY <2>1 DEF AuditInv, LinkTypes
    <2> QED
      BY <2>1, <2>2 DEF AuditInv, Downloads
  <1>11. ASSUME createAuditBundle \/ Rename \/ Stop \/ (\E w \in Workers : AttemptStep(w))
         PROVE  shares' = shares /\ requests' = requests
    BY <1>11 DEF createAuditBundle, Rename, Stop, AttemptStep, StartAttempt, Attempt, WriteDraft,
                 VerifyDraft, RenameDraft, RecordPack, FailAttempt, lifecycle
  <1>12. CASE AuditNext
    <2> SUFFICES ASSUME ~(LinkTypes' /\ \A q \in Callers : Downloads(q)') PROVE FALSE
      OBVIOUS
    <2> QED
      BY <1>1, <1>3, <1>4, <1>5, <1>6, <1>7, <1>8, <1>9, <1>10, <1>11, <1>12
      DEF AuditNext, AttemptStep
  <1>13. CASE UNCHANGED auditVars
    BY <1>1, <1>13 DEF auditVars, lifecycle
  <1> QED
    BY <1>12, <1>13

LEMMA AuditInvariance == AuditSpec => []AuditInv
  <1>1. AuditInit => AuditInv
    BY LifecycleInit, LinksInit DEF AuditInv
  <1>2. AuditInv /\ [AuditNext]_auditVars => AuditInv'
    BY LifecycleStep, LinksStep DEF AuditInv
  <1> QED
    BY <1>1, <1>2, PTL DEF AuditSpec

(* Who issues a pack has the approval of the last review, by somebody else, and a     *)
(* record of assurance supersedes the one before it, unless a row had been recorded    *)
(* with a time earlier than that of the row it follows; for any transactions at once.  *)

THEOREM LatestReviewDecides == AuditSpec => []LatestDecides
  <1>1. AuditInv => LatestDecides
    BY DEF AuditInv, LifecycleInv, Decided, Superseding, LatestDecides
  <1> QED
    BY <1>1, AuditInvariance, PTL

(* A link never serves a download after it was revoked, nor more than its limit.       *)

THEOREM LinksServeWithinTerms == AuditSpec => ServedWithinTerms
  <1> DEFINE Terms == \A s \in Shares : shares'[s].count # shares[s].count =>
                          ~shares[s].revoked /\ shares[s].count < MaxDownloads
  <1>1. AuditInv /\ [AuditNext]_auditVars => [Terms]_auditVars
    <2> SUFFICES ASSUME AuditInv, [AuditNext]_auditVars PROVE Terms
      OBVIOUS
    <2>1. ASSUME NEW r \in Callers, downloadPublicAuditBundleShare(r) PROVE Terms
      <3>1. requests[r].seen \in Shares /\ shares[requests[r].seen].revoked = FALSE
        BY <2>1 DEF downloadPublicAuditBundleShare, AuditInv, Downloads
      <3>2. \/ shares' = shares
            \/ /\ shares[requests[r].seen].count < MaxDownloads
               /\ shares' = [shares EXCEPT ![requests[r].seen].count = @ + 1]
        BY <2>1 DEF downloadPublicAuditBundleShare
      <3> QED
        BY <3>1, <3>2 DEF AuditInv, LinkTypes
    <2>2. ASSUME NEW r \in Callers, createAuditBundleShare(r) PROVE Terms
      <3>1. PICK s \in Shares : shares' = [shares EXCEPT ![s].pack = requests[r].pack]
        BY <2>2 DEF createAuditBundleShare
      <3> QED
        BY <3>1 DEF AuditInv, LinkTypes
    <2>3. ASSUME NEW s \in Shares, revokeAuditBundleShare(s) \/ Expire(s) PROVE Terms
      BY <2>3 DEF revokeAuditBundleShare, Expire, AuditInv, LinkTypes
    <2>4. \/ shares' = shares
          \/ \E r \in Callers : downloadPublicAuditBundleShare(r) \/ createAuditBundleShare(r)
          \/ \E s \in Shares : revokeAuditBundleShare(s) \/ Expire(s)
      BY DEF AuditNext, createAuditBundle, Rename, Stop, StartAttempt, Attempt, WriteDraft,
             VerifyDraft, RenameDraft, RecordPack, FailAttempt, Begin, readForReview, readForIssue,
             readForShare, readForAssurance, Read, reviewAuditBundle, issueAuditBundle,
             createAuditBundleAssuranceRecord, _findPublicAuditBundleShare, lifecycle, auditVars
    <2> QED
      BY <2>1, <2>2, <2>3, <2>4
  <1> QED
    BY <1>1, AuditInvariance, PTL DEF AuditSpec, ServedWithinTerms
=============================================================================
