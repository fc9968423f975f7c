------------------------------ MODULE WorkQueue ------------------------------
(***************************************************************************)
(* What the background queue promises to the services that enqueue work    *)
(* (migration 016: "Durable, idempotent background work queue"): a job,    *)
(* once accepted, stays open until its task has run to the end at least    *)
(* once and is then completed, or until the queue gives it up; completed   *)
(* and dead jobs never change again and only disappear by being pruned.    *)
(* Rows, workers, attempts, locks and time are all hidden here.            *)
(***************************************************************************)
CONSTANT Keys

VARIABLES
    job,        \* job[k]: the fate of the current job of idempotency key k
    performed   \* the keys whose current job's task has run to the end

vars == <<job, performed>>

Init ==
    /\ job = [k \in Keys |-> "absent"]
    /\ performed = {}

(* Accepting a set of keys: one for enqueue, many for the startup backfill. *)
Accept(S) ==
    /\ \A k \in S : job[k] = "absent"
    /\ job' = [k \in Keys |-> IF k \in S THEN "open" ELSE job[k]]
    /\ performed' = performed \ S

(* A task may run to the end any number of times, even after its job closed. *)
Perform(k) ==
    /\ performed' = performed \cup {k}
    /\ UNCHANGED job

Finish(k) ==
    /\ job[k] = "open" /\ k \in performed
    /\ job' = [job EXCEPT ![k] = "completed"]
    /\ UNCHANGED performed

GiveUp(k) ==
    /\ job[k] = "open"
    /\ job' = [job EXCEPT ![k] = "dead"]
    /\ UNCHANGED performed

Prune(S) ==
    /\ \A k \in S : job[k] \in {"completed", "dead"}
    /\ job' = [k \in Keys |-> IF k \in S THEN "absent" ELSE job[k]]
    /\ UNCHANGED performed

Next ==
    \/ \E S \in SUBSET Keys : Accept(S) \/ Prune(S)
    \/ \E k \in Keys : Perform(k) \/ Finish(k) \/ GiveUp(k)

Spec == Init /\ [][Next]_vars
=============================================================================
