----------------------------- MODULE DeviceLedger -----------------------------
(***************************************************************************)
(* What WeaveNode ingestion promises of one device: every sequence number  *)
(* is given a payload at most once, the log of accepted measurements is    *)
(* what sequence numbers 1, 2, 3, ... hold, it only grows at its end, and  *)
(* nothing is stored or accepted once the device is closed.                *)
(***************************************************************************)
EXTENDS Naturals, Sequences

CONSTANTS Times, LastSequence, NoPayload

SequenceNumbers == 1..LastSequence

VARIABLES stored, log, closed

LedgerInit ==
    /\ stored = [s \in SequenceNumbers |-> NoPayload]
    /\ log = <<>>
    /\ closed = FALSE

Store(s, t) ==
    /\ ~closed /\ stored[s] = NoPayload
    /\ stored' = [stored EXCEPT ![s] = t]
    /\ UNCHANGED <<log, closed>>

(* One replay accepts any number of the measurements that are next in turn. *)
Accept(n) ==
    /\ ~closed
    /\ \A i \in 1..n : Len(log) + i \in SequenceNumbers /\ stored[Len(log) + i] # NoPayload
    /\ log' = log \o [i \in 1..n |-> stored[Len(log) + i]]
    /\ UNCHANGED <<stored, closed>>

Close == closed' = TRUE /\ UNCHANGED <<stored, log>>

LedgerNext ==
    \/ \E s \in SequenceNumbers, t \in Times : Store(s, t)
    \/ \E n \in SequenceNumbers : Accept(n)
    \/ Close

LedgerSpec == LedgerInit /\ [][LedgerNext]_<<stored, log, closed>>
=============================================================================
