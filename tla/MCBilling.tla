------------------------------ MODULE MCBilling ------------------------------
(* Billing: requests and sessions are interchangeable.                     *)
EXTENDS Billing, TLC

Interchangeable == Permutations(Requests) \cup Permutations(Sessions)
=============================================================================
