------------------------------ MODULE MCDossiers ------------------------------
(* Two requests on one dossier and two documents. A claim runs on days 1 and  *)
(* 2 of 0..3; one of its documents is valid until day 1 only.                *)
EXTENDS Dossiers, TLC

CONSTANTS d1, d2, r1, r2

MCDocuments == {d1, d2}
MCRequests == {r1, r2}
MCValidTo == (d1 :> 1) @@ (d2 :> 3)
MCWindows == {[from |-> 1, until |-> 2]}
Symmetry == Permutations(MCRequests)
===============================================================================
