------------------------------ MODULE MCEvidence ------------------------------
(* Two documents with one file. The first may be extracted twice, and two     *)
(* extractions may read different values; the second is created with a value. *)
EXTENDS Evidence

CONSTANTS d1, d2, file

MCDocuments == {d1, d2}
MCFile == [d \in MCDocuments |-> file]
MCResults == {("kwh" :> 1), ("kwh" :> 2)}
MCReferences == {"activity"}
MCMaxAttempts == (d1 :> 2) @@ (d2 :> 0)
MCGiven == (d1 :> {Unread}) @@ (d2 :> {("kwh" :> 1)})
===============================================================================
