-------------------------- MODULE ControlledDocuments --------------------------
(***************************************************************************)
(* What the other parts of the system see of an evidence document: whether  *)
(* it exists and whether it is controlled, which is status 'locked' or      *)
(* 'third_party_verified' with a checksum and a size. Checksum, size and     *)
(* validity are written once, with the row. Evidence implements this module. *)
(***************************************************************************)
CONSTANT Documents

VARIABLE document

Existing == {d \in Documents : document[d] \in {"open", "controlled"}}
Controlled == {d \in Documents : document[d] = "controlled"}

DocumentsInit == document = [d \in Documents |-> "none"]

Become(d, from, to) ==
    /\ document[d] \in from
    /\ document' = [document EXCEPT ![d] = to]

Upload(d) == Become(d, {"none"}, "open")
Lock(d) == Become(d, {"open"}, "controlled")
Reopen(d) == Become(d, {"controlled"}, "open")   \* an extraction that ends late
Delete(d) == Become(d, {"open", "controlled"}, "deleted")

DocumentsNext == \E d \in Documents : Upload(d) \/ Lock(d) \/ Reopen(d) \/ Delete(d)

DocumentsSpec == DocumentsInit /\ [][DocumentsNext]_document
================================================================================
