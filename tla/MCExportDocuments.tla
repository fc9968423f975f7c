-------------------------- MODULE MCExportDocuments --------------------------
(* Two requests, a carrier document and an origin document.                  *)
EXTENDS ExportDocuments, TLC

CONSTANTS c1, c2, o1, r1, r2

MCDocuments == {c1, c2, o1}
MCCarrierFiles == {c1, c2}
MCOriginFiles == {o1}
MCRequests == {r1, r2}
Symmetry == Permutations(MCRequests)
===============================================================================
