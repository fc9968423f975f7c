----------------------------- MODULE MCCatalogue -----------------------------
(* Two products, two documents of two required codes, two connections.         *)
EXTENDS Catalogue

CONSTANTS c1, c2, r1, r2, d1, d2, p1, p2, a, b

Symmetry == Permutations({c1, c2}) \cup Permutations({r1, r2})
MCCodeOf == (d1 :> a) @@ (d2 :> b)
=============================================================================
