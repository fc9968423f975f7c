----------------------------- MODULE MCServices -----------------------------
(***************************************************************************)
(* Five services whose tables do not meet, in one model: a behaviour is one   *)
(* of a single service, and the tables of the others stay empty.             *)
(***************************************************************************)
EXTENDS WeaveNode, Accounts, Logistics, MeterHierarchy, Donations, TLC

CONSTANTS r1, r2, r3, s1, m1, m2, m3, h1, h2, h3, u1, u2, u3, e1, e2, c1, g1, g2

VARIABLES service                                     \* whose behaviour this is

(* A shirt, and a jacket with it; enough points for every level but the last. *)
Shirt == [points |-> 200, factor |-> 3, weight |-> 1]
Jacket == [points |-> 300, factor |-> 8, weight |-> 2]
Brought == {<<Shirt>>, <<Jacket, Shirt>>}

allVars == <<vars, hierarchyVars, accountsVars, logisticsVars, givingVars, service>>

ServicesInit ==
    /\ service \in {"weavenode", "hierarchy", "people", "logistics", "giving"}
    /\ Init /\ HierarchyInit /\ AccountsInit /\ LogisticsInit /\ GivingInit
    /\ service # "giving" => rewards = [u \in Donors |-> NoRewards]

(* References, meters, and accounts are interchangeable names: only  *)
(* the behaviours are followed that take them in this order.                 *)
Taken(order, names) ==
    \A i \in DOMAIN order : order[i] \in names => \A j \in 1..(i - 1) : order[j] \in names

MetersNamed ==
    UNION {{l.parent, l.child} : l \in
        UNION {{revisions[h][i] : i \in DOMAIN revisions[h]} : h \in {h1, h2, h3}}
        \cup {pending[r].link : r \in {r \in DOMAIN pending : pending[r].step # "none"}}}

MetersInOrder ==
    /\ Taken(<<h1, h2, h3>>, {h \in {h1, h2, h3} : revisions[h] # <<>>})
    /\ Taken(<<m1, m2, m3>>, MetersNamed)

AccountsInOrder == Taken(<<u1, u2, u3>>, {u \in {u1, u2, u3} : accounts[u] # Fresh})

ServicesNext ==
    /\ UNCHANGED service
    /\ \/ /\ service = "weavenode" /\ Next
          /\ UNCHANGED <<hierarchyVars, accountsVars, logisticsVars, givingVars>>
       \/ /\ service = "hierarchy" /\ HierarchyNext /\ MetersInOrder'
          /\ UNCHANGED <<vars, accountsVars, logisticsVars, givingVars>>
       \/ /\ service = "people" /\ AccountsNext /\ AccountsInOrder'
          /\ UNCHANGED <<vars, hierarchyVars, logisticsVars, givingVars>>
       \/ /\ service = "logistics" /\ LogisticsNext
          /\ UNCHANGED <<vars, hierarchyVars, accountsVars, givingVars>>
       \/ /\ service = "giving" /\ GivingNext
          /\ UNCHANGED <<vars, hierarchyVars, accountsVars, logisticsVars>>

ServicesSpec == ServicesInit /\ [][ServicesNext]_allVars

Interchangeable == Permutations({r1, r2})
=============================================================================
