------------------------------ MODULE MCRecords ------------------------------
(***************************************************************************)
(* Records of a company whose tables do not meet, in one model: a behaviour is    *)
(* one of a single service of Served, and the tables of the others stay as they    *)
(* were. Audit packs have three, each a part of their behaviours: an overlapping    *)
(* generation of the first version, the review and issue of a completed one, and     *)
(* what follows on an issued one with a newer version.                             *)
(***************************************************************************)
EXTENDS Batches, Security, Criticality, AuditBundles

CONSTANTS Served, p1, p2, r1, r2, d1, d2, w1, w2, u1, u2, x1, a, b, e1

VARIABLES service                                     \* whose behaviour this is

packVars == <<generation, lifecycle>>
allVars == <<service, vars, securityVars, criticalityVars, packVars>>

(* The rows there are at first: two facilities and a supplier, with all that a score  *)
(* reads, a second model, and the score of a facility.                              *)
Heat(subject, place, band, percent) ==
    [kind |-> "climate", subject |-> subject, place |-> place, document |-> e1,
     hazard |-> "heat", scenario |-> "historical", band |-> band, percent |-> percent]
PlaceOf(subject) == [kind |-> "place", subject |-> subject, document |-> e1]
CarbonOf(subject) == [kind |-> "carbon", subject |-> subject, document |-> e1, covers |-> TRUE]
Approved(model) == [kind |-> "model", model |-> model, document |-> e1, approved |-> TRUE]
Lenient == [carbon |-> 50, climate |-> 30, dependency |-> 20, medium |-> 40, high |-> 70]
Strict == [carbon |-> 20, climate |-> 30, dependency |-> 50, medium |-> 10, high |-> 30]
Known == {Lenient, Strict}
Surveyed == <<
    [kind |-> "facility", reference |-> "north", document |-> e1],
    [kind |-> "facility", reference |-> "south", document |-> e1],
    [kind |-> "supplier", reference |-> "mill", document |-> e1],
    PlaceOf(1), PlaceOf(2), PlaceOf(3),
    Heat(1, 4, 1, 60), Heat(2, 5, 3, 40), Heat(3, 6, 2, 0),
    CarbonOf(1), CarbonOf(3), Approved(Lenient), Approved(Strict),
    [kind |-> "relationship", subject |-> 3, document |-> e1, effective |-> TRUE],
    [kind |-> "scored", score |-> weightedScore(Lenient, <<80, 80, 20>>),
     band |-> priorityBand(Lenient, <<80, 80, 20>>),
     basis |-> [step |-> "insert", subject |-> 1, model |-> 12, carbon |-> 10,
                relationship |-> 0, climate |-> {7}]]>>

RecordsInit ==
    /\ service \in Served
    /\ Init /\ SecurityInit /\ CriticalityInit
    /\ service # "batches" => routed
    /\ AuditInit
    /\ Created = {} <=> service \notin {"issuing", "succession"}
    /\ Issued = {} <=> service # "succession"
    /\ service # "generation" => name = a

RecordsNext ==
    /\ UNCHANGED service
    /\ \/ /\ service = "batches" /\ Next
          /\ UNCHANGED <<securityVars, criticalityVars, packVars>>
       \/ /\ service = "sessions" /\ SessionsNext
          /\ UNCHANGED <<ledgers, releases, acceptance, writes>>
          /\ UNCHANGED <<vars, criticalityVars, packVars>>
       \/ /\ service = "security" /\ SecurityNext
          /\ UNCHANGED <<vars, criticalityVars, packVars>>
       \/ /\ service = "criticality" /\ CriticalityNext
          /\ UNCHANGED <<vars, securityVars, packVars>>
       \/ /\ service \in {"generation", "issuing", "succession"} /\ AuditNext
          /\ service = "generation" => packs'[2] = NoPack /\ UNCHANGED lifecycle
          /\ service = "issuing" => UNCHANGED generation
          /\ service = "succession" =>
               UNCHANGED name /\ attempts' <= 1 /\ workers'[w2] = Rest /\ time' <= 3
          /\ UNCHANGED <<vars, securityVars, criticalityVars>>

RecordsSpec == RecordsInit /\ [][RecordsNext]_allVars

Interchangeable == Permutations({r1, r2})
=============================================================================
