----------------------------- MODULE Criticality -----------------------------
(***************************************************************************)
(* Climate and carbon criticality of a company's facilities and suppliers: a      *)
(* ledger of rows that are never changed, each on a document of evidence, and the  *)
(* portfolios that compare some of them. A row that is written alone is one step:  *)
(* what it refers to stays as it is, and a document that lapses between the check   *)
(* and the insert might as well lapse after it. A criticality score reads its model, *)
(* its carbon basis, its subject and its climate rows one after the other. Facility  *)
(* revisions come from the industrial core; texts, sources, coordinates and the       *)
(* numbers that nothing compares are left out.                                      *)
(***************************************************************************)
EXTENDS Naturals, Sequences, SequencesExt, FiniteSetsExt, TLC

CONSTANTS
    Documents,           \* evidence_documents
    Suppliers,           \* references of suppliers
    Hazards, Scenarios,  \* a scenario stands for its kind, reference, horizon, source and model
    Percents,            \* business_dependency_percent, of facilities only
    Scores,              \* normalized scores
    Models,              \* weights in percent and thresholds
    Ledger,              \* the rows there are at first
    MaxRows              \* bound: the rows of a behaviour

\* Percents and scores are whole, and a model is of numbers.
ASSUME CriticalityAssumption ==
    /\ Percents \subseteq Nat /\ Scores \subseteq Nat
    /\ \A model \in Models :
        model \in [carbon : Nat, climate : Nat, dependency : Nat, medium : Nat, high : Nat]

VARIABLES
    ledger,          \* the rows, of any kind, in the order of their inserts: an id is a place
    controlled,      \* the documents that are locked, with the checksum the rows have
    scoring,         \* the score under way: the read that is next, and what was read
    portfolios

criticalityVars == <<ledger, controlled, scoring, portfolios>>

NoScoring == [step |-> "none", subject |-> 0, model |-> 0, carbon |-> 0,
              relationship |-> 0, climate |-> {}]

CriticalityInit ==
    /\ ledger = Ledger /\ controlled = Documents
    /\ scoring = NoScoring /\ portfolios = {}

Rows(kind) == {i \in DOMAIN ledger : ledger[i].kind = kind}
Subjects == Rows("facility") \cup Rows("supplier")
Evidenced(i) == ledger[i].document \in controlled

\* Locked by its owner, or flagged for review again.
ChangeDocument ==
    /\ \E document \in Documents :
         controlled' = IF document \in controlled THEN controlled \ {document}
                       ELSE controlled \cup {document}
    /\ UNCHANGED <<ledger, scoring, portfolios>>

Insert(row) ==
    /\ Len(ledger) < MaxRows
    /\ ledger' = Append(ledger, row)
    /\ UNCHANGED <<controlled, portfolios>>

-----------------------------------------------------------------------------
(* Rows written alone.                                                       *)

createProfile ==
    /\ \E reference \in Suppliers, document \in controlled :
         Insert([kind |-> "supplier", reference |-> reference, document |-> document])
    /\ UNCHANGED scoring

\* Of any revision: a place of a supplier is a site, of a facility a location.
Place(kind) ==
    /\ \E subject \in Rows(kind), document \in controlled :
         Insert([kind |-> "place", subject |-> subject, document |-> document])
    /\ UNCHANGED scoring

createSite == Place("supplier")
createLocation == Place("facility")

createRelationship ==
    /\ \E subject \in Rows("supplier"), document \in controlled, effective \in BOOLEAN :
         Insert([kind |-> "relationship", subject |-> subject, document |-> document,
                 effective |-> effective])
    /\ UNCHANGED scoring

\* What a request may say of a climate row, of a supplier and of a facility.
climateAssessment == [hazard : Hazards, scenario : Scenarios, band : 1..3, percent : {0}]
assessment == [hazard : Hazards, scenario : Scenarios, band : 1..3, percent : Percents]

Climate(kind, request) ==
    /\ \E place \in Rows("place"), document \in controlled :
         /\ Evidenced(place) /\ ledger[ledger[place].subject].kind = kind
         /\ Insert([kind |-> "climate", subject |-> ledger[place].subject, place |-> place,
                    document |-> document, hazard |-> request.hazard,
                    scenario |-> request.scenario, band |-> request.band,
                    percent |-> request.percent])
    /\ UNCHANGED scoring

createSupplierClimate == \E request \in climateAssessment : Climate("supplier", request)
createAssessment == \E request \in assessment : Climate("facility", request)

createCarbonSnapshot ==
    /\ \E subject \in Subjects, document \in controlled, covers \in BOOLEAN :
        LET row == [kind |-> "carbon", subject |-> subject, document |-> document, covers |-> covers]
        IN  row \notin Range(ledger) /\ Insert(row)
    /\ UNCHANGED scoring

criticalityModel(model) ==
    model.carbon + model.climate + model.dependency = 100 /\ model.medium < model.high

createModel ==
    /\ \E model \in {m \in Models : criticalityModel(m)}, document \in controlled, approved \in BOOLEAN :
         Insert([kind |-> "model", model |-> model, document |-> document, approved |-> approved])
    /\ UNCHANGED scoring

-----------------------------------------------------------------------------
(* A score: what a request names is chosen where it is read, and a request that names  *)
(* anything else is refused there.                                                  *)

BeginCriticality ==
    /\ scoring = NoScoring /\ Len(ledger) < MaxRows
    /\ \E subject \in Subjects : scoring' = [NoScoring EXCEPT !.step = "model", !.subject = subject]
    /\ UNCHANGED <<ledger, controlled, portfolios>>

refuseCriticality ==
    /\ scoring # NoScoring /\ scoring' = NoScoring
    /\ UNCHANGED <<ledger, controlled, portfolios>>

ReadRow(step, next, fact, value) ==
    /\ scoring.step = step
    /\ scoring' = [scoring EXCEPT !.step = next, ![fact] = value]
    /\ UNCHANGED <<ledger, controlled, portfolios>>

readModel ==
    \E model \in Rows("model") :
        /\ ledger[model].approved /\ Evidenced(model)
        /\ ReadRow("model", "carbon", "model", model)

readCarbon ==
    \E carbon \in Rows("carbon") :
        /\ ledger[carbon].subject = scoring.subject
        /\ ledger[carbon].covers /\ Evidenced(carbon)
        /\ ReadRow("carbon", "subject", "carbon", carbon)

_criticalitySubject ==
    \/ /\ scoring.step = "subject" /\ ledger[scoring.subject].kind = "facility"
       /\ ReadRow("subject", "climate", "relationship", 0)
    \/ \E relationship \in Rows("relationship") :
        /\ ledger[relationship].subject = scoring.subject /\ ledger[relationship].effective
        /\ Evidenced(scoring.subject) /\ Evidenced(relationship)
        /\ ReadRow("subject", "climate", "relationship", relationship)

OneScenario(climate) == \A c, d \in climate : ledger[c].scenario = ledger[d].scenario

_criticalityClimate ==
    \E climate \in SUBSET Rows("climate") :
        /\ Cardinality(climate) \in 1..3 /\ OneScenario(climate)
        /\ \A c \in climate :
             ledger[c].subject = scoring.subject /\ Evidenced(c) /\ Evidenced(ledger[c].place)
        /\ \A c, d \in climate : c # d => ledger[c].hazard # ledger[d].hazard
                                         /\ ledger[c].percent = ledger[d].percent
        /\ ReadRow("climate", "insert", "climate", climate)

\* In hundredths, as the weights are percents.
weightedScore(model, scores) ==
    model.carbon * scores[1] + model.climate * scores[2] + model.dependency * scores[3]

bandOf(model, score) ==
    IF score >= model.high * 100 THEN 3 ELSE IF score >= model.medium * 100 THEN 2 ELSE 1

priorityBand(model, scores) == bandOf(model, weightedScore(model, scores))

\* An identical score is a duplicate.
createCriticality ==
    LET model == ledger[scoring.model].model
    IN  /\ scoring.step = "insert" /\ scoring' = NoScoring
        /\ \E scores \in [1..3 -> Scores] :
            LET row == [kind |-> "scored", basis |-> scoring,
                        score |-> weightedScore(model, scores), band |-> priorityBand(model, scores)]
            IN  row \notin Range(ledger) /\ Insert(row)

-----------------------------------------------------------------------------
(* Portfolios.                                                               *)

\* A variant, never taken: scores of any model are compared.
Comparable_AnyModel(first, i) ==
    \A c \in ledger[i].basis.climate, d \in ledger[first].basis.climate :
        ledger[c].scenario = ledger[d].scenario

Comparable(first, i) ==
    /\ ledger[i].basis.model = ledger[first].basis.model
    /\ \A c \in ledger[i].basis.climate, d \in ledger[first].basis.climate :
        ledger[c].scenario = ledger[d].scenario

createPortfolio ==
    /\ Cardinality(portfolios) < 1
    /\ \E members \in SUBSET Rows("scored") : \E first \in members :
        /\ Cardinality(members) >= 2
        /\ \A i, j \in members : i # j => ledger[i].basis.subject # ledger[j].basis.subject
        /\ \A i \in members : Comparable(first, i)
        /\ portfolios' = portfolios \cup {[kind |-> "criticality", members |-> members]}
    /\ UNCHANGED <<ledger, controlled, scoring>>

Facility(c) == ledger[ledger[c].subject].reference

\* The band of a facility, as the loop over the rows of members leaves it.
Worst(rows, facility) ==
    FoldLeft(LAMBDA band, c : IF Facility(c) = facility /\ ledger[c].band > band
                              THEN ledger[c].band ELSE band, 0, rows)

PercentOf(members, facility) ==
    ledger[CHOOSE c \in members : Facility(c) = facility].percent

createClimatePortfolio ==
    /\ Cardinality(portfolios) < 1
    /\ \E members \in SUBSET {c \in Rows("climate") : ledger[ledger[c].subject].kind = "facility"} :
        LET facilities == {Facility(c) : c \in members}
            percent == [f \in facilities |-> PercentOf(members, f)]
            Total(chosen) == SumFunctionOnSet(percent, chosen)
        IN  /\ \A c \in members : Evidenced(c) /\ Evidenced(ledger[c].place)
            /\ \A c, d \in members : c # d /\ Facility(c) = Facility(d) =>
                 /\ ledger[c].hazard # ledger[d].hazard
                 /\ ledger[c].subject = ledger[d].subject
                 /\ ledger[c].percent = ledger[d].percent
            /\ OneScenario(members)
            /\ Cardinality(facilities) >= 2 /\ Total(facilities) = 100
            /\ \E rows \in SetToSeqs(members) :
                 portfolios' = portfolios \cup
                   {[kind |-> "climate", members |-> members,
                     percents |-> [b \in 1..3 |-> Total({f \in facilities : Worst(rows, f) = b})]]}
    /\ UNCHANGED <<ledger, controlled, scoring>>

CriticalityNext ==
    \/ ChangeDocument
    \/ createProfile \/ createSite \/ createLocation \/ createRelationship
    \/ createSupplierClimate \/ createAssessment \/ createCarbonSnapshot \/ createModel
    \/ BeginCriticality \/ refuseCriticality \/ createCriticality
    \/ readModel \/ readCarbon \/ _criticalitySubject \/ _criticalityClimate
    \/ createPortfolio \/ createClimatePortfolio

CriticalitySpec == CriticalityInit /\ [][CriticalityNext]_criticalityVars

-----------------------------------------------------------------------------
(* Rows that the services can have written: a model is one that criticalityModel admits,  *)
(* a score has the band of its model and climate rows of one scenario.                   *)
ModelRight(model) == model \in Models /\ criticalityModel(model)

SameScenario(rows, places) ==
    /\ places # {} /\ places \subseteq DOMAIN rows
    /\ \A c, d \in places : rows[c].scenario = rows[d].scenario

ScoredRight(rows, row) ==
    /\ row.basis.model \in DOMAIN rows /\ rows[row.basis.model].kind = "model"
    /\ row.score \in Nat /\ row.band = bandOf(rows[row.basis.model].model, row.score)
    /\ SameScenario(rows, row.basis.climate)

RowsRight(rows) ==
    /\ rows \in Seq(Range(rows))
    /\ \A i \in DOMAIN rows :
        /\ rows[i].kind = "model" => ModelRight(rows[i].model)
        /\ rows[i].kind = "climate" => rows[i].band \in 1..3 /\ rows[i].percent \in Nat
        /\ rows[i].kind = "scored" => ScoredRight(rows, rows[i])

ASSUME LedgerAssumption == RowsRight(Ledger)

(* A portfolio of scores compares what can be compared ("one approved model, assessment *)
(* period and climate scenario/horizon", supplierNetworkService.js:410): a member with a  *)
(* higher score is in no lower band, and all their climate rows are of one scenario.     *)
ScoresCompare ==
    \A p \in portfolios : p.kind = "criticality" =>
       /\ \A i, j \in p.members : ledger[i].score > ledger[j].score => ledger[i].band >= ledger[j].band
       /\ OneScenario(UNION {ledger[i].basis.climate : i \in p.members})

(* The shares of a climate portfolio add up to the whole business, and the share of a    *)
(* facility counts in the worst band of its hazards (climateRiskService.js:145).         *)
SharesAddUp ==
    \A p \in portfolios : p.kind = "climate" =>
       /\ p.percents[1] + p.percents[2] + p.percents[3] = 100
       /\ \A c \in p.members : ledger[c].band = 3 => p.percents[3] >= ledger[c].percent

(* Both kinds of portfolio compare like with like.                                    *)
PortfoliosCompare == ScoresCompare /\ SharesAddUp
=============================================================================
