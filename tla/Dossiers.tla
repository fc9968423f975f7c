------------------------------- MODULE Dossiers -------------------------------
(***************************************************************************)
(* A regulatory dossier of a shipment or company: numbered revisions that   *)
(* automated controls evaluate, reviews by people, and evidence of outside   *)
(* events. Seven kinds share the shape and nothing but the evidence          *)
(* documents: textile labels, GPSR files, REACH dossiers, PCF studies and    *)
(* environmental claims (exportShipmentService), corporate GHG inventories    *)
(* and EPR assessments. One dossier reference of one kind is modelled.       *)
(*                                                                         *)
(* A step is a statement. Only the numbering of a revision is a transaction; *)
(* a review and a list are several statements that see different states.     *)
(***************************************************************************)
EXTENDS Naturals, Sequences, FiniteSets, ControlledDocuments

CONSTANTS
    Requests,          \* concurrent HTTP requests
    ValidTo,           \* ValidTo[d]: last day of validity of a document
    Windows,           \* communication windows a claim may ask for
    MaxRows,           \* revisions and reviews together
    MaxCalculations, MaxEvents, LastDay  \* bounds

ASSUME WindowsAssumption == Windows \subseteq [from : Nat, until : Nat]
ASSUME LastDayAssumption == LastDay \in Nat

Kinds == {"label", "gpsr", "reach", "pcf", "claim", "ghg", "epr"}
Approved == "approved"
Decisions == {Approved, "refused", "withdrawn"}  \* refused: needs_information, rejected

VARIABLES
    kind,         \* which of the seven the dossier is
    today,        \* the day (claims only)
    calculation,  \* version of the latest product_assessment_snapshot (PCF only)
    revision,     \* the revisions, by number
    reviews,      \* the reviews, in the order of created_at
    events,       \* obligation, post-market and external events
    request       \* request[r]: where a request is and what it has read

vars == <<document, kind, today, calculation, revision, reviews, events, request>>
tables == <<document, kind, today, calculation, revision, reviews, events>>

Always == [from |-> 0, until |-> LastDay]
NoRow == [evidence |-> {}, status |-> "none", calculation |-> 0, window |-> Always]
NoReview == [n |-> 0, decision |-> "none", evidence |-> {}]
Idle == [step |-> "idle", n |-> 0, row |-> NoRow, review |-> NoReview,
         noted |-> {}, calculation |-> 0, answer |-> "none"]

Latest == Len(revision)
IsLastOf(n, i) == reviews[i].n = n /\ \A j \in (i + 1)..Len(reviews) : reviews[j].n # n
LatestReview(n) ==
    IF \E i \in DOMAIN reviews : IsLastOf(n, i)
    THEN reviews[CHOOSE i \in DOMAIN reviews : IsLastOf(n, i)] ELSE NoReview
EventsOf(n) == {e \in events : e.n = n}
Proofs == {e.proof : e \in events}

Room == Latest + Len(reviews) < MaxRows

Goto(r, state) == request' = [request EXCEPT ![r] = state]
Starts(r, state) == request[r].step = "idle" /\ Goto(r, state) /\ UNCHANGED tables

Init ==
    /\ document = [d \in Documents |-> "open"] /\ kind \in Kinds /\ today = 0 /\ calculation = 1
    /\ revision = <<>> /\ reviews = <<>> /\ events = {}
    /\ request = [r \in Requests |-> Idle]

-----------------------------------------------------------------------------
(* The automated controls. Everything the input itself decides is a choice.  *)
(* What is not ready never becomes approved, whatever keeps it from it:       *)
(* needs_information, specialist_review_required, blocked_prohibited,         *)
(* internal_draft. Ready stands for ready_for_label_review and the like.      *)

Ready == "ready"
NotReady == "not_ready"

Backed(docs) == docs # {} /\ docs \subseteq Controlled
ValidOn(docs, day) == \A d \in docs : ValidTo[d] >= day
Outcomes(sufficient) == IF sufficient THEN {NotReady, Ready} ELSE {NotReady}

evaluateTextileFibreLabel(docs) == Outcomes(Backed(docs))
evaluateGpsrTechnicalFile(docs) == Outcomes(Backed(docs))
evaluateReachDossier(docs) == Outcomes(Backed(docs))
evaluatePcfStudy(docs) == Outcomes(Backed(docs))
evaluateCorporateGhgInventory(docs) == Outcomes(Backed(docs))
evaluateEprAssessment(docs) == Outcomes(Backed(docs))
evaluateEnvironmentalClaim(docs, window) == Outcomes(Backed(docs) /\ ValidOn(docs, window.from))

(* The status a revision has under its latest review and today's evidence.  *)

Drifted(docs) == ~(docs \subseteq Controlled)
Stale == "evidence_review_required"

Reviewed(row, review, otherwise) ==
    IF row.status # Ready THEN row.status
    ELSE IF review = NoReview THEN "review_required"
    ELSE IF review.decision # Approved THEN review.decision
    ELSE otherwise
Bound(docs) == IF Drifted(docs) THEN Stale ELSE Approved

deriveArtworkStatus(row, review) == Reviewed(row, review, Bound(review.evidence))
deriveSafetyFileStatus(row, review) == Reviewed(row, review, Bound(review.evidence))
deriveReachReleaseStatus(row, review) == Reviewed(row, review, Bound(review.evidence))
deriveCorporateGhgStatus(row, review) == Reviewed(row, review, Bound(review.evidence))
derivePcfStudyStatus(row, review, latest) ==
    IF row.calculation # latest THEN "calculation_superseded"
    ELSE Reviewed(row, review, Bound(review.evidence))
deriveEprStatus(row, review, noted) ==
    Reviewed(row, review,
        IF Drifted(review.evidence \cup noted) THEN Stale
        ELSE IF noted # {} THEN "external_evidence_recorded" ELSE Approved)
derivePublicationStatus(row, review) ==
    Reviewed(row, review,
        IF Drifted(review.evidence) \/ ~ValidOn(review.evidence, today) THEN Stale
        ELSE IF row.window.until < today THEN "expired"
        ELSE IF row.window.from > today THEN "approved_scheduled" ELSE Approved)

Status(row, review, noted, latest) ==
    CASE kind = "label" -> deriveArtworkStatus(row, review)
      [] kind = "gpsr"  -> deriveSafetyFileStatus(row, review)
      [] kind = "reach" -> deriveReachReleaseStatus(row, review)
      [] kind = "ghg"   -> deriveCorporateGhgStatus(row, review)
      [] kind = "pcf"   -> derivePcfStudyStatus(row, review, latest)
      [] kind = "epr"   -> deriveEprStatus(row, review, noted)
      [] kind = "claim" -> derivePublicationStatus(row, review)

-----------------------------------------------------------------------------
(* Creating a revision. The evidence is read and evaluated first; all of it  *)
(* must be found. The transaction that numbers the revision comes after.     *)
(* What a revision that is not ready was evaluated with decides nothing.      *)

Evaluate(r, docs, status, version, window) ==
    LET row == [evidence |-> docs, status |-> status, calculation |-> version, window |-> window]
    IN  Starts(r, [Idle EXCEPT !.step = "evaluated",
                     !.row = IF status = Ready THEN row ELSE [NoRow EXCEPT !.status = status]])

createTextileFibreLabelSpecification(r) ==
    /\ kind = "label"
    /\ \E docs \in SUBSET Existing : \E status \in evaluateTextileFibreLabel(docs) :
          Evaluate(r, docs, status, 0, Always)
createGpsrTechnicalFileRevision(r) ==
    /\ kind = "gpsr"
    /\ \E docs \in SUBSET Existing : \E status \in evaluateGpsrTechnicalFile(docs) :
          Evaluate(r, docs, status, 0, Always)
createReachSvhcDossierRevision(r) ==
    /\ kind = "reach"
    /\ \E docs \in SUBSET Existing : \E status \in evaluateReachDossier(docs) :
          Evaluate(r, docs, status, 0, Always)
createPcfStudyRevision(r) ==     \* of any calculation bound to the shipment
    /\ kind = "pcf"
    /\ \E docs \in SUBSET Existing, version \in 1..calculation :
         \E status \in evaluatePcfStudy(docs) : Evaluate(r, docs, status, version, Always)
createEnvironmentalClaimDossier(r) ==
    /\ kind = "claim"
    /\ \E docs \in SUBSET Existing, window \in Windows :
         \E status \in evaluateEnvironmentalClaim(docs, window) :
           Evaluate(r, docs, status, 0, window)
createCorporateGhgRevision(r) ==
    /\ kind = "ghg"
    /\ \E docs \in SUBSET Existing : \E status \in evaluateCorporateGhgInventory(docs) :
          Evaluate(r, docs, status, 0, Always)
createEprRevision(r) ==
    /\ kind = "epr"
    /\ \E docs \in SUBSET Existing : \E status \in evaluateEprAssessment(docs) :
          Evaluate(r, docs, status, 0, Always)

NumberRevision_Unlocked(r) ==
    /\ request[r].step = "evaluated" /\ Room
    /\ Goto(r, [request[r] EXCEPT !.step = "numbered", !.n = Latest + 1])
    /\ UNCHANGED tables

(* pg_advisory_xact_lock on the reference, held to the end, and MAX + 1.     *)
NumberRevision(r) ==
    /\ request[r].step = "evaluated"
    /\ \A q \in Requests : request[q].step # "numbered"
    /\ Room
    /\ Goto(r, [request[r] EXCEPT !.step = "numbered", !.n = Latest + 1])
    /\ UNCHANGED tables

(* UNIQUE (reference, revision): a number that is taken aborts.              *)
InsertRevision(r) ==
    /\ request[r].step = "numbered" /\ request[r].n = Latest + 1 /\ Room
    /\ revision' = Append(revision, request[r].row)
    /\ Goto(r, Idle)
    /\ UNCHANGED <<document, kind, today, calculation, reviews, events>>

-----------------------------------------------------------------------------
(* Reviewing: read the revision, read its evidence, insert the review.       *)

StillLatest(n) == n = Latest /\ revision[n].status = Ready

Review(r, n, decision) ==
    /\ n \in 1..Latest
    /\ LET review == [n |-> n, decision |-> decision, evidence |-> {}]
       IN  IF decision = Approved
           THEN Starts(r, [Idle EXCEPT !.step = "reviewing", !.row = revision[n],
                                       !.review = review, !.calculation = calculation])
           ELSE Starts(r, [Idle EXCEPT !.step = "reviewed", !.review = review])
ReviewOf(r, n, decision) ==
    /\ decision # "withdrawn" /\ (decision = Approved => StillLatest(n))
    /\ Review(r, n, decision)

reviewTextileFibreLabelSpecification(r, n, decision) == kind = "label" /\ ReviewOf(r, n, decision)
reviewGpsrTechnicalFile(r, n, decision) == kind = "gpsr" /\ ReviewOf(r, n, decision)
reviewReachSvhcDossier(r, n, decision) == kind = "reach" /\ ReviewOf(r, n, decision)
reviewCorporateGhg(r, n, decision) == kind = "ghg" /\ ReviewOf(r, n, decision)
reviewEpr(r, n, decision) == kind = "epr" /\ ReviewOf(r, n, decision)
reviewPcfStudy(r, n, decision) ==
    /\ kind = "pcf"
    /\ decision = Approved => revision[n].calculation = calculation
    /\ ReviewOf(r, n, decision)
reviewEnvironmentalClaimDossier_AnyWithdrawal(r, n, decision) ==
    /\ kind = "claim"
    /\ decision = Approved => StillLatest(n)
    /\ Review(r, n, decision)
reviewEnvironmentalClaimDossier(r, n, decision) ==
    /\ kind = "claim"
    /\ decision = Approved => StillLatest(n)
    /\ decision = "withdrawn" => LatestReview(n).decision = Approved
    /\ Review(r, n, decision)

LoadEvidence_NotCompared(r) ==
    LET s == request[r]
        found == s.row.evidence \cap Existing
    IN  /\ s.step = "reviewing" /\ found # {}
        /\ Goto(r, [Idle EXCEPT !.step = "reviewed", !.review = [s.review EXCEPT !.evidence = found]])
        /\ UNCHANGED tables

(* An approval keeps the evidence rows that are still found, and is refused  *)
(* unless the evidence the revision was evaluated with still holds. Another   *)
(* decision keeps the rows as well, but they are never read.                 *)
LoadEvidence(r) ==
    LET s == request[r]
        found == s.row.evidence \cap Existing
    IN  /\ s.step = "reviewing" /\ found # {}
        /\ Status(s.row, [s.review EXCEPT !.evidence = s.row.evidence], {}, s.calculation)
             \in {Approved, "approved_scheduled"}
        /\ Goto(r, [Idle EXCEPT !.step = "reviewed", !.review = [s.review EXCEPT !.evidence = found]])
        /\ UNCHANGED tables

InsertReview(r) ==
    /\ request[r].step = "reviewed" /\ Room
    /\ reviews' = Append(reviews, request[r].review)
    /\ Goto(r, Idle)
    /\ UNCHANGED <<document, kind, today, calculation, revision, events>>

-----------------------------------------------------------------------------
(* Listing: one query for the rows, another for their evidence. Of the       *)
(* revisions only the latest is followed: the others read 'superseded'.      *)

List(r) ==
    /\ Latest > 0
    /\ Starts(r, [Idle EXCEPT !.step = "listing", !.n = Latest, !.row = revision[Latest],
         !.review = LatestReview(Latest), !.noted = {e.proof : e \in EventsOf(Latest)},
         !.calculation = calculation])

listTextileFibreLabelSpecifications(r) == kind = "label" /\ List(r)
listGpsrTechnicalFiles(r) == kind = "gpsr" /\ List(r)
listReachSvhcDossiers(r) == kind = "reach" /\ List(r)
listPcfStudies(r) == kind = "pcf" /\ List(r)
listEnvironmentalClaimDossiers(r) == kind = "claim" /\ List(r)
resolvePassportClaims(r) == kind = "claim" /\ List(r)   \* the public passport
listCorporateGhg(r) == kind = "ghg" /\ List(r)
listEpr(r) == kind = "epr" /\ List(r)

Released == {Approved, "external_evidence_recorded"}

Answer(r) ==     \* any other answer ends the request and is not kept
    LET s == request[r]
        status == Status(s.row, s.review, s.noted, s.calculation)
    IN  /\ s.step = "listing"
        /\ Goto(r, IF status \in Released
                   THEN [Idle EXCEPT !.step = "shown", !.n = s.n, !.answer = status] ELSE Idle)
        /\ UNCHANGED tables

(* Recording what happened outside. The proof must be controlled when it is  *)
(* read. An outbound REACH event and an EPR event first read the dossier as   *)
(* a list does, and need it released.                                        *)
CheckProof(r, d) ==
    /\ d \in Controlled
    /\ Goto(r, [request[r] EXCEPT !.step = "proved", !.noted = {d}])
    /\ UNCHANGED tables

recordReachObligationEvent_Unreleased(r, d) ==
    kind = "reach" /\ request[r].step \in {"listing", "shown"} /\ CheckProof(r, d)
recordReachObligationEvent(r, d) ==
    /\ kind = "reach" /\ request[r].step = "shown" /\ request[r].answer = Approved
    /\ CheckProof(r, d)
recordExternalEvent(r, d) ==
    /\ kind = "epr" /\ request[r].step = "shown"
    /\ request[r].answer \in Released
    /\ CheckProof(r, d)
recordGpsrPostMarketEvent(r, d) ==     \* which revision it names decides nothing
    /\ kind = "gpsr" /\ Latest > 0 /\ d \in Controlled
    /\ Starts(r, [Idle EXCEPT !.step = "proved", !.noted = {d}])

(* The proof is a foreign key: it must still exist.                          *)
InsertEvent(r) ==
    /\ request[r].step = "proved"
    /\ request[r].noted \subseteq Existing /\ Cardinality(events) < MaxEvents
    /\ events' = events \cup {[n |-> request[r].n, proof |-> d] : d \in request[r].noted}
    /\ Goto(r, Idle)
    /\ UNCHANGED <<document, kind, today, calculation, revision, reviews>>

(* The answer is sent, an error, a lost connection: a transaction rolls back. *)
End(r) == request[r].step # "idle" /\ Goto(r, Idle) /\ UNCHANGED tables

-----------------------------------------------------------------------------
(* Around the dossier.                                                      *)

ChangeDocument ==
    /\ \E d \in Documents : Lock(d) \/ Reopen(d) \/ (d \notin Proofs /\ Delete(d))
    /\ UNCHANGED <<kind, today, calculation, revision, reviews, events, request>>

NextDay ==
    /\ kind = "claim" /\ today < LastDay /\ today' = today + 1
    /\ UNCHANGED <<document, kind, calculation, revision, reviews, events, request>>

Recalculate ==
    /\ kind = "pcf" /\ calculation < MaxCalculations /\ calculation' = calculation + 1
    /\ UNCHANGED <<document, kind, today, revision, reviews, events, request>>

Create(r) ==
    \/ createTextileFibreLabelSpecification(r) \/ createGpsrTechnicalFileRevision(r)
    \/ createReachSvhcDossierRevision(r) \/ createPcfStudyRevision(r)
    \/ createEnvironmentalClaimDossier(r) \/ createCorporateGhgRevision(r) \/ createEprRevision(r)

BeginReview(r, n, decision) ==
    \/ reviewTextileFibreLabelSpecification(r, n, decision) \/ reviewGpsrTechnicalFile(r, n, decision)
    \/ reviewReachSvhcDossier(r, n, decision) \/ reviewPcfStudy(r, n, decision)
    \/ reviewEnvironmentalClaimDossier(r, n, decision)
    \/ reviewCorporateGhg(r, n, decision) \/ reviewEpr(r, n, decision)

BeginList(r) ==
    \/ listTextileFibreLabelSpecifications(r) \/ listGpsrTechnicalFiles(r)
    \/ listReachSvhcDossiers(r) \/ listPcfStudies(r) \/ listEnvironmentalClaimDossiers(r)
    \/ resolvePassportClaims(r) \/ listCorporateGhg(r) \/ listEpr(r)

Record(r, d) ==
    \/ recordReachObligationEvent(r, d) \/ recordExternalEvent(r, d)
    \/ recordGpsrPostMarketEvent(r, d)

RequestStep(r) ==
    \/ Create(r) \/ NumberRevision(r) \/ InsertRevision(r)
    \/ \E n \in 1..Latest, decision \in Decisions : BeginReview(r, n, decision)
    \/ LoadEvidence(r) \/ InsertReview(r)
    \/ BeginList(r) \/ Answer(r)
    \/ (\E d \in Documents : Record(r, d)) \/ InsertEvent(r) \/ End(r)

Next == (\E r \in Requests : RequestStep(r)) \/ ChangeDocument \/ NextDay \/ Recalculate

Spec == Init /\ [][Next]_vars

-----------------------------------------------------------------------------
(* A request that has computed a revision number will insert exactly that    *)
(* one: two revisions of a reference never compete for a number.             *)
NumberIsNext == \A r \in Requests : request[r].step = "numbered" => request[r].n = Latest + 1

Approvals(n) == {i \in DOMAIN reviews : reviews[i].n = n /\ reviews[i].decision = Approved}

(* Evidence of an outbound REACH communication or of an EPR event is only     *)
(* recorded for a revision that passed the controls and that a reviewer       *)
(* approved with all of the evidence it was evaluated with.                  *)
OutboundWasReleased ==
    kind \in {"reach", "epr"} => \A e \in events :
        /\ e.n \in 1..Latest /\ revision[e.n].status = Ready
        /\ \E i \in Approvals(e.n) : reviews[i].evidence = revision[e.n].evidence

(* A claim is withdrawn only after it was approved, also when other reviews   *)
(* come in between the check and the withdrawal.                             *)
WithdrawnWasApproved ==
    \A i \in DOMAIN reviews : reviews[i].decision = "withdrawn" =>
        \E j \in Approvals(reviews[i].n) : j < i

(* No list and no public passport ever shows a dossier as approved unless, at  *)
(* that moment, every document the revision was EVALUATED with is controlled   *)
(* (a claim: valid today, and today is in its window), although the status is  *)
(* computed from the evidence of the review, which omits deleted documents.    *)
ShowsApproved(r) ==
    request[r].step = "listing" /\ request'[r].step = "shown"
StandsToday(row) ==
    /\ row.status = Ready /\ Backed(row.evidence)
    /\ kind = "claim" => /\ ValidOn(row.evidence, today)
                         /\ row.window.from <= today /\ today <= row.window.until
ShownAsEvaluated == [][\A r \in Requests : ShowsApproved(r) => StandsToday(request[r].row)]_vars
===============================================================================
