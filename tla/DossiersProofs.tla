----------------------------- MODULE DossiersProofs -----------------------------
(***************************************************************************)
(* For any number of requests, documents, revisions and days: a revision gets a   *)
(* number nobody else computes, only what was approved is withdrawn, an outside    *)
(* event is recorded for a released revision, and what is shown as approved stands. *)
(* Revisions and reviews are only ever appended, so what a request has read of them *)
(* stays true; the invariant says, for each place a request can be at, what it has   *)
(* read.                                                                      *)
(***************************************************************************)
EXTENDS Dossiers, TLAPS

Steps == {"idle", "evaluated", "numbered", "reviewing", "reviewed", "listing", "shown", "proved"}
Spans == [from : Nat, until : Nat]
Rows == [evidence : SUBSET Documents, status : {"none", NotReady, Ready}, calculation : Nat,
         window : Spans]
ReviewRows == [n : Nat, decision : Decisions \cup {"none"}, evidence : SUBSET Documents]
Answers == Released \cup {"none"}
RequestStates ==
    [step : Steps, n : Nat, row : Rows, review : ReviewRows, noted : SUBSET Documents,
     calculation : Nat, answer : Answers]

TypeOK ==
    /\ kind \in Kinds /\ today \in Nat /\ calculation \in Nat
    /\ revision \in Seq(Rows) /\ reviews \in Seq(ReviewRows)
    /\ events \subseteq [n : Nat, proof : Documents]
    /\ request \in [Requests -> RequestStates]

\* A revision that is ready was evaluated with some evidence.
HasEvidence(row) == row.status = Ready => row.evidence # {}

\* An approval keeps the evidence of a revision that passed the controls.
Stands(review) ==
    /\ review.n \in 1..Latest /\ revision[review.n].status = Ready
    /\ review.evidence = revision[review.n].evidence

ReleasedNumber(n) ==
    /\ n \in 1..Latest /\ revision[n].status = Ready
    /\ \E i \in Approvals(n) : reviews[i].evidence = revision[n].evidence

\* What a request that is at a step has read.
Knows(s) ==
    /\ s.step \in {"evaluated", "numbered"} => HasEvidence(s.row)
    /\ s.step = "reviewing" => /\ s.review.decision = Approved /\ s.review.n \in 1..Latest
                               /\ s.row = revision[s.review.n] /\ s.row.status = Ready
    /\ s.step = "reviewed" => /\ s.review.decision = Approved => Stands(s.review)
                              /\ s.review.decision = "withdrawn" => Approvals(s.review.n) # {}
    /\ s.step = "listing" => /\ s.n \in 1..Latest /\ s.row = revision[s.n]
                             /\ \/ s.review = NoReview
                                \/ \E i \in DOMAIN reviews : s.review = reviews[i] /\ reviews[i].n = s.n
    /\ s.step = "shown" => ReleasedNumber(s.n)
    /\ s.step = "proved" /\ kind \in {"reach", "epr"} => ReleasedNumber(s.n)

OneNumbers ==
    \A q, r \in Requests : request[q].step = "numbered" /\ request[r].step = "numbered" => q = r
RevisionsInv == \A n \in 1..Latest : HasEvidence(revision[n])
ReviewsInv ==
    \A i \in DOMAIN reviews : reviews[i].decision = Approved => Stands(reviews[i])
EventsInv == kind \in {"reach", "epr"} => \A e \in events : ReleasedNumber(e.n)

IInv ==
    /\ TypeOK
    /\ OneNumbers /\ NumberIsNext
    /\ RevisionsInv /\ ReviewsInv /\ WithdrawnWasApproved /\ EventsInv
    /\ \A r \in Requests : Knows(request[r])
-----------------------------------------------------------------------------
(* The status of a revision.                                                *)

Passing == Released \cup {"approved_scheduled"}

LEMMA ReviewedPasses ==
    ASSUME NEW row \in Rows, NEW review \in ReviewRows, NEW otherwise,
           Reviewed(row, review, otherwise) \in Passing
    PROVE  /\ row.status = Ready /\ review.decision = Approved
           /\ Reviewed(row, review, otherwise) = otherwise
  BY DEF Reviewed, Passing, Released, Rows, ReviewRows, Ready, NotReady, Decisions, Approved

LEMMA BoundPasses ==
    ASSUME NEW docs, Bound(docs) \in Passing
    PROVE  docs \subseteq Controlled
  BY DEF Bound, Drifted, Stale, Passing, Released, Approved

\* A status that passes is that of an approved revision whose evidence is controlled; a
\* claim that reads approved is valid today and in its window.
LEMMA StatusPasses ==
    ASSUME NEW row \in Rows, NEW review \in ReviewRows, NEW noted, NEW latest, kind \in Kinds,
           Status(row, review, noted, latest) \in Passing
    PROVE  /\ row.status = Ready /\ review.decision = Approved
           /\ review.evidence \subseteq Controlled
           /\ kind = "claim" => ValidOn(review.evidence, today)
           /\ kind = "claim" /\ today \in Nat /\ Status(row, review, noted, latest) \in Released =>
                  row.window.from <= today /\ today <= row.window.until
  <1>1. CASE kind \in {"label", "gpsr", "reach", "ghg"}
    <2>1. Status(row, review, noted, latest) = Reviewed(row, review, Bound(review.evidence))
      BY <1>1 DEF Status, deriveArtworkStatus, deriveSafetyFileStatus, deriveReachReleaseStatus,
         deriveCorporateGhgStatus
    <2> QED
      BY <1>1, <2>1, ReviewedPasses, BoundPasses
  <1>2. CASE kind = "pcf"
    <2>1. Status(row, review, noted, latest) \in
             {"calculation_superseded", Reviewed(row, review, Bound(review.evidence))}
      BY <1>2 DEF Status, derivePcfStudyStatus
    <2>2. "calculation_superseded" \notin Passing
      BY DEF Passing, Released, Approved
    <2> QED
      BY <1>2, <2>1, <2>2, ReviewedPasses, BoundPasses
  <1>3. CASE kind = "epr"
    <2> DEFINE other == IF Drifted(review.evidence \cup noted) THEN Stale
                        ELSE IF noted # {} THEN "external_evidence_recorded" ELSE Approved
    <2>1. Status(row, review, noted, latest) = Reviewed(row, review, other)
      BY <1>3 DEF Status, deriveEprStatus
    <2>2. other \in Passing => review.evidence \subseteq Controlled
      BY DEF Passing, Released, Approved, Stale, Drifted
    <2> HIDE DEF other
    <2> QED
      BY <1>3, <2>1, <2>2, ReviewedPasses
  <1>4. CASE kind = "claim"
    <2> DEFINE other == IF Drifted(review.evidence) \/ ~ValidOn(review.evidence, today) THEN Stale
                        ELSE IF row.window.until < today THEN "expired"
                        ELSE IF row.window.from > today THEN "approved_scheduled" ELSE Approved
    <2>1. Status(row, review, noted, latest) = Reviewed(row, review, other)
      BY <1>4 DEF Status, derivePublicationStatus
    <2>2. other \in Passing => /\ review.evidence \subseteq Controlled
                               /\ ValidOn(review.evidence, today)
      BY DEF Passing, Released, Approved, Stale, Drifted
    <2>3. other \in Released => ~(row.window.until < today) /\ ~(row.window.from > today)
      BY DEF Released, Approved, Stale
    <2>4. row.window.from \in Nat /\ row.window.until \in Nat
      BY DEF Rows, Spans
    <2>5. other \in Released /\ today \in Nat =>
             row.window.from <= today /\ today <= row.window.until
      BY <2>3, <2>4
    <2> HIDE DEF other
    <2> QED
      BY <1>4, <2>1, <2>2, <2>5, ReviewedPasses
  <1> QED
    BY <1>1, <1>2, <1>3, <1>4 DEF Kinds

LEMMA ControlledExists == Controlled \subseteq Existing /\ Existing \subseteq Documents
  BY DEF Controlled, Existing

LEMMA LatestReviewIsOne ==
    ASSUME NEW n
    PROVE  LatestReview(n) = NoReview \/
           \E i \in DOMAIN reviews : LatestReview(n) = reviews[i] /\ reviews[i].n = n
  <1>1. CASE \E i \in DOMAIN reviews : IsLastOf(n, i)
    <2> DEFINE last == CHOOSE i \in DOMAIN reviews : IsLastOf(n, i)
    <2>1. last \in DOMAIN reviews /\ IsLastOf(n, last)
      BY <1>1
    <2>2. LatestReview(n) = reviews[last]
      BY <1>1 DEF LatestReview
    <2> HIDE DEF last
    <2> QED
      BY <2>1, <2>2 DEF IsLastOf
  <1>2. CASE ~\E i \in DOMAIN reviews : IsLastOf(n, i)
    BY <1>2 DEF LatestReview
  <1> QED
    BY <1>1, <1>2

-----------------------------------------------------------------------------
(* One request goes on. The tables stay as they are, or a row is appended.      *)

\* What a request knows survives the rows that others append.
Extends(longer, shorter) ==
    /\ Len(longer) >= Len(shorter)
    /\ \A i \in 1..Len(shorter) : longer[i] = shorter[i]

LEMMA KnowsOn ==
    ASSUME TypeOK, TypeOK', kind' = kind, NEW s \in RequestStates, Knows(s),
           Extends(revision', revision), Extends(reviews', reviews)
    PROVE  Knows(s)'
  <1> USE DEF Extends
  <1>1. /\ Len(revision) \in Nat /\ Len(revision') \in Nat /\ Len(reviews) \in Nat
        /\ Len(reviews') \in Nat /\ DOMAIN reviews = 1..Len(reviews)
        /\ DOMAIN reviews' = 1..Len(reviews')
    BY DEF TypeOK
  <1>2. \A n \in 1..Latest : n \in 1..Latest' /\ revision'[n] = revision[n]
    BY <1>1 DEF Latest
  <1>3. \A i \in DOMAIN reviews : i \in DOMAIN reviews' /\ reviews'[i] = reviews[i]
    BY <1>1
  <1>4. \A n : Approvals(n) \subseteq Approvals(n)'
    BY <1>3 DEF Approvals
  <1>5. \A review : Stands(review) => Stands(review)'
    BY <1>2 DEF Stands
  <1>6. \A n : ReleasedNumber(n) => ReleasedNumber(n)'
    <2> SUFFICES ASSUME NEW n, ReleasedNumber(n) PROVE ReleasedNumber(n)'
      OBVIOUS
    <2>1. PICK i \in Approvals(n) : reviews[i].evidence = revision[n].evidence
      BY DEF ReleasedNumber
    <2>2. i \in Approvals(n)' /\ reviews'[i] = reviews[i]
      BY <1>3, <1>4 DEF Approvals
    <2> QED
      BY <1>2, <2>1, <2>2 DEF ReleasedNumber
  <1> QED
    BY <1>2, <1>3, <1>4, <1>5, <1>6 DEF Knows

LEMMA IdleKnows ==
    /\ Idle \in RequestStates /\ Knows(Idle) /\ Idle.step = "idle"
    /\ NoRow \in Rows /\ NoReview \in ReviewRows
  <1>1. NoRow \in Rows
    BY LastDayAssumption DEF NoRow, Rows, Always, Spans
  <1>2. NoReview \in ReviewRows
    BY DEF NoReview, ReviewRows
  <1>3. Idle \in RequestStates /\ Idle.step = "idle"
    BY <1>1, <1>2 DEF Idle, RequestStates, Steps, Answers
  <1> QED
    BY <1>1, <1>2, <1>3 DEF Knows

\* A request that goes on over the tables as they are.
LEMMA RequestGoes ==
    ASSUME IInv, NEW r \in Requests, NEW state \in RequestStates, Goto(r, state), Knows(state),
           state.step # "numbered", UNCHANGED tables
    PROVE  IInv'
  <1>1. UNCHANGED <<kind, today, calculation, revision, reviews, events>>
    BY DEF tables
  <1>2. request' \in [Requests -> RequestStates] /\ request'[r] = state
        /\ \A q \in Requests \ {r} : request'[q] = request[q]
    BY DEF IInv, TypeOK, Goto
  <1>3. TypeOK'
    BY <1>1, <1>2 DEF IInv, TypeOK
  <1>4. OneNumbers' /\ NumberIsNext'
    BY <1>1, <1>2 DEF IInv, OneNumbers, NumberIsNext, Latest
  <1>5. RevisionsInv' /\ ReviewsInv' /\ WithdrawnWasApproved' /\ EventsInv'
    BY <1>1 DEF IInv, RevisionsInv, ReviewsInv, WithdrawnWasApproved, EventsInv, Stands, Approvals,
       ReleasedNumber, Latest, HasEvidence
  <1>6. ASSUME NEW q \in Requests PROVE Knows(request[q])'
    <2>1. Knows(request'[q])
      <3>1. CASE q = r
        BY <1>2, <3>1
      <3>2. CASE q # r
        BY <1>2, <3>2 DEF IInv
      <3> QED
        BY <3>1, <3>2
    <2> QED
      BY <1>1, <2>1 DEF Knows, Stands, Approvals, ReleasedNumber, Latest, HasEvidence
  <1> QED
    BY <1>3, <1>4, <1>5, <1>6 DEF IInv

\* What holds of the others when a request ends with a row appended.
LEMMA RequestEnds ==
    ASSUME IInv, NEW r \in Requests, Goto(r, Idle), TypeOK', kind' = kind,
           Extends(revision', revision), Extends(reviews', reviews)
    PROVE  /\ \A q \in Requests : Knows(request[q])'
           /\ OneNumbers'
           /\ \A q \in Requests : request'[q].step = "numbered" =>
                 q # r /\ request[q].step = "numbered" /\ request'[q].n = request[q].n
  <1>1. request'[r] = Idle /\ \A q \in Requests \ {r} : request'[q] = request[q]
    BY DEF IInv, TypeOK, Goto
  <1>2. \A q \in Requests : request[q] \in RequestStates /\ Knows(request[q])
    BY DEF IInv, TypeOK
  <1>3. \A s \in RequestStates : Knows(s) => Knows(s)'
    BY KnowsOn DEF IInv
  <1>4. Knows(Idle)'
    BY <1>3, IdleKnows
  <1>5. ASSUME NEW q \in Requests PROVE Knows(request[q])'
    <2>1. CASE q = r
      BY <1>1, <1>4, <2>1 DEF Knows
    <2>2. CASE q # r
      BY <1>1, <1>2, <1>3, <2>2 DEF Knows
    <2> QED
      BY <2>1, <2>2
  <1> QED
    BY <1>1, <1>5, IdleKnows DEF IInv, OneNumbers

-----------------------------------------------------------------------------
(* Creating a revision.                                                      *)

LEMMA CreateStep ==
    ASSUME IInv, NEW r \in Requests, Create(r)
    PROVE  IInv'
  <1>1. ASSUME NEW docs \in SUBSET Existing, NEW status \in {NotReady, Ready}, NEW version \in Nat,
               NEW window \in Spans, status = Ready => docs # {},
               Evaluate(r, docs, status, version, window)
        PROVE  IInv'
    <2> DEFINE row == [evidence |-> docs, status |-> status, calculation |-> version, window |-> window]
               kept == IF status = Ready THEN row ELSE [NoRow EXCEPT !.status = status]
               state == [Idle EXCEPT !.step = "evaluated", !.row = kept]
    <2>1. row \in Rows /\ HasEvidence(row)
      BY <1>1, ControlledExists DEF Rows, HasEvidence
    <2>2. [NoRow EXCEPT !.status = NotReady] \in Rows /\ HasEvidence([NoRow EXCEPT !.status = NotReady])
      BY IdleKnows DEF Rows, HasEvidence, NotReady, Ready
    <2>3. kept \in Rows /\ HasEvidence(kept)
      BY <2>1, <2>2
    <2>4. state \in RequestStates /\ state.step = "evaluated" /\ state.row = kept
      BY <2>3, IdleKnows DEF RequestStates, Steps
    <2>5. Goto(r, state) /\ UNCHANGED tables
      BY <1>1 DEF Evaluate, Starts
    <2> HIDE DEF state, kept, row
    <2>6. Knows(state)
      BY <2>3, <2>4 DEF Knows
    <2> QED
      BY <2>4, <2>5, <2>6, RequestGoes
  <1>2. Always \in Spans /\ Windows \subseteq Spans
    BY WindowsAssumption, LastDayAssumption DEF Always, Spans
  <1>3. 1..calculation \subseteq Nat
    BY DEF IInv, TypeOK
  <1>4. \A docs, status, sufficient :
            status \in Outcomes(sufficient) /\ (sufficient => Backed(docs)) =>
               status \in {NotReady, Ready} /\ (status = Ready => docs # {})
    BY DEF Outcomes, Backed, Ready, NotReady
  <1>5. CASE \/ createTextileFibreLabelSpecification(r) \/ createGpsrTechnicalFileRevision(r)
             \/ createReachSvhcDossierRevision(r) \/ createCorporateGhgRevision(r)
             \/ createEprRevision(r)
    <2>1. PICK docs \in SUBSET Existing : \E status \in Outcomes(Backed(docs)) :
             Evaluate(r, docs, status, 0, Always)
      BY <1>5 DEF createTextileFibreLabelSpecification, createGpsrTechnicalFileRevision,
         createReachSvhcDossierRevision, createCorporateGhgRevision, createEprRevision,
         evaluateTextileFibreLabel, evaluateGpsrTechnicalFile, evaluateReachDossier,
         evaluateCorporateGhgInventory, evaluateEprAssessment
    <2> QED
      BY <1>1, <1>2, <1>4, <2>1
  <1>6. CASE createPcfStudyRevision(r)
    <2>1. PICK docs \in SUBSET Existing, version \in 1..calculation, status \in {NotReady, Ready} :
             status \in Outcomes(Backed(docs)) /\ Evaluate(r, docs, status, version, Always)
      BY <1>6 DEF createPcfStudyRevision, evaluatePcfStudy, Outcomes, Ready, NotReady
    <2>2. status \in {NotReady, Ready} /\ (status = Ready => docs # {}) /\ version \in Nat
      BY <1>3, <1>4, <2>1
    <2> QED
      BY <1>1, <1>2, <2>1, <2>2
  <1>7. CASE createEnvironmentalClaimDossier(r)
    <2>1. PICK docs \in SUBSET Existing, window \in Windows, status \in {NotReady, Ready} :
             /\ status \in Outcomes(Backed(docs) /\ ValidOn(docs, window.from))
             /\ Evaluate(r, docs, status, 0, window)
      BY <1>7 DEF createEnvironmentalClaimDossier, evaluateEnvironmentalClaim, Outcomes, Ready, NotReady
    <2>2. status \in {NotReady, Ready} /\ (status = Ready => docs # {})
      BY <2>1 DEF Outcomes, Backed, Ready, NotReady
    <2> QED
      BY <1>1, <1>2, <2>1, <2>2
  <1> QED
    BY <1>5, <1>6, <1>7 DEF Create

\* The lock is held until the number is used: no other request has one.
LEMMA NumberStep ==
    ASSUME IInv, NEW r \in Requests, NumberRevision(r)
    PROVE  IInv'
  <1> DEFINE state == [request[r] EXCEPT !.step = "numbered", !.n = Latest + 1]
  <1>1. /\ request'[r] = state /\ \A q \in Requests \ {r} : request'[q] = request[q]
        /\ UNCHANGED <<kind, today, calculation, revision, reviews, events>>
    BY DEF IInv, TypeOK, NumberRevision, Goto, tables
  <1>2. /\ state \in RequestStates /\ state.step = "numbered" /\ state.n = Latest + 1
        /\ state.row = request[r].row
    <2>1. request[r] \in RequestStates /\ Latest + 1 \in Nat
      BY DEF IInv, TypeOK, Latest
    <2> QED
      BY <2>1 DEF RequestStates, Steps
  <1>3. Knows(state)
    <2>1. HasEvidence(request[r].row)
      BY DEF IInv, Knows, NumberRevision
    <2> HIDE DEF state
    <2> QED
      BY <1>2, <2>1 DEF Knows
  <1> HIDE DEF state
  <1>4. TypeOK'
    BY <1>1, <1>2 DEF IInv, TypeOK, NumberRevision, Goto
  <1>5. OneNumbers' /\ NumberIsNext'
    BY <1>1, <1>2 DEF IInv, OneNumbers, NumberIsNext, Latest, NumberRevision
  <1>6. RevisionsInv' /\ ReviewsInv' /\ WithdrawnWasApproved' /\ EventsInv'
    BY <1>1 DEF IInv, RevisionsInv, ReviewsInv, WithdrawnWasApproved, EventsInv, Stands, Approvals,
       ReleasedNumber, Latest, HasEvidence
  <1>7. ASSUME NEW q \in Requests PROVE Knows(request[q])'
    <2>1. Knows(request'[q])
      <3>1. CASE q = r
        BY <1>1, <1>3, <3>1
      <3>2. CASE q # r
        BY <1>1, <3>2 DEF IInv
      <3> QED
        BY <3>1, <3>2
    <2> QED
      BY <1>1, <2>1 DEF Knows, Stands, Approvals, ReleasedNumber, Latest, HasEvidence
  <1> QED
    BY <1>4, <1>5, <1>6, <1>7 DEF IInv

LEMMA InsertRevisionStep ==
    ASSUME IInv, NEW r \in Requests, InsertRevision(r)
    PROVE  IInv'
  <1> DEFINE row == request[r].row
  <1>1. /\ row \in Rows /\ HasEvidence(row) /\ Latest \in Nat
        /\ revision' = Append(revision, row)
        /\ UNCHANGED <<kind, today, calculation, reviews, events>>
    BY DEF IInv, TypeOK, RequestStates, InsertRevision, Knows, Latest
  <1> HIDE DEF row
  <1>2. /\ revision' \in Seq(Rows) /\ Latest' = Latest + 1 /\ revision'[Latest + 1] = row
        /\ \A n \in 1..Latest : revision'[n] = revision[n]
    BY <1>1 DEF IInv, TypeOK, Latest
  <1>3. TypeOK'
    BY <1>1, <1>2, IdleKnows DEF IInv, TypeOK, InsertRevision, Goto
  <1>4. Extends(revision', revision) /\ Extends(reviews', reviews)
    BY <1>1, <1>2 DEF Extends, Latest, IInv, TypeOK
  <1>5. /\ \A q \in Requests : Knows(request[q])'
        /\ OneNumbers'
        /\ \A q \in Requests : request'[q].step = "numbered" => q # r /\ request[q].step = "numbered"
    BY <1>1, <1>3, <1>4, RequestEnds DEF InsertRevision
  <1>6. NumberIsNext'
    BY <1>5 DEF IInv, OneNumbers, NumberIsNext, InsertRevision
  <1>7. RevisionsInv'
    BY <1>1, <1>2 DEF IInv, RevisionsInv, HasEvidence, Latest
  <1>8. ReviewsInv'
    BY <1>1, <1>2 DEF IInv, ReviewsInv, Stands, Latest
  <1>9. WithdrawnWasApproved'
    BY <1>1 DEF IInv, WithdrawnWasApproved, Approvals
  <1>10. EventsInv'
    BY <1>1, <1>2 DEF IInv, EventsInv, ReleasedNumber, Approvals, Latest
  <1> QED
    BY <1>3, <1>5, <1>6, <1>7, <1>8, <1>9, <1>10 DEF IInv

-----------------------------------------------------------------------------
(* Reviewing.                                                                *)

LEMMA BeginReviewStep ==
    ASSUME IInv, NEW r \in Requests, NEW n \in 1..Latest, NEW decision \in Decisions,
           BeginReview(r, n, decision)
    PROVE  IInv'
  <1>1. /\ Review(r, n, decision)
        /\ decision = Approved => StillLatest(n)
        /\ decision = "withdrawn" => LatestReview(n).decision = Approved
    BY DEF BeginReview, reviewTextileFibreLabelSpecification, reviewGpsrTechnicalFile,
       reviewReachSvhcDossier, reviewPcfStudy, reviewEnvironmentalClaimDossier, reviewCorporateGhg,
       reviewEpr, ReviewOf
  <1> DEFINE review == [n |-> n, decision |-> decision, evidence |-> {}]
  <1>2. review \in ReviewRows /\ review.n = n /\ review.decision = decision
    BY DEF ReviewRows, Latest, IInv, TypeOK
  <1>3. revision[n] \in Rows /\ calculation \in Nat
    BY DEF IInv, TypeOK, Latest
  <1>4. CASE decision = Approved
    <2> DEFINE state == [Idle EXCEPT !.step = "reviewing", !.row = revision[n], !.review = review,
                                     !.calculation = calculation]
    <2>1. Goto(r, state) /\ UNCHANGED tables
      BY <1>1, <1>4 DEF Review, Starts
    <2> HIDE DEF review
    <2>2. /\ state \in RequestStates /\ state.step = "reviewing" /\ state.row = revision[n]
          /\ state.review = review
      BY <1>2, <1>3, IdleKnows DEF RequestStates, Steps
    <2> HIDE DEF state
    <2>3. Knows(state)
      BY <1>1, <1>2, <1>4, <2>2 DEF Knows, StillLatest
    <2> QED
      BY <2>1, <2>2, <2>3, RequestGoes
  <1>5. CASE decision # Approved
    <2> DEFINE state == [Idle EXCEPT !.step = "reviewed", !.review = review]
    <2>1. Goto(r, state) /\ UNCHANGED tables
      BY <1>1, <1>5 DEF Review, Starts
    <2> HIDE DEF review
    <2>2. state \in RequestStates /\ state.step = "reviewed" /\ state.review = review
      BY <1>2, IdleKnows DEF RequestStates, Steps
    <2> HIDE DEF state
    <2>3. decision = "withdrawn" => Approvals(n) # {}
      <3>1. NoReview.decision # Approved
        BY DEF NoReview, Approved
      <3> QED
        BY <1>1, <3>1, LatestReviewIsOne DEF Approvals
    <2>4. Knows(state)
      BY <1>2, <1>5, <2>2, <2>3 DEF Knows
    <2> QED
      BY <2>1, <2>2, <2>4, RequestGoes
  <1> QED
    BY <1>4, <1>5

\* The evidence a revision was evaluated with is found whole, or the approval is refused.
LEMMA LoadEvidenceStep ==
    ASSUME IInv, NEW r \in Requests, LoadEvidence(r)
    PROVE  IInv'
  <1> DEFINE s == request[r]
             found == s.row.evidence \cap Existing
             review == [s.review EXCEPT !.evidence = found]
             whole == [s.review EXCEPT !.evidence = s.row.evidence]
             state == [Idle EXCEPT !.step = "reviewed", !.review = review]
  <1>1. s \in RequestStates /\ s.row \in Rows /\ s.review \in ReviewRows /\ kind \in Kinds
    BY DEF IInv, TypeOK, RequestStates
  <1>2. /\ s.review.decision = Approved /\ s.review.n \in 1..Latest
        /\ s.row = revision[s.review.n] /\ s.row.status = Ready
    BY DEF IInv, Knows, LoadEvidence
  <1>3. /\ whole \in ReviewRows /\ whole.evidence = s.row.evidence
        /\ review \in ReviewRows /\ review.evidence = found
        /\ review.n = s.review.n /\ review.decision = s.review.decision
    BY <1>1, ControlledExists DEF ReviewRows, Rows
  <1>4. Goto(r, state) /\ UNCHANGED tables
        /\ Status(s.row, whole, {}, s.calculation) \in {Approved, "approved_scheduled"}
    BY DEF LoadEvidence
  <1> HIDE DEF review, whole
  <1>5. s.row.evidence \subseteq Controlled
    <2>1. Status(s.row, whole, {}, s.calculation) \in Passing
      BY <1>4 DEF Passing, Released
    <2> HIDE DEF s
    <2> QED
      BY <1>1, <1>3, <2>1, StatusPasses
  <1>6. found = s.row.evidence
    BY <1>5, ControlledExists
  <1>7. state \in RequestStates /\ state.step = "reviewed" /\ state.review = review
    BY <1>3, IdleKnows DEF RequestStates, Steps
  <1>8. Stands(review) /\ review.decision = Approved
    BY <1>2, <1>3, <1>6 DEF Stands
  <1> HIDE DEF state
  <1>9. Knows(state)
    BY <1>7, <1>8 DEF Knows, Approved
  <1> QED
    BY <1>4, <1>7, <1>9, RequestGoes

LEMMA InsertReviewStep ==
    ASSUME IInv, NEW r \in Requests, InsertReview(r)
    PROVE  IInv'
  <1> DEFINE review == request[r].review
             last == Len(reviews) + 1
  <1>1. /\ review \in ReviewRows
        /\ review.decision = Approved => Stands(review)
        /\ review.decision = "withdrawn" => Approvals(review.n) # {}
        /\ reviews' = Append(reviews, review)
        /\ UNCHANGED <<kind, today, calculation, revision, events>>
    BY DEF IInv, TypeOK, RequestStates, InsertReview, Knows
  <1> HIDE DEF review
  <1>2. /\ reviews \in Seq(ReviewRows) /\ Len(reviews) \in Nat /\ DOMAIN reviews = 1..Len(reviews)
        /\ reviews' \in Seq(ReviewRows) /\ DOMAIN reviews' = 1..last /\ reviews'[last] = review
        /\ \A i \in 1..Len(reviews) : reviews'[i] = reviews[i]
        /\ Len(reviews') = last
    BY <1>1 DEF IInv, TypeOK
  <1>3. TypeOK'
    BY <1>1, <1>2, IdleKnows DEF IInv, TypeOK, InsertReview, Goto
  <1>4. Extends(revision', revision) /\ Extends(reviews', reviews)
    BY <1>1, <1>2 DEF Extends, IInv, TypeOK
  <1>5. /\ \A q \in Requests : Knows(request[q])'
        /\ OneNumbers'
        /\ \A q \in Requests : request'[q].step = "numbered" =>
              request[q].step = "numbered" /\ request'[q].n = request[q].n
    BY <1>1, <1>3, <1>4, RequestEnds DEF InsertReview
  <1>6. NumberIsNext'
    BY <1>1, <1>5 DEF IInv, NumberIsNext, Latest
  <1>7. RevisionsInv'
    BY <1>1 DEF IInv, RevisionsInv, HasEvidence, Latest
  <1>8. ReviewsInv'
    <2>1. ASSUME NEW i \in DOMAIN reviews', reviews'[i].decision = Approved
          PROVE  Stands(reviews[i])'
      <3>1. CASE i = last
        BY <1>1, <1>2, <2>1, <3>1 DEF Stands, Latest
      <3>2. CASE i \in DOMAIN reviews
        BY <1>1, <1>2, <2>1, <3>2 DEF IInv, ReviewsInv, Stands, Latest
      <3> QED
        BY <1>2, <3>1, <3>2
    <2> QED
      BY <2>1 DEF ReviewsInv
  <1>9. WithdrawnWasApproved'
    <2>1. \A n : Approvals(n) \subseteq Approvals(n)' /\ Approvals(n) \subseteq 1..Len(reviews)
      BY <1>2 DEF Approvals
    <2>2. ASSUME NEW i \in DOMAIN reviews', reviews'[i].decision = "withdrawn"
          PROVE  \E j \in Approvals(reviews[i].n)' : j < i
      <3>1. CASE i = last
        <4>1. review.decision = "withdrawn" /\ reviews'[i] = review
          BY <1>2, <2>2, <3>1
        <4>2. PICK j \in Approvals(review.n) : TRUE
          BY <1>1, <4>1
        <4>3. j < i
          BY <1>2, <2>1, <3>1, <4>2
        <4> QED
          BY <2>1, <4>1, <4>2, <4>3
      <3>2. CASE i \in DOMAIN reviews
        <4>1. \E j \in Approvals(reviews[i].n) : j < i
          BY <1>2, <2>2, <3>2 DEF IInv, WithdrawnWasApproved
        <4> QED
          BY <1>2, <2>1, <3>2, <4>1
      <3> QED
        BY <1>2, <3>1, <3>2
    <2> QED
      BY <2>2 DEF WithdrawnWasApproved, Approvals
  <1>10. EventsInv'
    <2>1. ASSUME NEW n, ReleasedNumber(n) PROVE ReleasedNumber(n)'
      <3>1. PICK i \in Approvals(n) : reviews[i].evidence = revision[n].evidence
        BY <2>1 DEF ReleasedNumber
      <3>2. i \in Approvals(n)' /\ reviews'[i] = reviews[i]
        BY <1>2 DEF Approvals
      <3> QED
        BY <1>1, <2>1, <3>1, <3>2 DEF ReleasedNumber, Latest
    <2> QED
      BY <1>1, <2>1 DEF IInv, EventsInv, ReleasedNumber
  <1> QED
    BY <1>3, <1>5, <1>6, <1>7, <1>8, <1>9, <1>10 DEF IInv

-----------------------------------------------------------------------------
(* Listing, and recording what happened outside.                              *)

LEMMA ListStep ==
    ASSUME IInv, NEW r \in Requests, BeginList(r)
    PROVE  IInv'
  <1> DEFINE noted == {e.proof : e \in EventsOf(Latest)}
             state == [Idle EXCEPT !.step = "listing", !.n = Latest, !.row = revision[Latest],
                         !.review = LatestReview(Latest), !.noted = noted,
                         !.calculation = calculation]
  <1>1. Latest > 0 /\ Goto(r, state) /\ UNCHANGED tables
    BY DEF BeginList, listTextileFibreLabelSpecifications, listGpsrTechnicalFiles,
       listReachSvhcDossiers, listPcfStudies, listEnvironmentalClaimDossiers, resolvePassportClaims,
       listCorporateGhg, listEpr, List, Starts
  <1>2. /\ Latest \in 1..Latest /\ Latest \in Nat /\ revision[Latest] \in Rows
        /\ calculation \in Nat /\ noted \subseteq Documents
    BY <1>1 DEF IInv, TypeOK, Latest, EventsOf
  <1>3. LatestReview(Latest) \in ReviewRows
    BY IdleKnows, LatestReviewIsOne DEF IInv, TypeOK
  <1> HIDE DEF noted
  <1>4. /\ state \in RequestStates /\ state.step = "listing" /\ state.n = Latest
        /\ state.row = revision[Latest] /\ state.review = LatestReview(Latest)
    BY <1>2, <1>3, IdleKnows DEF RequestStates, Steps
  <1> HIDE DEF state
  <1>5. Knows(state)
    BY <1>2, <1>4, LatestReviewIsOne DEF Knows
  <1> QED
    BY <1>1, <1>4, <1>5, RequestGoes

\* A list that answers released has read an approval with all of the evidence.
LEMMA AnswerReleased ==
    ASSUME IInv, NEW r \in Requests, request[r].step = "listing",
           Status(request[r].row, request[r].review, request[r].noted, request[r].calculation)
             \in Released
    PROVE  /\ ReleasedNumber(request[r].n) /\ StandsToday(request[r].row)
  <1> DEFINE s == request[r]
  <1>1. s \in RequestStates /\ s.row \in Rows /\ s.review \in ReviewRows /\ kind \in Kinds
        /\ today \in Nat
    BY DEF IInv, TypeOK, RequestStates
  <1>2. /\ s.n \in 1..Latest /\ s.row = revision[s.n]
        /\ s.review = NoReview \/ \E i \in DOMAIN reviews : s.review = reviews[i] /\ reviews[i].n = s.n
    BY DEF IInv, Knows
  <1>3. /\ s.row.status = Ready /\ s.review.decision = Approved /\ s.review.evidence \subseteq Controlled
        /\ kind = "claim" => /\ ValidOn(s.review.evidence, today)
                             /\ s.row.window.from <= today /\ today <= s.row.window.until
    <2>1. Status(s.row, s.review, s.noted, s.calculation) \in Passing
      BY DEF Passing
    <2> HIDE DEF s
    <2>2. Status(s.row, s.review, s.noted, s.calculation) \in Released
      BY DEF s
    <2> QED
      BY <1>1, <2>1, <2>2, StatusPasses
  <1>4. PICK i \in DOMAIN reviews : s.review = reviews[i] /\ reviews[i].n = s.n
    BY <1>2, <1>3 DEF NoReview, Approved
  <1>5. s.review.evidence = s.row.evidence
    BY <1>2, <1>3, <1>4 DEF IInv, ReviewsInv, Stands
  <1>6. ReleasedNumber(s.n)
    BY <1>2, <1>3, <1>4, <1>5 DEF ReleasedNumber, Approvals
  <1>7. s.row.evidence # {}
    BY <1>2, <1>3 DEF IInv, RevisionsInv, HasEvidence
  <1>8. StandsToday(s.row)
    BY <1>3, <1>5, <1>7 DEF StandsToday, Backed
  <1> QED
    BY <1>6, <1>8

LEMMA AnswerStep ==
    ASSUME IInv, NEW r \in Requests, Answer(r)
    PROVE  IInv'
  <1> DEFINE s == request[r]
             status == Status(s.row, s.review, s.noted, s.calculation)
             shown == [Idle EXCEPT !.step = "shown", !.n = s.n, !.answer = status]
  <1>1. /\ s.step = "listing" /\ UNCHANGED tables
        /\ (status \in Released /\ Goto(r, shown)) \/ Goto(r, Idle)
    BY DEF Answer
  <1>2. s \in RequestStates
    BY DEF IInv, TypeOK
  <1>3. CASE status \in Released /\ Goto(r, shown)
    <2>1. ReleasedNumber(s.n)
      BY <1>1, <1>3, AnswerReleased
    <2> HIDE DEF status
    <2>2. shown \in RequestStates /\ shown.step = "shown" /\ shown.n = s.n
      BY <1>2, <1>3, IdleKnows DEF RequestStates, Steps, Answers
    <2> HIDE DEF shown
    <2>3. Knows(shown)
      BY <2>1, <2>2 DEF Knows
    <2> QED
      BY <1>1, <1>3, <2>2, <2>3, RequestGoes
  <1>4. CASE Goto(r, Idle)
    BY <1>1, <1>4, IdleKnows, RequestGoes
  <1> QED
    BY <1>1, <1>3, <1>4

LEMMA RecordStep ==
    ASSUME IInv, NEW r \in Requests, NEW d \in Documents, Record(r, d)
    PROVE  IInv'
  <1>1. CASE recordReachObligationEvent(r, d) \/ recordExternalEvent(r, d)
    <2> DEFINE state == [request[r] EXCEPT !.step = "proved", !.noted = {d}]
    <2>1. request[r].step = "shown" /\ Goto(r, state) /\ UNCHANGED tables
      BY <1>1 DEF recordReachObligationEvent, recordExternalEvent, CheckProof
    <2>2. ReleasedNumber(request[r].n)
      BY <2>1 DEF IInv, Knows
    <2>3. request[r] \in RequestStates
      BY DEF IInv, TypeOK
    <2>4. state \in RequestStates /\ state.step = "proved" /\ state.n = request[r].n
      BY <2>3 DEF RequestStates, Steps
    <2> HIDE DEF state
    <2>5. Knows(state)
      BY <2>2, <2>4 DEF Knows
    <2> QED
      BY <2>1, <2>4, <2>5, RequestGoes
  <1>2. CASE recordGpsrPostMarketEvent(r, d)
    <2> DEFINE state == [Idle EXCEPT !.step = "proved", !.noted = {d}]
    <2>1. kind = "gpsr" /\ Goto(r, state) /\ UNCHANGED tables
      BY <1>2 DEF recordGpsrPostMarketEvent, Starts
    <2>2. state \in RequestStates /\ state.step = "proved"
      BY IdleKnows DEF RequestStates, Steps
    <2> HIDE DEF state
    <2>3. Knows(state)
      BY <2>1, <2>2 DEF Knows
    <2> QED
      BY <2>1, <2>2, <2>3, RequestGoes
  <1> QED
    BY <1>1, <1>2 DEF Record

LEMMA InsertEventStep ==
    ASSUME IInv, NEW r \in Requests, InsertEvent(r)
    PROVE  IInv'
  <1> DEFINE s == request[r]
             recorded == {[n |-> s.n, proof |-> d] : d \in s.noted}
  <1>1. /\ s \in RequestStates /\ s.step = "proved"
        /\ events' = events \cup recorded
        /\ UNCHANGED <<kind, today, calculation, revision, reviews>>
    BY DEF IInv, TypeOK, InsertEvent
  <1>2. recorded \subseteq [n : Nat, proof : Documents] /\ \A e \in recorded : e.n = s.n
    BY <1>1 DEF RequestStates
  <1>3. TypeOK'
    <2> HIDE DEF recorded
    <2> QED
      BY <1>1, <1>2, IdleKnows DEF IInv, TypeOK, InsertEvent, Goto
  <1>4. Extends(revision', revision) /\ Extends(reviews', reviews)
    BY <1>1 DEF Extends, IInv, TypeOK
  <1>5. /\ \A q \in Requests : Knows(request[q])'
        /\ OneNumbers'
        /\ \A q \in Requests : request'[q].step = "numbered" =>
              request[q].step = "numbered" /\ request'[q].n = request[q].n
    BY <1>1, <1>3, <1>4, RequestEnds DEF InsertEvent
  <1>6. NumberIsNext'
    BY <1>1, <1>5 DEF IInv, NumberIsNext, Latest
  <1>7. RevisionsInv' /\ ReviewsInv' /\ WithdrawnWasApproved'
    BY <1>1 DEF IInv, RevisionsInv, ReviewsInv, WithdrawnWasApproved, HasEvidence, Stands, Approvals,
       Latest
  <1>8. EventsInv'
    <2>1. kind \in {"reach", "epr"} => ReleasedNumber(s.n)
      BY <1>1 DEF IInv, Knows
    <2>2. kind \in {"reach", "epr"} => \A e \in events \cup recorded : ReleasedNumber(e.n)
      BY <1>2, <2>1 DEF IInv, EventsInv
    <2> HIDE DEF recorded
    <2> QED
      BY <1>1, <2>2 DEF EventsInv, ReleasedNumber, Approvals, Latest
  <1> QED
    BY <1>3, <1>5, <1>6, <1>7, <1>8 DEF IInv

-----------------------------------------------------------------------------
(* The invariant.                                                            *)

LEMMA Initial == Init => IInv
  <1> SUFFICES ASSUME Init PROVE IInv
    OBVIOUS
  <1>1. TypeOK
    BY IdleKnows DEF Init, TypeOK
  <1>2. \A r \in Requests : request[r] = Idle
    BY DEF Init
  <1>3. Latest = 0 /\ DOMAIN reviews = {} /\ events = {}
    BY DEF Init, Latest
  <1> QED
    BY <1>1, <1>2, <1>3, IdleKnows DEF IInv, OneNumbers, NumberIsNext, RevisionsInv, ReviewsInv,
       WithdrawnWasApproved, EventsInv

\* Nothing of the invariant is about the documents; a day and a calculation are numbers.
LEMMA AroundStep ==
    ASSUME IInv, today' \in Nat, calculation' \in Nat,
           UNCHANGED <<kind, revision, reviews, events, request>>
    PROVE  IInv'
  BY DEF IInv, TypeOK, OneNumbers, NumberIsNext, RevisionsInv, ReviewsInv, WithdrawnWasApproved,
     EventsInv, Knows, Stands, Approvals, ReleasedNumber, Latest, HasEvidence

LEMMA Preserved == IInv /\ [Next]_vars => IInv'
  <1> SUFFICES ASSUME IInv, [Next]_vars PROVE IInv'
    OBVIOUS
  <1>1. ASSUME NEW r \in Requests, RequestStep(r) PROVE IInv'
    <2>1. ASSUME End(r) PROVE IInv'
      BY <2>1, IdleKnows, RequestGoes DEF End
    <2> QED
      BY <1>1, <2>1, CreateStep, NumberStep, InsertRevisionStep, BeginReviewStep, LoadEvidenceStep,
         InsertReviewStep, ListStep, AnswerStep, RecordStep, InsertEventStep DEF RequestStep
  <1>2. CASE ChangeDocument \/ NextDay \/ Recalculate \/ UNCHANGED vars
    <2>1. today' \in Nat /\ calculation' \in Nat
      BY <1>2 DEF IInv, TypeOK, ChangeDocument, NextDay, Recalculate, vars
    <2> QED
      BY <1>2, <2>1, AroundStep DEF ChangeDocument, NextDay, Recalculate, vars
  <1> QED
    BY <1>1, <1>2 DEF Next

LEMMA Invariant == Spec => []IInv
  BY Initial, Preserved, PTL DEF Spec

\* A step is one request's; what was read for a list is given up, or answered.
LEMMA StepGoes ==
    ASSUME NEW q \in Requests, RequestStep(q)
    PROVE  \E state : /\ Goto(q, state)
                      /\ Answer(q) \/ request[q].step # "listing" \/ state = Idle
  <1> DEFINE Goes == \E state : /\ Goto(q, state)
                                /\ request[q].step # "listing" \/ state = Idle
  <1>1. ASSUME Create(q) PROVE Goes
    <2>1. PICK docs, status, version, window : Evaluate(q, docs, status, version, window)
      BY <1>1 DEF Create, createTextileFibreLabelSpecification, createGpsrTechnicalFileRevision,
         createReachSvhcDossierRevision, createPcfStudyRevision, createEnvironmentalClaimDossier,
         createCorporateGhgRevision, createEprRevision
    <2> QED
      BY <2>1 DEF Evaluate, Starts
  <1>2. ASSUME NEW n, NEW decision, BeginReview(q, n, decision) PROVE Goes
    <2>1. Review(q, n, decision)
      BY <1>2 DEF BeginReview, reviewTextileFibreLabelSpecification, reviewGpsrTechnicalFile,
         reviewReachSvhcDossier, reviewPcfStudy, reviewEnvironmentalClaimDossier, reviewCorporateGhg,
         reviewEpr, ReviewOf
    <2>2. \E state : Starts(q, state)
      BY <2>1 DEF Review
    <2> QED
      BY <2>2 DEF Starts
  <1>3. ASSUME BeginList(q) PROVE Goes
    BY <1>3 DEF BeginList, listTextileFibreLabelSpecifications, listGpsrTechnicalFiles,
       listReachSvhcDossiers, listPcfStudies, listEnvironmentalClaimDossiers, resolvePassportClaims,
       listCorporateGhg, listEpr, List, Starts
  <1>4. ASSUME NEW d, Record(q, d) PROVE Goes
    BY <1>4 DEF Record, recordReachObligationEvent, recordExternalEvent, recordGpsrPostMarketEvent,
       CheckProof, Starts
  <1>5. ASSUME NumberRevision(q) \/ InsertRevision(q) \/ LoadEvidence(q) \/ InsertReview(q)
                 \/ InsertEvent(q) \/ End(q)
        PROVE  Goes
    BY <1>5 DEF NumberRevision, InsertRevision, LoadEvidence, InsertReview, InsertEvent, End
  <1>6. ASSUME Answer(q) PROVE \E state : Goto(q, state)
    BY <1>6 DEF Answer
  <1> QED
    BY <1>1, <1>2, <1>3, <1>4, <1>5, <1>6 DEF RequestStep

(* Two revisions of a reference never compete for a number, for any number of requests  *)
(* (the advisory locks of exportShipmentService.js:1613 and its like).                 *)
THEOREM NumbersAreNext == Spec => []NumberIsNext
  <1>1. IInv => NumberIsNext
    BY DEF IInv
  <1> QED
    BY <1>1, Invariant, PTL

(* An outbound event is recorded only for a revision that a reviewer approved with all of *)
(* the evidence it was evaluated with (euTextileEprService.js:153,                       *)
(* exportShipmentService.js:1328).                                                     *)
THEOREM OutboundReleased == Spec => []OutboundWasReleased
  <1>1. IInv => OutboundWasReleased
    BY DEF IInv, EventsInv, OutboundWasReleased, ReleasedNumber
  <1> QED
    BY <1>1, Invariant, PTL

(* A claim is withdrawn only after an approval of the same revision                     *)
(* (exportShipmentService.js:1695).                                                    *)
THEOREM WithdrawalFollows == Spec => []WithdrawnWasApproved
  <1>1. IInv => WithdrawnWasApproved
    BY DEF IInv
  <1> QED
    BY <1>1, Invariant, PTL

(* Nothing is shown as approved unless, at that moment, all of the evidence the revision *)
(* was evaluated with is controlled, and a claim is valid and in its window              *)
(* (exportShipmentService.js:1651).                                                    *)
THEOREM ShownStands == Spec => ShownAsEvaluated
  <1>1. ASSUME IInv, [Next]_vars, NEW r \in Requests, ShowsApproved(r)
        PROVE  StandsToday(request[r].row)
    <2>1. request[r].step = "listing" /\ request'[r].step = "shown" /\ request' # request
      BY <1>1 DEF ShowsApproved
    <2>2. request \in [Requests -> RequestStates]
      BY <1>1 DEF IInv, TypeOK
    <2>3. PICK q \in Requests : RequestStep(q)
      BY <1>1, <2>1 DEF Next, ChangeDocument, NextDay, Recalculate, vars
    <2>4. PICK state : /\ Goto(q, state)
                       /\ Answer(q) \/ request[q].step # "listing" \/ state = Idle
      BY <2>3, StepGoes
    <2>5. q = r /\ state.step = "shown"
      BY <2>1, <2>2, <2>4 DEF Goto
    <2>6. Answer(r)
      BY <2>1, <2>4, <2>5, IdleKnows
    <2>7. Status(request[r].row, request[r].review, request[r].noted, request[r].calculation)
             \in Released
      BY <2>1, <2>2, <2>6, IdleKnows DEF Answer, Goto
    <2> QED
      BY <1>1, <2>1, <2>7, AnswerReleased
  <1>2. IInv /\ [Next]_vars =>
            [\A r \in Requests : ShowsApproved(r) => StandsToday(request[r].row)]_vars
    BY <1>1
  <1> QED
    BY <1>2, Invariant, PTL DEF Spec, ShownAsEvaluated

=============================================================================
