-------------------------- MODULE ExportDocumentsProofs --------------------------
(***************************************************************************)
(* For any number of requests, documents, files and reviews: the payload of a      *)
(* handoff is current in itself, what is issued is the file that was approved, and   *)
(* events name what is still issued. The argument is that an issued or superseded     *)
(* document keeps its type, payload and file for ever, so that what a request has      *)
(* read of one stays true. Nothing is assumed of the shipment: its goods, profiles      *)
(* and carrier documents may change in any way.                                      *)
(***************************************************************************)
EXTENDS ExportDocuments, TLAPS

\* The fields a request and a document have.
RequestShape(s) ==
    s \in [step : {s.step}, n : {s.n}, type : {s.type}, payload : {s.payload}, file : {s.file},
           old : {s.old}, carrier : {s.carrier}, hash : {s.hash}, line : {s.line}]
DocumentShape(row) ==
    row \in [type : {row.type}, status : {row.status}, file : {row.file}, report : {row.report},
             payload : {row.payload}]
Shapes ==
    /\ DOMAIN request = Requests /\ \A r \in Requests : RequestShape(request[r])
    /\ \E Rows : documents \in Seq(Rows)
    /\ \A n \in DOMAIN documents : DocumentShape(documents[n])
    /\ \E Rows : reviews \in Seq(Rows)

PinStands(pin) == pin.n \in DOMAIN documents /\ PinIsIssued(pin)
WasApproved(n, file) ==
    \E i \in ReviewsOf(n) : reviews[i].decision = "approved" /\ reviews[i].file = file

\* What a request that is at a step has read.
Knows(s) ==
    /\ s.step = "created" =>
          /\ s.payload.source = Source(s.payload.source)
          /\ \A pin \in s.payload.pinned : PinStands(pin)
    /\ s.step \in {"issuing", "compared", "copied", "superseding"} =>
          s.n \in DOMAIN documents /\ s.type = documents[s.n].type
    /\ s.step \in {"copied", "superseding"} /\ s.type \in ReviewedTypes => WasApproved(s.n, s.file)
    /\ s.step = "superseding" => \A n \in s.old : n \in DOMAIN documents /\ Frozen(n)

\* A payload is current for a type.
CurrentFor(p, type) ==
    /\ type \in {"carbon_annex", "ics2_dataset", "vn_customs_handoff", "eu_import_handoff"}
         => CarrierInPayload(p)
    /\ type \in {"vn_customs_handoff", "eu_import_handoff"} =>
         \A t \in Supporting : \E pin \in p.pinned :
             pin.type = t /\ pin.source = p.source /\ PinStands(pin)

PayloadsInv == \A n \in DOMAIN documents : CurrentFor(documents[n].payload, documents[n].type)
IssuedInv == \A n \in DOMAIN documents :
    documents[n].type \in ReviewedTypes /\ Frozen(n) => WasApproved(n, documents[n].file)
EventsInv == \A e \in events :
    e.n \in DOMAIN documents /\ Frozen(e.n) /\ documents[e.n].file = e.file

IInv ==
    /\ Shapes
    /\ \A r \in Requests : Knows(request[r])
    /\ PayloadsInv /\ IssuedInv /\ EventsInv
-----------------------------------------------------------------------------
(* What stays.                                                               *)

\* A document keeps its type and payload, and once issued its file.
DocumentsStay ==
    \A n \in DOMAIN documents :
        /\ n \in DOMAIN documents'
        /\ documents'[n].type = documents[n].type /\ documents'[n].payload = documents[n].payload
        /\ Frozen(n) => Frozen(n)' /\ documents'[n].file = documents[n].file
ReviewsStay ==
    \A i \in DOMAIN reviews : i \in DOMAIN reviews' /\ reviews'[i] = reviews[i]

LEMMA PinStays ==
    ASSUME DocumentsStay, NEW pin, PinStands(pin)
    PROVE  PinStands(pin)'
  BY DEF DocumentsStay, PinStands, PinIsIssued

LEMMA ApprovalStays ==
    ASSUME ReviewsStay, NEW n, NEW file, WasApproved(n, file)
    PROVE  WasApproved(n, file)'
  BY DEF ReviewsStay, WasApproved, ReviewsOf

LEMMA KnowledgeStays ==
    ASSUME DocumentsStay, ReviewsStay, NEW s, Knows(s)
    PROVE  Knows(s)'
  <1>1. s.step = "created" => \A pin \in s.payload.pinned : PinStands(pin)'
    BY PinStays DEF Knows
  <1>2. s.step \in {"issuing", "compared", "copied", "superseding"} =>
            s.n \in DOMAIN documents' /\ s.type = documents'[s.n].type
    BY DEF Knows, DocumentsStay
  <1>3. s.step \in {"copied", "superseding"} /\ s.type \in ReviewedTypes => WasApproved(s.n, s.file)'
    BY ApprovalStays DEF Knows
  <1>4. s.step = "superseding" => \A n \in s.old : n \in DOMAIN documents' /\ Frozen(n)'
    BY DEF Knows, DocumentsStay
  <1> QED
    BY <1>1, <1>2, <1>3, <1>4 DEF Knows, Source

LEMMA CurrentStays ==
    ASSUME DocumentsStay, NEW p, NEW type, CurrentFor(p, type)
    PROVE  CurrentFor(p, type)'
  <1>1. type \in {"vn_customs_handoff", "eu_import_handoff"} =>
         \A t \in Supporting : \E pin \in p.pinned :
             pin.type = t /\ pin.source = p.source /\ PinStands(pin)'
    BY PinStays DEF CurrentFor
  <1> QED
    BY <1>1 DEF CurrentFor, CarrierInPayload

\* The rest of the invariant follows when the documents stay, the new ones are current,
\* and what is newly issued was approved.
LEMMA InvariantStays ==
    ASSUME IInv, Shapes', DocumentsStay, ReviewsStay, UNCHANGED events,
           \A r \in Requests : request'[r] = request[r] \/ Knows(request'[r]) \/ request'[r] = Idle,
           \A n \in DOMAIN documents' \ DOMAIN documents :
               CurrentFor(documents'[n].payload, documents'[n].type),
           \A n \in DOMAIN documents' : (n \in DOMAIN documents /\ Frozen(n)) \/ ~Frozen(n)'
               \/ (documents'[n].type \in ReviewedTypes => WasApproved(n, documents'[n].file))
    PROVE  IInv'
  <1>1. Knows(Idle)
    BY DEF Knows, Idle
  <1>2. ASSUME NEW r \in Requests PROVE Knows(request[r])'
    <2>1. Knows(request'[r])
      BY <1>1 DEF IInv
    <2> DEFINE s == request'[r]
    <2>2. \A t : t = s => Knows(t)'
      BY <2>1, KnowledgeStays
    <2> QED
      BY <2>2 DEF Knows
  <1>3. PayloadsInv'
    <2>1. ASSUME NEW n \in DOMAIN documents' PROVE CurrentFor(documents[n].payload, documents[n].type)'
      <3>1. CurrentFor(documents'[n].payload, documents'[n].type)
        BY DEF IInv, PayloadsInv, DocumentsStay
      <3>2. \A p, type : p = documents'[n].payload /\ type = documents'[n].type => CurrentFor(p, type)'
        BY <3>1, CurrentStays
      <3> QED
        BY <3>2 DEF CurrentFor
    <2> QED
      BY <2>1 DEF PayloadsInv
  <1>4. IssuedInv'
    <2>1. ASSUME NEW n \in DOMAIN documents', documents'[n].type \in ReviewedTypes, Frozen(n)'
          PROVE  WasApproved(n, documents[n].file)'
      <3>1. WasApproved(n, documents'[n].file)
        BY <2>1 DEF IInv, IssuedInv, DocumentsStay
      <3>2. \A file : file = documents'[n].file => WasApproved(n, file)'
        BY <3>1, ApprovalStays
      <3> QED
        BY <3>2 DEF WasApproved
    <2> QED
      BY <2>1 DEF IssuedInv, ReviewedTypes, Types
  <1>5. EventsInv'
    BY DEF IInv, EventsInv, DocumentsStay
  <1> QED
    BY <1>2, <1>3, <1>4, <1>5 DEF IInv

\* A request that goes on over documents as they are.
LEMMA RequestGoes ==
    ASSUME IInv, NEW r \in Requests, NEW state, Goto(r, state), RequestShape(state), Knows(state),
           UNCHANGED <<documents, reviews, events>>
    PROVE  IInv'
  <1>1. /\ DOMAIN request' = Requests /\ request'[r] = state
        /\ \A q \in Requests \ {r} : request'[q] = request[q]
    BY DEF IInv, Shapes, Goto
  <1>2. Shapes'
    <2>1. \A q \in Requests : RequestShape(request'[q])
      BY <1>1 DEF IInv, Shapes
    <2> QED
      BY <1>1, <2>1 DEF IInv, Shapes, DocumentShape, RequestShape
  <1>3. DocumentsStay /\ ReviewsStay
    BY DEF DocumentsStay, ReviewsStay, Frozen
  <1>4. \A n \in DOMAIN documents' : (n \in DOMAIN documents /\ Frozen(n)) \/ ~Frozen(n)'
    BY DEF Frozen
  <1> QED
    BY <1>1, <1>2, <1>3, <1>4, InvariantStays

LEMMA IdleKnows == RequestShape(Idle) /\ Knows(Idle)
  BY DEF RequestShape, Knows, Idle

-----------------------------------------------------------------------------
(* Creating a document.                                                      *)

LEMMA ReadPayloadStep ==
    ASSUME IInv, NEW r \in Requests, ReadPayload(r)
    PROVE  IInv'
  <1> DEFINE payload == DocumentSource(getProfile, request[r].type)
             state == [request[r] EXCEPT !.step = "created", !.payload = payload]
  <1>1. Goto(r, state) /\ UNCHANGED <<documents, reviews, events>>
    BY DEF ReadPayload
  <1>2. payload.source = Source(payload.source)
    BY DEF DocumentSource, Source
  <1>3. \A pin \in payload.pinned : PinStands(pin)
    <2>1. payload.pinned \subseteq Pinned
      BY DEF DocumentSource, getProfile, Snapshot
    <2>2. ASSUME NEW pin \in Pinned PROVE PinStands(pin)
      BY <2>2 DEF Pinned, Pin, Issued, PinStands, PinIsIssued, Frozen
    <2> QED
      BY <2>1, <2>2
  <1> HIDE DEF payload
  <1>4. RequestShape(request[r])
    BY DEF IInv, Shapes
  <1>5. RequestShape(state) /\ state.step = "created" /\ state.payload = payload
    <2>1. \A s : RequestShape(s) =>
            /\ RequestShape([s EXCEPT !.step = "created", !.payload = payload])
            /\ [s EXCEPT !.step = "created", !.payload = payload].step = "created"
            /\ [s EXCEPT !.step = "created", !.payload = payload].payload = payload
      BY DEF RequestShape
    <2> QED
      BY <1>4, <2>1
  <1> HIDE DEF state
  <1>6. Knows(state)
    BY <1>2, <1>3, <1>5 DEF Knows
  <1> QED
    BY <1>1, <1>5, <1>6, RequestGoes

\* What the checks before the transaction say of the payload.
LEMMA VerifiedIsCurrent ==
    ASSUME NEW p, NEW type, Verified(p, type), p.source = Source(p.source),
           \A pin \in p.pinned : PinStands(pin)
    PROVE  CurrentFor(p, type)
  <1>1. ASSUME verifyCurrentCarrierEvidence(p) PROVE CarrierInPayload(p)
    BY <1>1 DEF verifyCurrentCarrierEvidence, CarrierCurrent, ReconciliationOf, CarrierInPayload
  <1>2. ASSUME verifyCurrentSupportingDocuments(p), NEW t \in Supporting
        PROVE  \E pin \in p.pinned : pin.type = t /\ pin.source = p.source /\ PinStands(pin)
    <2>1. PICK pin \in p.pinned : pin.type = t /\ pin.source = Source(p.source)
      BY <1>2 DEF verifyCurrentSupportingDocuments, isCurrentIssuedSupportingDocument
    <2> QED
      BY <2>1
  <1> QED
    BY <1>1, <1>2 DEF Verified, CurrentFor

LEMMA InsertDocumentStep ==
    ASSUME IInv, NEW r \in Requests, InsertDocument(r)
    PROVE  IInv'
  <1> DEFINE s == request[r]
             row == [type |-> s.type, status |-> "ready", file |-> 0, report |-> "processing",
                     payload |-> s.payload]
             last == Len(documents) + 1
  <1>1. /\ s.step = "created" /\ Verified(s.payload, s.type)
        /\ documents' = Append(documents, row)
        /\ Goto(r, Idle) /\ UNCHANGED <<reviews, events>>
    BY DEF InsertDocument
  <1>2. CurrentFor(s.payload, s.type)
    BY <1>1, VerifiedIsCurrent DEF IInv, Knows
  <1>3. row.type = s.type /\ row.payload = s.payload /\ row.status = "ready" /\ DocumentShape(row)
    BY DEF DocumentShape
  <1> HIDE DEF row
  <1>4. PICK Rows : documents \in Seq(Rows)
    BY DEF IInv, Shapes
  <1>5. /\ documents' \in Seq(Rows \cup {row}) /\ DOMAIN documents' = 1..last
        /\ documents'[last] = row /\ DOMAIN documents = 1..Len(documents) /\ Len(documents) \in Nat
        /\ \A n \in DOMAIN documents : documents'[n] = documents[n]
    <2>1. documents \in Seq(Rows \cup {row}) /\ row \in Rows \cup {row}
      BY <1>4
    <2> QED
      BY <1>1, <2>1
  <1>6. /\ DOMAIN request' = Requests
        /\ \A q \in Requests : request'[q] = request[q] \/ request'[q] = Idle
    BY <1>1 DEF IInv, Shapes, Goto
  <1>7. Shapes'
    <2>1. \A q \in Requests : RequestShape(request'[q])
      BY <1>6, IdleKnows DEF IInv, Shapes
    <2>2. \A n \in DOMAIN documents' : DocumentShape(documents'[n])
      BY <1>3, <1>5 DEF IInv, Shapes
    <2> QED
      BY <1>1, <1>5, <1>6, <2>1, <2>2 DEF IInv, Shapes, RequestShape, DocumentShape
  <1>8. DocumentsStay /\ ReviewsStay
    BY <1>1, <1>5 DEF DocumentsStay, ReviewsStay, Frozen
  <1>9. \A n \in DOMAIN documents' \ DOMAIN documents :
            CurrentFor(documents'[n].payload, documents'[n].type)
    BY <1>2, <1>3, <1>5
  <1>10. \A n \in DOMAIN documents' : (n \in DOMAIN documents /\ Frozen(n)) \/ ~Frozen(n)'
    BY <1>3, <1>5 DEF Frozen
  <1> QED
    BY <1>1, <1>6, <1>7, <1>8, <1>9, <1>10, InvariantStays

-----------------------------------------------------------------------------
(* The job, and the reviews.                                                 *)

\* A write of the job goes to a document that is not issued, if it goes anywhere.
LEMMA JobWrites ==
    ASSUME IInv, NEW n \in DOMAIN documents, NEW row, DocumentShape(row), ~Frozen(n),
           row.type = documents[n].type, row.payload = documents[n].payload,
           row.status \notin {"issued", "superseded"},
           documents' = [documents EXCEPT ![n] = row], UNCHANGED <<request, reviews, events>>
    PROVE  IInv'
  <1>1. PICK Rows : documents \in Seq(Rows)
    BY DEF IInv, Shapes
  <1>2. /\ documents' \in Seq(Rows \cup {row}) /\ DOMAIN documents' = DOMAIN documents
        /\ documents'[n] = row
        /\ \A m \in DOMAIN documents \ {n} : documents'[m] = documents[m]
    <2>1. documents \in Seq(Rows \cup {row}) /\ row \in Rows \cup {row}
      BY <1>1
    <2> QED
      BY <2>1
  <1>3. Shapes'
    <2>1. \A m \in DOMAIN documents' : DocumentShape(documents'[m])
      BY <1>2 DEF IInv, Shapes
    <2> QED
      BY <1>2, <2>1 DEF IInv, Shapes, RequestShape, DocumentShape
  <1>4. DocumentsStay /\ ReviewsStay
    BY <1>2 DEF DocumentsStay, ReviewsStay, Frozen
  <1>5. \A m \in DOMAIN documents' : (m \in DOMAIN documents /\ Frozen(m)) \/ ~Frozen(m)'
    BY <1>2 DEF Frozen
  <1> QED
    BY <1>2, <1>3, <1>4, <1>5, InvariantStays

LEMMA UntouchedStep ==
    ASSUME IInv, UNCHANGED <<request, documents, reviews, events>>
    PROVE  IInv'
  BY DEF IInv, Shapes, RequestShape, DocumentShape, Knows, PayloadsInv, CurrentFor, CarrierInPayload,
     IssuedInv, WasApproved, ReviewsOf, EventsInv, PinStands, PinIsIssued, Frozen, Source

LEMMA JobStepKeeps ==
    ASSUME IInv, NEW n \in DOMAIN documents, JobStep(n)
    PROVE  IInv'
  <1> DEFINE row == documents[n]
  <1>1. DocumentShape(row)
    BY DEF IInv, Shapes
  <1>2. ASSUME NEW k, StoreFile(n, k) PROVE IInv'
    <2> DEFINE stored == [row EXCEPT !.file = k, !.report = "completed"]
    <2>1. ~Frozen(n) /\ documents' = [documents EXCEPT ![n] = stored]
          /\ UNCHANGED <<request, reviews, events>>
      BY <1>2 DEF StoreFile
    <2>2. DocumentShape(stored) /\ stored.type = row.type /\ stored.payload = row.payload
          /\ stored.status = row.status
      BY <1>1 DEF DocumentShape
    <2> HIDE DEF stored
    <2> QED
      BY <2>1, <2>2, JobWrites DEF Frozen
  <1>3. ASSUME NEW k, markDocumentFailed(n, k) PROVE IInv'
    <2>1. CASE Frozen(n)
      BY <1>3, <2>1, UntouchedStep DEF markDocumentFailed
    <2>2. CASE ~Frozen(n)
      <3> DEFINE failed == [row EXCEPT !.status = "failed",
                              !.report = IF row.report = "completed" THEN "completed" ELSE "failed"]
      <3>1. documents' = [documents EXCEPT ![n] = failed] /\ UNCHANGED <<request, reviews, events>>
        BY <1>3, <2>2 DEF markDocumentFailed
      <3>2. DocumentShape(failed) /\ failed.type = row.type /\ failed.payload = row.payload
            /\ failed.status = "failed"
        BY <1>1 DEF DocumentShape
      <3> HIDE DEF failed
      <3> QED
        BY <2>2, <3>1, <3>2, JobWrites
    <2> QED
      BY <2>1, <2>2
  <1>4. ASSUME generateDocumentFile(n) PROVE IInv'
    BY <1>4, UntouchedStep DEF generateDocumentFile
  <1> QED
    BY <1>2, <1>3, <1>4 DEF JobStep

LEMMA InsertReviewStep ==
    ASSUME IInv, NEW r \in Requests, InsertReview(r)
    PROVE  IInv'
  <1>1. PICK review : /\ reviews' = Append(reviews, review)
                      /\ Goto(r, Idle) /\ UNCHANGED <<documents, events>>
    BY DEF InsertReview
  <1>2. PICK Rows : reviews \in Seq(Rows)
    BY DEF IInv, Shapes
  <1>3. reviews' \in Seq(Rows \cup {review}) /\ ReviewsStay
    <2>1. reviews \in Seq(Rows \cup {review}) /\ review \in Rows \cup {review}
      BY <1>2
    <2> QED
      BY <1>1, <2>1 DEF ReviewsStay
  <1>4. /\ DOMAIN request' = Requests
        /\ \A q \in Requests : request'[q] = request[q] \/ request'[q] = Idle
    BY <1>1 DEF IInv, Shapes, Goto
  <1>5. Shapes'
    <2>1. \A q \in Requests : RequestShape(request'[q])
      BY <1>4, IdleKnows DEF IInv, Shapes
    <2> QED
      BY <1>1, <1>3, <1>4, <2>1 DEF IInv, Shapes, RequestShape, DocumentShape
  <1>6. DocumentsStay
    BY <1>1 DEF DocumentsStay, Frozen
  <1>7. \A n \in DOMAIN documents' : (n \in DOMAIN documents /\ Frozen(n)) \/ ~Frozen(n)'
    BY <1>1 DEF Frozen
  <1> QED
    BY <1>1, <1>3, <1>4, <1>5, <1>6, <1>7, InvariantStays

-----------------------------------------------------------------------------
(* Issuing.                                                                  *)

\* A request that goes on to a step at which it keeps what it knew.
LEMMA StepChanges ==
    ASSUME IInv, NEW r \in Requests, NEW step, Goto(r, [request[r] EXCEPT !.step = step]),
           request[r].step \in {"issuing", "compared", "copied", "superseding"},
           step \in {"compared", "copied"},
           step = "copied" /\ request[r].type \in ReviewedTypes => WasApproved(request[r].n, request[r].file),
           UNCHANGED <<documents, reviews, events>>
    PROVE  IInv'
  <1> DEFINE state == [request[r] EXCEPT !.step = step]
  <1>1. RequestShape(request[r])
    BY DEF IInv, Shapes
  <1>2. /\ RequestShape(state) /\ state.step = step /\ state.n = request[r].n
        /\ state.type = request[r].type /\ state.file = request[r].file
    BY <1>1 DEF RequestShape
  <1> HIDE DEF state
  <1>3. Knows(state)
    BY <1>2 DEF IInv, Knows
  <1> QED
    BY <1>2, <1>3, RequestGoes DEF state

LEMMA BeginsStep ==
    ASSUME IInv, NEW r \in Requests,
           \/ \E type \in Types : createDocumentJob(r, type)
           \/ \E n \in DOMAIN documents : reviewDocument(r, n) \/ issueDocument(r, n)
    PROVE  IInv'
  <1>1. ASSUME NEW type, createDocumentJob(r, type) PROVE IInv'
    <2> DEFINE state == [Idle EXCEPT !.step = "creating", !.type = type]
    <2>1. RequestShape(state) /\ state.step = "creating"
      BY DEF RequestShape, Idle
    <2>2. Goto(r, state) /\ UNCHANGED <<documents, reviews, events>>
      BY <1>1 DEF createDocumentJob
    <2> HIDE DEF state
    <2>3. Knows(state)
      BY <2>1 DEF Knows
    <2> QED
      BY <2>1, <2>2, <2>3, RequestGoes
  <1>2. ASSUME NEW n \in DOMAIN documents, reviewDocument(r, n) PROVE IInv'
    <2> DEFINE state == [Idle EXCEPT !.step = "reviewing", !.n = n, !.file = documents[n].file]
    <2>1. RequestShape(state) /\ state.step = "reviewing"
      BY DEF RequestShape, Idle
    <2>2. Goto(r, state) /\ UNCHANGED <<documents, reviews, events>>
      BY <1>2 DEF reviewDocument
    <2> HIDE DEF state
    <2>3. Knows(state)
      BY <2>1 DEF Knows
    <2> QED
      BY <2>1, <2>2, <2>3, RequestGoes
  <1>3. ASSUME NEW n \in DOMAIN documents, issueDocument(r, n) PROVE IInv'
    <2> DEFINE state == [Idle EXCEPT !.step = "issuing", !.n = n, !.type = documents[n].type,
                                     !.file = documents[n].file]
    <2>1. RequestShape(state) /\ state.step = "issuing" /\ state.n = n /\ state.type = documents[n].type
      BY DEF RequestShape, Idle
    <2>2. Goto(r, state) /\ UNCHANGED <<documents, reviews, events>>
      BY <1>3 DEF issueDocument
    <2> HIDE DEF state
    <2>3. Knows(state)
      BY <2>1 DEF Knows
    <2> QED
      BY <2>1, <2>2, <2>3, RequestGoes
  <1> QED
    BY <1>1, <1>2, <1>3

\* The file is copied when the latest review approved that very file.
LEMMA CopyFileStep ==
    ASSUME IInv, NEW r \in Requests, CopyFile(r)
    PROVE  IInv'
  <1>1. request[r].type \in ReviewedTypes => WasApproved(request[r].n, request[r].file)
    BY DEF CopyFile, IsLatestReview, WasApproved
  <1> QED
    BY <1>1, StepChanges DEF CopyFile

LEMMA SupersedeOthersStep ==
    ASSUME IInv, NEW r \in Requests, SupersedeOthers(r)
    PROVE  IInv'
  <1> DEFINE old == Issued(request[r].type) \ {request[r].n}
             state == [request[r] EXCEPT !.step = "superseding", !.old = old]
  <1>1. request[r].step = "copied" /\ Goto(r, state) /\ UNCHANGED <<documents, reviews, events>>
    BY DEF SupersedeOthers
  <1>2. \A n \in old : n \in DOMAIN documents /\ Frozen(n)
    BY DEF Issued, Frozen
  <1> HIDE DEF old
  <1>3. RequestShape(request[r])
    BY DEF IInv, Shapes
  <1>4. /\ RequestShape(state) /\ state.step = "superseding" /\ state.old = old
        /\ state.n = request[r].n /\ state.type = request[r].type /\ state.file = request[r].file
    BY <1>3 DEF RequestShape
  <1> HIDE DEF state
  <1>5. Knows(state)
    BY <1>1, <1>2, <1>4 DEF IInv, Knows
  <1> QED
    BY <1>1, <1>4, <1>5, RequestGoes

\* Of the documents one is issued, in the file that was approved; the others that change
\* were issued before.
LEMMA CommitIssueStep ==
    ASSUME IInv, NEW r \in Requests, CommitIssue(r)
    PROVE  IInv'
  <1> DEFINE s == request[r]
             issued == [documents[s.n] EXCEPT !.status = "issued", !.file = s.file]
             Old(n) == [documents[n] EXCEPT !.status = "superseded"]
  <1>1. /\ s.step = "superseding" /\ s.n \in DOMAIN documents /\ s.type = documents[s.n].type
        /\ s.type \in ReviewedTypes => WasApproved(s.n, s.file)
        /\ \A n \in s.old : n \in DOMAIN documents /\ Frozen(n)
    BY DEF IInv, Knows, CommitIssue
  <1>2. /\ documents[s.n].status # "superseded"
        /\ documents[s.n].status = "issued" => documents[s.n].file = s.file
        /\ Goto(r, Idle) /\ UNCHANGED <<reviews, events>>
    BY DEF CommitIssue
  <1>3. documents' = [n \in DOMAIN documents |-> IF n = s.n THEN issued
                                                 ELSE IF n \in s.old THEN Old(n) ELSE documents[n]]
    BY DEF CommitIssue
  <1>4. \A n \in DOMAIN documents : DocumentShape(documents[n])
    BY DEF IInv, Shapes
  <1>5. /\ DocumentShape(issued) /\ issued.type = documents[s.n].type
        /\ issued.payload = documents[s.n].payload /\ issued.status = "issued" /\ issued.file = s.file
    BY <1>1, <1>4 DEF DocumentShape
  <1>6. \A n \in DOMAIN documents :
           /\ DocumentShape(Old(n)) /\ Old(n).type = documents[n].type
           /\ Old(n).payload = documents[n].payload /\ Old(n).status = "superseded"
           /\ Old(n).file = documents[n].file
    BY <1>4 DEF DocumentShape
  <1> HIDE DEF issued, Old
  <1>7. /\ DOMAIN documents' = DOMAIN documents /\ documents'[s.n] = issued
        /\ \A n \in DOMAIN documents \ {s.n} : documents'[n] = IF n \in s.old THEN Old(n) ELSE documents[n]
    BY <1>1, <1>3
  <1>8. \E Rows : documents' \in Seq(Rows)
    <2>1. Len(documents) \in Nat /\ DOMAIN documents = 1..Len(documents)
      BY DEF IInv, Shapes
    <2> DEFINE Rows == {documents'[n] : n \in 1..Len(documents)}
    <2>2. documents' \in [1..Len(documents) -> Rows]
      BY <1>3, <2>1
    <2> HIDE DEF Rows
    <2>3. documents' \in Seq(Rows)
      BY <2>1, <2>2
    <2> QED
      BY <2>3
  <1>9. /\ DOMAIN request' = Requests
        /\ \A q \in Requests : request'[q] = request[q] \/ request'[q] = Idle
    BY <1>2 DEF IInv, Shapes, Goto
  <1>10. Shapes'
    <2>1. \A q \in Requests : RequestShape(request'[q])
      BY <1>9, IdleKnows DEF IInv, Shapes
    <2>2. \A n \in DOMAIN documents' : DocumentShape(documents'[n])
      BY <1>4, <1>5, <1>6, <1>7
    <2> QED
      BY <1>2, <1>8, <1>9, <2>1, <2>2 DEF IInv, Shapes, RequestShape, DocumentShape
  <1>11. DocumentsStay
    <2>1. ASSUME NEW n \in DOMAIN documents
          PROVE  /\ n \in DOMAIN documents'
                 /\ documents'[n].type = documents[n].type
                 /\ documents'[n].payload = documents[n].payload
                 /\ Frozen(n) => Frozen(n)' /\ documents'[n].file = documents[n].file
      <3>1. CASE n = s.n
        BY <1>2, <1>5, <1>7, <3>1 DEF Frozen
      <3>2. CASE n # s.n /\ n \in s.old
        BY <1>6, <1>7, <3>2 DEF Frozen
      <3>3. CASE n # s.n /\ n \notin s.old
        BY <1>7, <3>3 DEF Frozen
      <3> QED
        BY <3>1, <3>2, <3>3
    <2> QED
      BY <2>1 DEF DocumentsStay
  <1>12. ReviewsStay
    BY <1>2 DEF ReviewsStay
  <1>13. \A n \in DOMAIN documents' : (n \in DOMAIN documents /\ Frozen(n)) \/ ~Frozen(n)'
               \/ (documents'[n].type \in ReviewedTypes => WasApproved(n, documents'[n].file))
    <2>1. ASSUME NEW n \in DOMAIN documents, n # s.n, ~Frozen(n) PROVE ~Frozen(n)'
      <3>1. documents'[n] = documents[n]
        BY <1>1, <1>7, <2>1
      <3> QED
        BY <2>1, <3>1 DEF Frozen
    <2> QED
      BY <1>1, <1>5, <1>7, <2>1
  <1> QED
    BY <1>2, <1>7, <1>9, <1>10, <1>11, <1>12, <1>13, InvariantStays

-----------------------------------------------------------------------------
(* The shipment and the events.                                              *)

LEMMA ShipmentStepKeeps ==
    ASSUME IInv, NEW r \in Requests, ShipmentStep(r), UNCHANGED Rest
    PROVE  IInv'
  <1>1. PICK state : Goto(r, state) /\ RequestShape(state) /\ state.step \in {"idle", "merging", "confirming"}
    <2>1. CASE updateLine(r)
      <3>1. /\ RequestShape([Idle EXCEPT !.step = "merging", !.line = goods.line])
            /\ [Idle EXCEPT !.step = "merging", !.line = goods.line].step = "merging"
        BY DEF RequestShape, Idle
      <3> QED
        BY <2>1, <3>1 DEF updateLine
    <2>2. CASE saveLine(r) \/ commitConfirmation(r)
      BY <2>2, IdleKnows DEF saveLine, commitConfirmation, Idle
    <2>3. ASSUME NEW d \in CarrierFiles, confirmCarrierDocument(r, d)
          PROVE  \E state : /\ Goto(r, state) /\ RequestShape(state)
                            /\ state.step \in {"idle", "merging", "confirming"}
      <3> DEFINE hash == ReconciliationOf(Snapshot({}), d)
                 state == [Idle EXCEPT !.step = "confirming", !.carrier = d, !.n = carrier[d].id,
                                       !.hash = hash]
      <3>1. Goto(r, state)
        BY <2>3 DEF confirmCarrierDocument
      <3> HIDE DEF hash
      <3>2. RequestShape(state) /\ state.step = "confirming"
        BY DEF RequestShape, Idle
      <3> QED
        BY <3>1, <3>2
    <2> QED
      BY <2>1, <2>2, <2>3 DEF ShipmentStep
  <1>2. Knows(state)
    BY <1>1 DEF Knows
  <1> QED
    BY <1>1, <1>2, RequestGoes DEF Rest

LEMMA EventStepKeeps ==
    ASSUME IInv, NEW n \in DOMAIN documents, EventStep(n)
    PROVE  IInv'
  <1>1. /\ documents[n].status = "issued"
        /\ events' = events \cup {[n |-> n, file |-> documents[n].file]}
        /\ UNCHANGED <<request, documents, reviews>>
    BY DEF EventStep, recordVnCustomsEvent, recordEuImportEvent, recordIcs2Event, RecordEvent
  <1>2. EventsInv'
    BY <1>1 DEF IInv, EventsInv, Frozen
  <1> QED
    BY <1>1, <1>2 DEF IInv, Shapes, RequestShape, DocumentShape, Knows, PayloadsInv, CurrentFor,
       CarrierInPayload, IssuedInv, WasApproved, ReviewsOf, PinStands, PinIsIssued, Frozen, Source

-----------------------------------------------------------------------------
(* The invariant.                                                            *)

LEMMA Initial == Init => IInv
  <1> SUFFICES ASSUME Init PROVE IInv
    OBVIOUS
  <1> DEFINE First(n) == [type |-> IF n = 1 THEN "commercial_invoice" ELSE "packing_list",
                          status |-> "issued", file |-> MaxFiles, report |-> "completed",
                          payload |-> InitPayload(FirstCarrier)]
             Review(n) == [n |-> n, decision |-> "approved", file |-> MaxFiles]
  <1>1. /\ request = [r \in Requests |-> Idle] /\ events = {}
        /\ documents = [n \in 1..2 |-> First(n)] /\ reviews = [n \in 1..2 |-> Review(n)]
    BY DEF Init
  <1>2. DOMAIN documents = 1..2 /\ DOMAIN reviews = 1..2
    BY <1>1
  <1>3. \A n \in 1..2 : /\ documents[n].type \in {"commercial_invoice", "packing_list"}
                        /\ documents[n].file = MaxFiles /\ DocumentShape(documents[n])
    BY <1>1 DEF DocumentShape
  <1>4. \A n \in 1..2 : reviews[n].n = n /\ reviews[n].decision = "approved" /\ reviews[n].file = MaxFiles
    BY <1>1
  <1>5. Shapes
    <2>1. documents \in Seq({First(1), First(2)})
      BY <1>1
    <2>2. reviews \in Seq({Review(1), Review(2)})
      BY <1>1
    <2>3. DOMAIN request = Requests /\ \A r \in Requests : RequestShape(request[r])
      BY <1>1, IdleKnows
    <2> HIDE DEF First, Review
    <2> QED
      BY <1>2, <1>3, <2>1, <2>2, <2>3 DEF Shapes
  <1>6. \A r \in Requests : Knows(request[r])
    BY <1>1, IdleKnows
  <1>7. PayloadsInv
    BY <1>2, <1>3 DEF PayloadsInv, CurrentFor
  <1>8. IssuedInv
    BY <1>2, <1>3, <1>4 DEF IssuedInv, WasApproved, ReviewsOf
  <1>9. EventsInv
    BY <1>1 DEF EventsInv
  <1> QED
    BY <1>5, <1>6, <1>7, <1>8, <1>9 DEF IInv

LEMMA Preserved == IInv /\ [Next]_vars => IInv'
  <1> SUFFICES ASSUME IInv, [Next]_vars PROVE IInv'
    OBVIOUS
  <1>1. ASSUME NEW r \in Requests, RequestStep(r) PROVE IInv'
    <2>1. ASSUME End(r) PROVE IInv'
      BY <2>1, IdleKnows, RequestGoes DEF End
    <2>2. ASSUME CompareSnapshot(r) PROVE IInv'
      BY <2>2, StepChanges DEF CompareSnapshot
    <2> QED
      BY <1>1, <2>1, <2>2, BeginsStep, ReadPayloadStep, InsertDocumentStep, InsertReviewStep,
         CopyFileStep, SupersedeOthersStep, CommitIssueStep DEF RequestStep
  <1>2. CASE EditShipment /\ UNCHANGED <<request, documents, files, reviews, events>>
    BY <1>2, UntouchedStep
  <1>3. CASE UNCHANGED vars
    BY <1>3, UntouchedStep DEF vars
  <1> QED
    BY <1>1, <1>2, <1>3, ShipmentStepKeeps, JobStepKeeps, EventStepKeeps DEF Next

LEMMA Invariant == Spec => []IInv
  BY Initial, Preserved, PTL DEF Spec

(* The payload of a handoff holds a confirmed carrier document reconciled with its own   *)
(* goods, and pins what was issued of its own source, although readiness was judged on    *)
(* an earlier reading (exportShipmentService.js: createDocumentJob).                     *)
THEOREM PayloadsAreCurrent == Spec => []PayloadIsCurrent
  <1>1. IInv => PayloadIsCurrent
    BY DEF IInv, PayloadsInv, CurrentFor, PinStands, PayloadIsCurrent
  <1> QED
    BY <1>1, Invariant, PTL

(* What is issued is a file that a reviewer approved, however often the file was           *)
(* generated again (exportShipmentService.js: issueDocument).                            *)
THEOREM ApprovedIsIssued == Spec => []IssuedAsApproved
  <1>1. IInv => IssuedAsApproved
    BY DEF IInv, IssuedInv, WasApproved, IssuedAsApproved
  <1> QED
    BY <1>1, Invariant, PTL

(* An event of an authority names a document that is or was issued, in the file it still   *)
(* has (exportShipmentService.js: recordVnCustomsEvent and its like).                    *)
THEOREM EventsName == Spec => []EventsNameIssued
  <1>1. IInv => EventsNameIssued
    BY DEF IInv, EventsInv, EventsNameIssued
  <1> QED
    BY <1>1, Invariant, PTL

=============================================================================
