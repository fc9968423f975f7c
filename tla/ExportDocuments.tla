---------------------------- MODULE ExportDocuments ----------------------------
(***************************************************************************)
(* The export documents of a shipment (exportShipmentService): a request      *)
(* creates a version from a snapshot, a job writes its file, a person reviews  *)
(* the file, a request issues it, and events of the authorities are recorded   *)
(* for what was issued. Readings and writings are statements of their own, so  *)
(* that the shipment, the files and the other requests move in between.        *)
(* Statements are joined where nothing else reads or writes what both touch.   *)
(***************************************************************************)
EXTENDS ExportShipment

CONSTANTS
    FirstCarrier,       \* evidence of the carrier document that is confirmed at first
    MaxDocuments, MaxFiles, MaxReviews, MaxEvents   \* bounds

Types == Supporting \cup {"carbon_annex", "ics2_dataset", "origin_workbook",
                          "vn_customs_handoff", "eu_import_handoff"}
ReviewedTypes == Types \ {"carbon_annex"}    \* REVIEW_ROLE_BY_DOCUMENT

VARIABLES
    documents,   \* export_documents, in the order of creation, with their report's status
    files,       \* files[n]: the generations being stored, and what is on disk
    reviews,     \* export_document_reviews, in order
    events       \* the external events of the authorities

vars == <<document, goods, handoff, carrier, edits, request, documents, files, reviews, events>>
shipment == <<document, goods, handoff, carrier, edits>>

Frozen(n) == documents[n].status \in {"issued", "superseded"}
Issued(type) == {n \in DOMAIN documents : documents[n].type = type /\ documents[n].status = "issued"}

Pin(n) == [n |-> n, type |-> documents[n].type, file |-> documents[n].file,
           source |-> documents[n].payload.source]
Pinned == {Pin(n) : n \in UNION {Issued(t) : t \in Supporting}}
getProfile == Snapshot(Pinned)

-----------------------------------------------------------------------------
(* createDocumentJob: readiness of one snapshot, the payload of another.     *)

createDocumentJob(r, type) ==
    /\ request[r].step = "idle" /\ Len(documents) < MaxDocuments
    /\ Ready(getProfile, type)
    /\ Goto(r, [Idle EXCEPT !.step = "creating", !.type = type])
    /\ UNCHANGED <<shipment, documents, files, reviews, events>>

ReadPayload(r) ==
    /\ request[r].step = "creating"
    /\ Goto(r, [request[r] EXCEPT !.step = "created",
                            !.payload = DocumentSource(getProfile, request[r].type)])
    /\ UNCHANGED <<shipment, documents, files, reviews, events>>

(* The bytes on disk may be refused; what the checks read decides otherwise. *)
verifyCurrentCarrierEvidence(p) == \E d \in CarrierFiles : CarrierCurrent(p.source, d) /\ Confirmed(d)
verifyCurrentOriginEvidence == OriginFiles \subseteq Controlled
verifyCurrentSupportingDocuments(p) ==
    \A t \in Supporting : \E pin \in p.pinned :
        pin.type = t /\ isCurrentIssuedSupportingDocument(p.source, pin) /\ pin.n \in Issued(t)

Verified(p, type) ==
    /\ type \in {"carbon_annex", "ics2_dataset", "vn_customs_handoff", "eu_import_handoff"}
         => verifyCurrentCarrierEvidence(p)
    /\ type = "origin_workbook" => verifyCurrentOriginEvidence
    /\ type \in {"vn_customs_handoff", "eu_import_handoff"} => verifyCurrentSupportingDocuments(p)

InsertDocument_Unverified(r) ==
    LET s == request[r]
    IN  /\ s.step = "created" /\ Len(documents) < MaxDocuments
        /\ documents' = Append(documents, [type |-> s.type, status |-> "ready", file |-> 0,
               report |-> "processing", payload |-> s.payload])
        /\ files' = Append(files, [storing |-> {}, disk |-> 0])
        /\ Goto(r, Idle)
        /\ UNCHANGED <<shipment, reviews, events>>

(* The checks, then the transaction that takes the next version of the type   *)
(* (unique: a version that is taken aborts) and queues the job.              *)
InsertDocument(r) ==
    LET s == request[r]
    IN  /\ s.step = "created" /\ Len(documents) < MaxDocuments
        /\ Verified(s.payload, s.type)
        /\ documents' = Append(documents, [type |-> s.type, status |-> "ready", file |-> 0,
               report |-> "processing", payload |-> s.payload])
        /\ files' = Append(files, [storing |-> {}, disk |-> 0])
        /\ Goto(r, Idle)
        /\ UNCHANGED <<shipment, reviews, events>>

-----------------------------------------------------------------------------
(* The job: write the file, then store its digest. A retry, or a run whose    *)
(* lock went stale, generates the file again, at the same place.             *)

generateDocumentFile(n) ==
    /\ files[n].disk < MaxFiles
    /\ files' = [files EXCEPT ![n].disk = files[n].disk + 1,
                              ![n].storing = files[n].storing \cup {files[n].disk + 1}]
    /\ UNCHANGED <<shipment, request, documents, reviews, events>>

Stored(n, k) == files' = [files EXCEPT ![n].storing = files[n].storing \ {k}]

(* The trigger on export_documents rejects a new file of an issued document.  *)
StoreFile(n, k) ==
    /\ k \in files[n].storing /\ ~Frozen(n) /\ Stored(n, k)
    /\ documents' = [documents EXCEPT ![n].file = k, ![n].report = "completed"]
    /\ UNCHANGED <<shipment, request, reviews, events>>

markDocumentFailed(n, k) ==     \* for a superseded one the trigger rejects this too
    /\ k \in files[n].storing /\ Stored(n, k)
    /\ documents' = IF Frozen(n) THEN documents
         ELSE [documents EXCEPT ![n].status = "failed",
                 ![n].report = IF documents[n].report = "completed" THEN "completed" ELSE "failed"]
    /\ UNCHANGED <<shipment, request, reviews, events>>

-----------------------------------------------------------------------------
(* reviewDocument: the row is read, then the shipment; the review names the   *)
(* file that was read.                                                      *)

Decisions == {"approved", "refused"}    \* refused: rejected, changes_requested

reviewDocument(r, n) ==
    /\ request[r].step = "idle"
    /\ documents[n].type \in ReviewedTypes /\ documents[n].status = "ready"
    /\ documents[n].report = "completed" /\ documents[n].file # 0
    /\ Goto(r, [Idle EXCEPT !.step = "reviewing", !.n = n, !.file = documents[n].file])
    /\ UNCHANGED <<shipment, documents, files, reviews, events>>

InsertReview(r) ==
    LET s == request[r]
    IN  /\ s.step = "reviewing" /\ Len(reviews) < MaxReviews
        /\ DocumentSource(getProfile, documents[s.n].type) = documents[s.n].payload
        /\ \E decision \in Decisions :
              reviews' = Append(reviews, [n |-> s.n, decision |-> decision, file |-> s.file])
        /\ Goto(r, Idle)
        /\ UNCHANGED <<shipment, documents, files, events>>

-----------------------------------------------------------------------------
(* issueDocument: the row and the readiness; a second snapshot that must be    *)
(* what the document was made of; the evidence; the latest review; a copy of   *)
(* the file; and the transaction.                                            *)

issueDocument(r, n) ==
    /\ request[r].step = "idle" /\ documents[n].status # "issued" /\ documents[n].report = "completed"
    /\ Ready(getProfile, documents[n].type)
    /\ Goto(r, [Idle EXCEPT !.step = "issuing", !.n = n, !.type = documents[n].type,
                            !.file = documents[n].file])
    /\ UNCHANGED <<shipment, documents, files, reviews, events>>

CompareSnapshot(r) ==
    LET s == request[r]
    IN  /\ s.step = "issuing"
        /\ DocumentSource(getProfile, s.type) = documents[s.n].payload
        /\ Goto(r, [s EXCEPT !.step = "compared"])
        /\ UNCHANGED <<shipment, documents, files, reviews, events>>

ReviewsOf(n) == {i \in DOMAIN reviews : reviews[i].n = n}
IsLatestReview(n, i) == i \in ReviewsOf(n) /\ \A j \in ReviewsOf(n) : j <= i

CopyFile_NotRefused(r) ==
    LET s == request[r]
    IN  /\ s.step = "compared" /\ Verified(documents[s.n].payload, s.type)
        /\ s.type \in ReviewedTypes => \A i \in DOMAIN reviews :
              IsLatestReview(s.n, i) => reviews[i].decision = "approved"
        /\ files[s.n].disk = s.file
        /\ Goto(r, [s EXCEPT !.step = "copied"])
        /\ UNCHANGED <<shipment, documents, files, reviews, events>>

CopyFile(r) ==
    LET s == request[r]
    IN  /\ s.step = "compared" /\ Verified(documents[s.n].payload, s.type)
        /\ s.type \in ReviewedTypes => \E i \in DOMAIN reviews :
              /\ IsLatestReview(s.n, i)
              /\ reviews[i].decision = "approved" /\ reviews[i].file = s.file
        /\ files[s.n].disk = s.file      \* or DOCUMENT_SOURCE_FILE_TAMPERED
        /\ Goto(r, [s EXCEPT !.step = "copied"])
        /\ UNCHANGED <<shipment, documents, files, reviews, events>>

Locked(n) == \E q \in Requests : request[q].step = "superseding" /\ n \in request[q].old

(* The transaction supersedes the versions it sees issued, whose rows it then *)
(* holds, and issues its own; what it does is seen when it commits.          *)
SupersedeOthers(r) ==
    LET old == Issued(request[r].type) \ {request[r].n}
    IN  /\ request[r].step = "copied" /\ \A n \in old : ~Locked(n)
        /\ Goto(r, [request[r] EXCEPT !.step = "superseding", !.old = old])
        /\ UNCHANGED <<shipment, documents, files, reviews, events>>

CommitIssue(r) ==
    LET s == request[r]
    IN  /\ s.step = "superseding" /\ ~Locked(s.n)
        /\ documents[s.n].status # "superseded"                              \* the trigger
        /\ documents[s.n].status = "issued" => documents[s.n].file = s.file   \* the trigger
        /\ documents' = [n \in DOMAIN documents |->
              IF n = s.n THEN [documents[n] EXCEPT !.status = "issued", !.file = s.file]
              ELSE IF n \in s.old THEN [documents[n] EXCEPT !.status = "superseded"]
              ELSE documents[n]]
        /\ Goto(r, Idle)
        /\ UNCHANGED <<shipment, files, reviews, events>>

-----------------------------------------------------------------------------
(* What an authority or a broker answered, on evidence that is controlled.    *)
(* One transaction holds both rows FOR SHARE. No order is required of events. *)

RecordEvent_Early(n, type) ==
    /\ documents[n].type = type
    /\ Controlled # {} /\ Cardinality(events) < MaxEvents
    /\ events' = events \cup {[n |-> n, file |-> documents[n].file]}
    /\ UNCHANGED <<shipment, request, documents, files, reviews>>

RecordEvent(n, type) ==
    /\ documents[n].type = type /\ documents[n].status = "issued"
    /\ Controlled # {} /\ Cardinality(events) < MaxEvents
    /\ events' = events \cup {[n |-> n, file |-> documents[n].file]}
    /\ UNCHANGED <<shipment, request, documents, files, reviews>>
recordVnCustomsEvent(n) == RecordEvent(n, "vn_customs_handoff")
recordEuImportEvent(n) == RecordEvent(n, "eu_import_handoff")
recordIcs2Event(n) == RecordEvent(n, "ics2_dataset")

End(r) ==     \* an error, a refusal or a lost connection: a transaction rolls back
    /\ request[r].step # "idle" /\ Goto(r, Idle)
    /\ UNCHANGED <<shipment, documents, files, reviews, events>>

-----------------------------------------------------------------------------
(* A shipment whose goods and profiles were entered, whose carrier document    *)
(* was confirmed and whose invoice and packing list were issued; since then a  *)
(* new carrier document was drafted, or the line and the packing deleted.     *)

Entered == [profile |-> "a", container |-> "a", package |-> "a",
            line |-> [id |-> 0, code |-> 1, confirmed |-> TRUE, carbon |-> "calculated", authority |-> TRUE]]
ConfirmedCarrier == [id |-> 0, status |-> "confirmed", details |-> "a", supersedes |-> "none",
                     hash |-> [goods |-> Entered, details |-> "a"]]
Emptied == [Entered EXCEPT !.line = NoLine, !.package = "none"]
InitGoods == {Entered, Emptied, [Emptied EXCEPT !.container = "none"]}
NewCarriers == [e \in CarrierFiles |-> NoCarrier]
InitPayload(d) ==
    [NoPayload EXCEPT !.source = [goods |-> Entered, carriers |-> [e \in CarrierFiles \cup OriginFiles |->
        [row |-> IF e = d THEN ConfirmedCarrier ELSE NoCarrier,
         evidence |-> IF e \in OriginFiles \cup {d} THEN "controlled" ELSE "open"]]]]

Init == LET d == FirstCarrier IN
    /\ document = [e \in Documents |-> IF e \in OriginFiles \cup {d} THEN "controlled" ELSE "open"]
    /\ handoff = [p \in Profiles |-> "a"]
    /\ \/ goods \in InitGoods /\ carrier = [NewCarriers EXCEPT ![d] = ConfirmedCarrier]
       \/ goods = Entered /\ carrier = [e \in CarrierFiles |->
            IF e = d THEN ConfirmedCarrier
            ELSE [NoCarrier EXCEPT !.status = "draft", !.details = "a", !.supersedes = d]]
    /\ edits = 0 /\ request = [r \in Requests |-> Idle] /\ events = {}
    /\ documents = [n \in 1..2 |-> [type |-> IF n = 1 THEN "commercial_invoice" ELSE "packing_list",
                      status |-> "issued", file |-> MaxFiles, report |-> "completed",
                      payload |-> InitPayload(d)]]
    /\ files = [n \in 1..2 |-> [storing |-> {}, disk |-> MaxFiles]]
    /\ reviews = [n \in 1..2 |-> [n |-> n, decision |-> "approved", file |-> MaxFiles]]

RequestStep(r) ==
    \/ (\E type \in Types : createDocumentJob(r, type)) \/ ReadPayload(r) \/ InsertDocument(r)
    \/ (\E n \in DOMAIN documents : reviewDocument(r, n) \/ issueDocument(r, n))
    \/ InsertReview(r) \/ CompareSnapshot(r) \/ CopyFile(r) \/ SupersedeOthers(r) \/ CommitIssue(r)
    \/ End(r)

JobStep(n) ==
    generateDocumentFile(n) \/ \E k \in files[n].storing : StoreFile(n, k) \/ markDocumentFailed(n, k)

EventStep(n) == recordVnCustomsEvent(n) \/ recordEuImportEvent(n) \/ recordIcs2Event(n)

Rest == <<documents, files, reviews, events>>

Next ==
    \/ \E r \in Requests : RequestStep(r) \/ (ShipmentStep(r) /\ UNCHANGED Rest)
    \/ EditShipment /\ UNCHANGED <<request, documents, files, reviews, events>>
    \/ \E n \in DOMAIN documents : JobStep(n) \/ EventStep(n)

Spec == Init /\ [][Next]_vars

-----------------------------------------------------------------------------
(* The payload of a customs, import or ENS handoff and of a carbon annex holds *)
(* a confirmed carrier document reconciled with the very goods of the payload, *)
(* and a customs or import handoff pins an invoice and a packing list that     *)
(* were issued, in the file that is pinned, from that payload's own source:    *)
(* although readiness was judged on an earlier reading of the shipment.        *)
CarrierInPayload(p) ==
    \E d \in CarrierFiles :
        /\ p.source.carriers[d].row.status = "confirmed"
        /\ p.source.carriers[d].row.hash = [goods |-> p.source.goods, details |-> p.source.carriers[d].row.details]
PinIsIssued(pin) == Frozen(pin.n) /\ documents[pin.n].type = pin.type /\ documents[pin.n].file = pin.file
PayloadIsCurrent == \A n \in DOMAIN documents :
    LET p == documents[n].payload
    IN  /\ documents[n].type \in {"carbon_annex", "ics2_dataset", "vn_customs_handoff", "eu_import_handoff"}
             => CarrierInPayload(p)
        /\ documents[n].type \in {"vn_customs_handoff", "eu_import_handoff"} =>
             \A t \in Supporting : \E pin \in p.pinned :
                 pin.type = t /\ pin.source = p.source /\ PinIsIssued(pin)

(* The file of an issued document that needs a review is one that a reviewer   *)
(* approved, however often the file was generated again meanwhile.            *)
IssuedAsApproved == \A n \in DOMAIN documents :
    documents[n].type \in ReviewedTypes /\ Frozen(n) =>
        \E i \in ReviewsOf(n) : reviews[i].decision = "approved" /\ reviews[i].file = documents[n].file

(* An external event names an issued document, in the file it still has.       *)
EventsNameIssued == \A e \in events : Frozen(e.n) /\ documents[e.n].file = e.file
===============================================================================
