------------------------------- MODULE Evidence -------------------------------
(***************************************************************************)
(* An evidence document, from its upload to the records it feeds: a job      *)
(* extracts fields from the file and derives an invoice, a person confirms    *)
(* the fields and locks the document, candidates for industrial activity      *)
(* records are built from a review and promoted. A job may be running twice   *)
(* (see JobQueue), and a document may be locked, confirmed or deleted while    *)
(* it runs. A step is a statement, or a transaction that holds the row.       *)
(***************************************************************************)
EXTENDS Naturals, Sequences, FiniteSets, TLC

CONSTANTS
    Documents, File,       \* File[d]: the checksum of the stored file of d
    MaxAttempts,           \* MaxAttempts[d]: attempts of the extraction job of d
    Given,                 \* Given[d]: the fields d may be created with
    Results,               \* what an extraction may find: functions from fields to values
    References,            \* activity references
    MaxReviews, MaxCandidates  \* bounds

VARIABLES
    row,         \* evidence_documents: [status, fields]
    job,         \* operational_jobs of kind evidence_process
    attempt,     \* attempt[d][a]: where an extraction is
    invoices,    \* electricity_invoices, fuel_invoices: [document, attempt]
    deleting,    \* deleting[d]: the invoices an open deletion has removed, if one is open
    reviews,     \* evidence_ai_extraction_reviews
    candidates,  \* evidence_ai_activity_candidates
    activities   \* industrial_activity_records and their promotions

vars == <<row, job, attempt, invoices, deleting, reviews, candidates, activities>>
feeds == <<reviews, candidates, activities>>

Unread == <<>>     \* extracted_json holds nothing to review
Orphan == "none"   \* evidence_document_id IS NULL
Attempts(d) == 1..MaxAttempts[d]
Running == {"reading", "parsed", "inserting", "ending"}

Exists(d) == row[d].status \notin {"none", "deleted"}
Controlled(d) == row[d].status = "locked"

Init ==
    /\ row = [d \in Documents |-> [status |-> "none", fields |-> Unread]]
    /\ job = [d \in Documents |-> "none"]
    /\ attempt = [d \in Documents |-> [a \in Attempts(d) |-> "none"]]
    /\ invoices = {} /\ deleting = [d \in Documents |-> {}]
    /\ reviews = <<>> /\ candidates = <<>> /\ activities = {}

-----------------------------------------------------------------------------
(* Upload and extraction. A document may bring fields of its own. The job is   *)
(* enqueued after the row is committed; a restart in between leaves it to the   *)
(* backfill.                                                                 *)

createEvidence(d) ==
    /\ row[d].status = "none"
    /\ \E fields \in Given[d] :
         row' = [row EXCEPT ![d] = [status |-> "uploaded", fields |-> fields]]
    /\ UNCHANGED <<job, attempt, invoices, deleting, feeds>>

Enqueue(d) ==
    /\ job[d] = "none" /\ job' = [job EXCEPT ![d] = "queued"]
    /\ UNCHANGED <<row, attempt, invoices, deleting, feeds>>

upload(d) == row[d].status # "none" /\ Enqueue(d)
backfillEvidence(d) == row[d].status = "uploaded" /\ Enqueue(d)

To(d, a, step) == attempt' = [attempt EXCEPT ![d][a] = step]

\* An attempt follows a failed one, or one whose lock went stale.
processStoredEvidence(d, a) ==
    /\ job[d] # "none" /\ Exists(d) /\ attempt[d][a] = "none"
    /\ \A b \in Attempts(d) : b < a => attempt[d][b] \in Running \cup {"failed"}
    /\ To(d, a, "reading")
    /\ job' = IF \E b \in Attempts(d) : attempt[d][b] \in Running
              THEN [job EXCEPT ![d] = "reclaimed"] ELSE job
    /\ UNCHANGED <<row, invoices, deleting, feeds>>

\* The job completes, or the process ends before it does.
Complete(d, a) ==
    /\ attempt[d][a] = "ending" /\ To(d, a, "done")
    /\ UNCHANGED <<row, job, invoices, deleting, feeds>>

Interrupted(d, a) ==
    /\ attempt[d][a] \in Running /\ To(d, a, "failed")
    /\ UNCHANGED <<row, job, invoices, deleting, feeds>>

\* No field was found (nothing to retry), or the analysis failed (it is retried).
markExtractionFailed(d, a) ==
    /\ attempt[d][a] = "reading"
    /\ \E step \in {"ending", "failed"} : To(d, a, step)
    /\ row' = IF Exists(d) THEN [row EXCEPT ![d].status = "extract_failed"] ELSE row
    /\ UNCHANGED <<job, invoices, deleting, feeds>>

\* A variant, never taken: the result is stored whether or not the row is there.
updateExtractedJson_Upsert(d, a) ==
    /\ attempt[d][a] = "reading" /\ To(d, a, "parsed")
    /\ \E result \in Results :
         row' = [row EXCEPT ![d] = [status |-> "ocr_parsed", fields |-> result @@ @.fields]]
    /\ UNCHANGED <<job, invoices, deleting, feeds>>

updateExtractedJson(d, a) ==
    /\ attempt[d][a] = "reading" /\ To(d, a, "parsed")
    /\ \E result \in Results :
         row' = IF Exists(d)
                THEN [row EXCEPT ![d] = [status |-> "ocr_parsed", fields |-> result @@ @.fields]]
                ELSE row
    /\ UNCHANGED <<job, invoices, deleting, feeds>>

\* A variant, never taken: the invoice is derived without looking for one.
FindInvoice_Unseen(d, a) ==
    /\ attempt[d][a] = "parsed" /\ To(d, a, "inserting")
    /\ UNCHANGED <<row, job, invoices, deleting, feeds>>

\* Only a bill with a quantity is looked up; a bill that has its invoice is done.
FindInvoice(d, a) ==
    /\ attempt[d][a] = "parsed"
    /\ \/ To(d, a, "ending")
       \/ {i \in invoices : i.document = d} = {} /\ To(d, a, "inserting")
    /\ UNCHANGED <<row, job, invoices, deleting, feeds>>

InsertInvoice(d, a) ==
    /\ attempt[d][a] = "inserting" /\ To(d, a, "ending")
    /\ invoices' = IF Exists(d) THEN invoices \cup {[document |-> d, attempt |-> <<d, a>>]} ELSE invoices
    /\ UNCHANGED <<row, job, deleting, feeds>>

-----------------------------------------------------------------------------
(* Control by people. Locking and confirming hold the row they have read.    *)

lockEvidenceWithAudit(d) ==
    /\ Exists(d) /\ row[d].fields = Unread
    /\ row' = [row EXCEPT ![d].status = "locked"]
    /\ UNCHANGED <<job, attempt, invoices, deleting, feeds>>

confirmExtractionWithAudit(d) ==
    /\ Exists(d) /\ row[d].fields # Unread /\ Len(reviews) < MaxReviews
    /\ reviews' = Append(reviews, [document |-> d, fields |-> row[d].fields])
    /\ row' = [row EXCEPT ![d].status = "locked"]
    /\ UNCHANGED <<job, attempt, invoices, deleting, candidates, activities>>

\* The two statements of one transaction: the invoices found are removed, then
\* the row. Reviews, candidates and activities forbid the second (ON DELETE
\* RESTRICT) and it is all undone; an invoice added in between loses its document.
deleteLinkedInvoices(d) ==
    /\ Exists(d) /\ deleting[d] = {}
    /\ deleting' = [deleting EXCEPT ![d] = {{i \in invoices : i.document = d}}]
    /\ UNCHANGED <<row, job, attempt, invoices, feeds>>

Bound(d) == \/ \E n \in DOMAIN reviews : reviews[n].document = d
            \/ \E n \in DOMAIN candidates : d \in candidates[n].documents
            \/ \E activity \in activities : d \in activity.documents

deleteEvidence(d) ==
    /\ deleting[d] # {} /\ deleting' = [deleting EXCEPT ![d] = {}]
    /\ IF Bound(d) THEN UNCHANGED <<row, invoices>>
       ELSE /\ row' = [row EXCEPT ![d] = [status |-> "deleted", fields |-> Unread]]
            /\ invoices' = {IF i.document = d THEN [i EXCEPT !.document = Orphan] ELSE i :
                              i \in invoices \ UNION deleting[d]}
    /\ UNCHANGED <<job, attempt, feeds>>

-----------------------------------------------------------------------------
(* Promotion. A candidate names its review and the other documents accepted   *)
(* as support; its source must still be locked with the fields reviewed. One   *)
(* that has blockers is never promoted and is left out.                       *)

_contextGate(review) ==
    Controlled(review.document) /\ row[review.document].fields = review.fields

createCandidate(n) ==
    /\ n \in DOMAIN reviews /\ Len(candidates) < MaxCandidates
    /\ _contextGate(reviews[n])
    /\ \E reference \in References, matches \in SUBSET {d \in Documents : Controlled(d)} :
         candidates' = Append(candidates,
           [reference |-> reference, review |-> n,
            documents |-> matches \cup {reviews[n].document}])
    /\ UNCHANGED <<row, job, attempt, invoices, deleting, reviews, activities>>

Activity(n) == [reference |-> candidates[n].reference, candidate |-> n,
                source |-> File[reviews[candidates[n].review].document],
                documents |-> candidates[n].documents]

\* UNIQUE (company_id, activity_reference, source_sha256) and UNIQUE (candidate_id).
Promoted(activity) ==
    \E other \in activities :
       \/ other.candidate = activity.candidate
       \/ other.reference = activity.reference /\ other.source = activity.source

promote(n) ==
    /\ n \in DOMAIN candidates
    /\ _contextGate(reviews[candidates[n].review])
    /\ \A d \in candidates[n].documents : Controlled(d)
    /\ ~Promoted(Activity(n))
    /\ activities' = activities \cup {Activity(n)}
    /\ UNCHANGED <<row, job, attempt, invoices, deleting, reviews, candidates>>

-----------------------------------------------------------------------------
Extract(d, a) ==
    \/ processStoredEvidence(d, a) \/ markExtractionFailed(d, a)
    \/ updateExtractedJson(d, a) \/ FindInvoice(d, a) \/ InsertInvoice(d, a)
    \/ Complete(d, a) \/ Interrupted(d, a)

Next ==
    \/ \E d \in Documents :
         \/ createEvidence(d) \/ upload(d) \/ backfillEvidence(d)
         \/ lockEvidenceWithAudit(d) \/ confirmExtractionWithAudit(d)
         \/ deleteLinkedInvoices(d) \/ deleteEvidence(d)
         \/ \E a \in Attempts(d) : Extract(d, a)
    \/ \E n \in DOMAIN reviews : createCandidate(n)
    \/ \E n \in DOMAIN candidates : promote(n)

Spec == Init /\ [][Next]_vars

-----------------------------------------------------------------------------
(* Properties.                                                               *)

(* A document gets two invoices only when its job was reclaimed while an      *)
(* attempt was still at work: the SELECT before the INSERT (processor.js:66)  *)
(* guards against a retry, and against nothing that runs beside it.           *)
OneInvoiceAlone ==
    \A i, j \in invoices :
       i.attempt[1] = j.attempt[1] /\ i # j => job[i.attempt[1]] = "reclaimed"

(* A file uploaded twice, or confirmed twice, becomes at most one activity    *)
(* under a reference, and a candidate at most one activity                    *)
(* (aiActivityPromotionService.js:488, AI_ACTIVITY_PROMOTION_DUPLICATE).      *)
PromotedOnce ==
    \A x, y \in activities :
       \/ x.candidate = y.candidate
       \/ x.reference = y.reference /\ x.source = y.source
       => x = y

(* No deletion takes away a document that an activity record cites.          *)
SourcesKept ==
    \A d \in Documents :
       (\E activity \in activities : d \in activity.documents) => Exists(d)

FedOnce == OneInvoiceAlone /\ PromotedOnce /\ SourcesKept

(* To the parts that bind evidence, a document is uploaded, controlled,        *)
(* reopened by a late extraction and deleted, and nothing else: a deleted      *)
(* document never returns, whichever of its attempts is still running.        *)
Seen(status) == IF status \in {"none", "deleted"} THEN status
                ELSE IF status = "locked" THEN "controlled" ELSE "open"
document == [d \in Documents |-> Seen(row[d].status)]

CD == INSTANCE ControlledDocuments

ImplementsDocuments == CD!DocumentsSpec
================================================================================
