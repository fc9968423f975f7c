---------------------------- MODULE EvidenceProofs ----------------------------
(***************************************************************************)
(* Evidence implements ControlledDocuments, and a source feeds what it feeds  *)
(* once, for any documents, attempts, extraction results and bounds.         *)
(***************************************************************************)
EXTENDS Evidence, TLAPS

(* The rows and the attempts have their shape, whatever fields are extracted. *)
RowShape == row = [d \in Documents |-> [status |-> row[d].status, fields |-> row[d].fields]]
AttemptShape == attempt = [d \in Documents |-> [a \in Attempts(d) |-> attempt[d][a]]]
Shape ==
    /\ RowShape /\ AttemptShape
    /\ job = [d \in Documents |-> job[d]]
    /\ deleting = [d \in Documents |-> deleting[d]]

(* What the invoices of a document say of its attempts. An invoice belongs to  *)
(* the attempt that derived it, which has inserted it; it loses its document    *)
(* only with the document.                                                   *)
InvoiceOrigin ==
    \A i \in invoices : \E d \in Documents :
       /\ i = [document |-> i.document, attempt |-> i.attempt]
       /\ i.attempt[1] = d
       /\ i.document = d \/ row[d].status = "deleted"

(* Unless the job was reclaimed, one attempt runs at a time, and what it is     *)
(* about to insert is the first invoice.                                     *)
OneRunning ==
    \A d \in Documents : job[d] # "reclaimed" =>
       \A a, b \in Attempts(d) : attempt[d][a] \in Running /\ attempt[d][b] \in Running => a = b

FirstInvoice ==
    \A d \in Documents : \A a \in Attempts(d) :
       job[d] # "reclaimed" /\ attempt[d][a] = "inserting" /\ Exists(d) =>
          \A i \in invoices : i.attempt[1] # d

(* A document that is not there runs nothing, and one being deleted is there.  *)
Presence ==
    /\ \A d \in Documents : row[d].status = "none" =>
         \A a \in Attempts(d) : attempt[d][a] = "none"
    /\ \A d \in Documents : deleting[d] # {} => Exists(d)

IInv == Shape /\ Presence /\ InvoiceOrigin /\ OneRunning /\ FirstInvoice /\ FedOnce

-----------------------------------------------------------------------------
LEMMA Initially == Init => IInv
  <1> SUFFICES ASSUME Init PROVE IInv
    OBVIOUS
  <1>1. Shape
    <2>1. RowShape
      BY DEF Init, RowShape
    <2>2. AttemptShape
      BY DEF Init, AttemptShape
    <2>3. /\ job = [d \in Documents |-> job[d]]
          /\ deleting = [d \in Documents |-> deleting[d]]
      BY DEF Init
    <2> QED
      BY <2>1, <2>2, <2>3 DEF Shape
  <1>2. OneRunning /\ FirstInvoice /\ Presence
    BY DEF Init, OneRunning, FirstInvoice, Running, Presence
  <1>3. InvoiceOrigin /\ FedOnce
    BY DEF Init, InvoiceOrigin, FedOnce, OneInvoiceAlone, PromotedOnce, SourcesKept
  <1> QED
    BY <1>1, <1>2, <1>3 DEF IInv

(* What a step of one row, or of one attempt, leaves of the others.           *)
LEMMA AttemptStep ==
    ASSUME AttemptShape, NEW d \in Documents, NEW a \in Attempts(d), NEW step, To(d, a, step)
    PROVE  /\ AttemptShape'
           /\ attempt'[d][a] = step
           /\ \A e \in Documents : \A b \in Attempts(e) :
                 e # d \/ b # a => attempt'[e][b] = attempt[e][b]
  <1>1. attempt' = [attempt EXCEPT ![d] = [attempt[d] EXCEPT ![a] = step]]
    BY DEF To
  <1> DEFINE new == [attempt[d] EXCEPT ![a] = step]
  <1>2. attempt[d] = [b \in Attempts(d) |-> attempt[d][b]]
    BY DEF AttemptShape
  <1>3. /\ new = [b \in Attempts(d) |-> new[b]]
        /\ new[a] = step
        /\ \A b \in Attempts(d) : b # a => new[b] = attempt[d][b]
    BY <1>2
  <1> HIDE DEF new
  <1>4. /\ attempt'[d] = new
        /\ \A e \in Documents : e # d => attempt'[e] = attempt[e]
        /\ attempt' = [e \in Documents |-> attempt'[e]]
    BY <1>1 DEF AttemptShape, new
  <1>5. \A e \in Documents : attempt'[e] = [b \in Attempts(e) |-> attempt'[e][b]]
    BY <1>3, <1>4 DEF AttemptShape
  <1>6. AttemptShape'
    BY <1>4, <1>5 DEF AttemptShape
  <1> QED
    BY <1>3, <1>4, <1>6

LEMMA RowStep ==
    ASSUME RowShape, NEW d \in Documents, NEW status, NEW fields,
           row' = [row EXCEPT ![d] = [status |-> status, fields |-> fields]]
    PROVE  /\ RowShape'
           /\ row'[d].status = status
           /\ \A e \in Documents : e # d => row'[e].status = row[e].status
           /\ document' = [document EXCEPT ![d] = Seen(status)]
  <1>1. /\ row'[d] = [status |-> status, fields |-> fields]
        /\ row' = [e \in Documents |-> row'[e]]
        /\ \A e \in Documents : e # d => row'[e] = row[e]
    BY DEF RowShape
  <1>2. \A e \in Documents : row'[e] = [status |-> row'[e].status, fields |-> row'[e].fields]
    BY <1>1 DEF RowShape
  <1>3. RowShape'
    BY <1>1, <1>2 DEF RowShape
  <1>4. document' = [document EXCEPT ![d] = Seen(status)]
    BY <1>1 DEF document
  <1> QED
    BY <1>1, <1>3, <1>4

LEMMA StatusStep ==
    ASSUME RowShape, NEW d \in Documents, NEW status, row' = [row EXCEPT ![d].status = status]
    PROVE  /\ RowShape'
           /\ row'[d].status = status
           /\ \A e \in Documents : e # d => row'[e].status = row[e].status
           /\ document' = [document EXCEPT ![d] = Seen(status)]
  <1>1. [row[d] EXCEPT !.status = status] = [status |-> status, fields |-> row[d].fields]
    BY DEF RowShape
  <1>2. /\ row'[d] = [status |-> status, fields |-> row[d].fields]
        /\ row' = [e \in Documents |-> row'[e]]
        /\ \A e \in Documents : e # d => row'[e] = row[e]
    BY <1>1 DEF RowShape
  <1>3. \A e \in Documents : row'[e] = [status |-> row'[e].status, fields |-> row'[e].fields]
    BY <1>2 DEF RowShape
  <1>4. RowShape'
    BY <1>2, <1>3 DEF RowShape
  <1>5. document' = [document EXCEPT ![d] = Seen(status)]
    BY <1>2 DEF document
  <1> QED
    BY <1>2, <1>4, <1>5

(* How a row may move: it appears, it stays, or its deletion ends.           *)
RowMoves ==
    /\ RowShape'
    /\ \A d \in Documents :
         \/ row'[d].status = row[d].status
         \/ row[d].status = "none" /\ row'[d].status = "uploaded"
         \/ Exists(d) /\ Exists(d)'
         \/ Exists(d) /\ row'[d].status = "deleted" /\ deleting[d] # {} /\ ~Bound(d)
            /\ UNCHANGED activities /\ deleting'[d] = {}

(* What a step is to the abstract documents.                                 *)
DocumentMoves == CD!DocumentsNext \/ document' = document

LEMMA Becomes ==
    ASSUME NEW d \in Documents, NEW status, document[d] = Seen(row[d].status),
           document' = [document EXCEPT ![d] = Seen(status)],
           \/ row[d].status = "none" /\ status = "uploaded"
           \/ Exists(d) /\ status \in {"extract_failed", "ocr_parsed", "locked", "deleted"}
    PROVE  DocumentMoves
  <1>1. document = [e \in Documents |-> document[e]]
    BY DEF document
  <1>2. CASE document[d] = Seen(status)
    BY <1>1, <1>2 DEF DocumentMoves
  <1>3. CASE document[d] # Seen(status)
    <2>1. \/ document[d] = "none" /\ Seen(status) = "open"
          \/ document[d] \in {"open", "controlled"} /\ Seen(status) = "deleted"
          \/ document[d] = "open" /\ Seen(status) = "controlled"
          \/ document[d] = "controlled" /\ Seen(status) = "open"
      BY <1>3 DEF Seen, Exists
    <2>2. CD!Upload(d) \/ CD!Delete(d) \/ CD!Lock(d) \/ CD!Reopen(d)
      BY <2>1 DEF CD!Upload, CD!Delete, CD!Lock, CD!Reopen, CD!Become
    <2> QED
      BY <2>2 DEF DocumentMoves, CD!DocumentsNext
  <1> QED
    BY <1>2, <1>3

LEMMA RowMoved ==
    ASSUME RowShape, NEW d \in Documents, NEW status,
           RowShape', row'[d].status = status,
           \A e \in Documents : e # d => row'[e].status = row[e].status,
           document' = [document EXCEPT ![d] = Seen(status)],
           \/ row[d].status = "none" /\ status = "uploaded"
           \/ Exists(d) /\ status \in {"extract_failed", "ocr_parsed", "locked"}
           \/ Exists(d) /\ status = "deleted" /\ deleting[d] # {} /\ ~Bound(d)
              /\ UNCHANGED activities /\ deleting'[d] = {}
    PROVE  RowMoves /\ DocumentMoves
  <1>1. document[d] = Seen(row[d].status)
    BY DEF document
  <1>2. DocumentMoves
    BY <1>1, Becomes
  <1>3. RowMoves
    BY DEF RowMoves, Exists
  <1> QED
    BY <1>2, <1>3

LEMMA RowStays == ASSUME RowShape, row' = row PROVE RowMoves /\ DocumentMoves
  BY DEF RowShape, RowMoves, DocumentMoves, document

LEMMA RowsMove == ASSUME Shape, RowShape, Presence, [Next]_vars PROVE RowMoves /\ DocumentMoves
  <1>1. CASE UNCHANGED vars
    BY <1>1, RowStays DEF vars
  <1>2. ASSUME NEW d \in Documents, createEvidence(d) PROVE RowMoves /\ DocumentMoves
    <2>1. PICK fields \in Given[d] :
             row' = [row EXCEPT ![d] = [status |-> "uploaded", fields |-> fields]]
      BY <1>2 DEF createEvidence
    <2>2. /\ RowShape'
          /\ row'[d].status = "uploaded"
          /\ \A e \in Documents : e # d => row'[e].status = row[e].status
          /\ document' = [document EXCEPT ![d] = Seen("uploaded")]
      BY <2>1, RowStep
    <2> QED
      BY <1>2, <2>2, RowMoved DEF createEvidence
  <1>3. ASSUME NEW d \in Documents, NEW status \in {"extract_failed", "locked"}, Exists(d),
               row' = [row EXCEPT ![d].status = status]
        PROVE  RowMoves /\ DocumentMoves
    <2>1. /\ RowShape'
          /\ row'[d].status = status
          /\ \A e \in Documents : e # d => row'[e].status = row[e].status
          /\ document' = [document EXCEPT ![d] = Seen(status)]
      BY <1>3, StatusStep
    <2> QED
      BY <1>3, <2>1, RowMoved
  <1>4. ASSUME NEW d \in Documents, \/ upload(d) \/ backfillEvidence(d) \/ deleteLinkedInvoices(d)
        PROVE  RowMoves /\ DocumentMoves
    BY <1>4, RowStays DEF upload, backfillEvidence, deleteLinkedInvoices, Enqueue
  <1>5. ASSUME NEW d \in Documents, lockEvidenceWithAudit(d) \/ confirmExtractionWithAudit(d)
        PROVE  RowMoves /\ DocumentMoves
    <2>1. Exists(d) /\ row' = [row EXCEPT ![d].status = "locked"]
      BY <1>5 DEF lockEvidenceWithAudit, confirmExtractionWithAudit
    <2> QED
      BY <1>3, <2>1
  <1>6. ASSUME NEW d \in Documents, deleteEvidence(d) PROVE RowMoves /\ DocumentMoves
    <2>1. CASE Bound(d)
      BY <1>6, <2>1, RowStays DEF deleteEvidence
    <2>2. CASE ~Bound(d)
      <3>1. row' = [row EXCEPT ![d] = [status |-> "deleted", fields |-> Unread]]
        BY <1>6, <2>2 DEF deleteEvidence
      <3>2. PICK fields : fields = Unread
        OBVIOUS
      <3>3. /\ RowShape'
            /\ row'[d].status = "deleted"
            /\ \A e \in Documents : e # d => row'[e].status = row[e].status
            /\ document' = [document EXCEPT ![d] = Seen("deleted")]
        BY <3>1, <3>2, RowStep
      <3>4. /\ Exists(d) /\ deleting[d] # {}
            /\ UNCHANGED activities /\ deleting'[d] = {}
        BY <1>6 DEF deleteEvidence, Presence, Shape, feeds
      <3> QED
        BY <2>2, <3>3, <3>4, RowMoved
    <2> QED
      BY <2>1, <2>2
  <1>7. ASSUME NEW d \in Documents, NEW a \in Attempts(d), Extract(d, a)
        PROVE  RowMoves /\ DocumentMoves
    <2>1. CASE \/ processStoredEvidence(d, a) \/ FindInvoice(d, a) \/ InsertInvoice(d, a)
               \/ Complete(d, a) \/ Interrupted(d, a)
      BY <2>1, RowStays
      DEF processStoredEvidence, FindInvoice, InsertInvoice, Complete, Interrupted
    <2>2. CASE markExtractionFailed(d, a)
      BY <2>2, <1>3, RowStays DEF markExtractionFailed
    <2>3. CASE updateExtractedJson(d, a)
      <3>1. CASE row' = row
        BY <3>1, RowStays
      <3>2. CASE row' # row
        <4>1. PICK result \in Results : row' =
                 [row EXCEPT ![d] = [status |-> "ocr_parsed", fields |-> result @@ @.fields]]
          BY <2>3, <3>2 DEF updateExtractedJson
        <4>2. PICK fields : fields = result @@ row[d].fields
          OBVIOUS
        <4>3. row' = [row EXCEPT ![d] = [status |-> "ocr_parsed", fields |-> fields]]
          BY <4>1, <4>2
        <4>4. /\ RowShape'
              /\ row'[d].status = "ocr_parsed"
              /\ \A e \in Documents : e # d => row'[e].status = row[e].status
              /\ document' = [document EXCEPT ![d] = Seen("ocr_parsed")]
          BY <4>3, RowStep
        <4>5. Exists(d)
          BY <2>3, <3>2 DEF updateExtractedJson
        <4> QED
          BY <4>4, <4>5, RowMoved
      <3> QED
        BY <3>1, <3>2
    <2> QED
      BY <1>7, <2>1, <2>2, <2>3 DEF Extract
  <1>8. ASSUME NEW n, createCandidate(n) \/ promote(n) PROVE RowMoves /\ DocumentMoves
    BY <1>8, RowStays DEF createCandidate, promote
  <1> QED
    BY <1>1, <1>2, <1>4, <1>5, <1>6, <1>7, <1>8 DEF Next

(* How an attempt, the job and the invoices of a document may move.          *)
AttemptMove(d, a) ==
    /\ \A b \in Attempts(d) : b # a => attempt'[d][b] = attempt[d][b]
    /\ \/ /\ attempt[d][a] = "none" /\ attempt'[d][a] = "reading" /\ Exists(d)
          /\ \A b \in Attempts(d) : attempt[d][b] \in Running => job'[d] = "reclaimed"
       \/ /\ attempt[d][a] = "parsed" /\ attempt'[d][a] = "inserting"
          /\ {i \in invoices : i.document = d} = {} /\ invoices' = invoices
       \/ attempt[d][a] \in Running /\ attempt'[d][a] \in {"parsed", "ending", "failed", "done"}

AttemptMoves ==
    /\ AttemptShape'
    /\ \A d \in Documents : \A a \in Attempts(d) :
         attempt'[d][a] = attempt[d][a] \/ AttemptMove(d, a)

JobMoves ==
    /\ job' = [d \in Documents |-> job'[d]]
    /\ \A d \in Documents : job[d] = "reclaimed" => job'[d] = "reclaimed"

InvoiceAdded(d, a) ==
    /\ attempt[d][a] = "inserting" /\ attempt'[d][a] = "ending"
    /\ Exists(d) /\ row' = row /\ job' = job
    /\ \A e \in Documents : \A b \in Attempts(e) :
         e # d \/ b # a => attempt'[e][b] = attempt[e][b]
    /\ invoices' = invoices \cup {[document |-> d, attempt |-> <<d, a>>]}

InvoicesDropped(d) ==
    /\ row'[d].status = "deleted" /\ attempt' = attempt /\ job' = job
    /\ \A e \in Documents : e # d => row'[e].status = row[e].status
    /\ invoices' = {IF i.document = d THEN [i EXCEPT !.document = Orphan] ELSE i :
                      i \in invoices \ UNION deleting[d]}

InvoiceMoves ==
    \/ invoices' = invoices
    \/ \E d \in Documents : \E a \in Attempts(d) : InvoiceAdded(d, a)
    \/ \E d \in Documents : InvoicesDropped(d)

FeedMoves ==
    \/ activities' = activities
    \/ /\ \A d \in Documents : Exists(d) => Exists(d)'
       /\ \E n \in DOMAIN candidates :
            /\ \A d \in candidates[n].documents : Exists(d)'
            /\ ~Promoted(Activity(n))
            /\ activities' = activities \cup {Activity(n)}

Moves == AttemptMoves /\ JobMoves /\ InvoiceMoves /\ FeedMoves
         /\ deleting' = [d \in Documents |-> deleting'[d]]

LEMMA OneAttempt ==
    ASSUME AttemptShape, NEW d \in Documents, NEW a \in Attempts(d), NEW step, To(d, a, step),
           \/ /\ attempt[d][a] = "none" /\ step = "reading" /\ Exists(d)
              /\ \A b \in Attempts(d) : attempt[d][b] \in Running => job'[d] = "reclaimed"
           \/ /\ attempt[d][a] = "parsed" /\ step = "inserting"
              /\ {i \in invoices : i.document = d} = {} /\ invoices' = invoices
           \/ attempt[d][a] \in Running /\ step \in {"parsed", "ending", "failed", "done"}
    PROVE  AttemptMoves
  <1>1. /\ AttemptShape'
        /\ attempt'[d][a] = step
        /\ \A e \in Documents : \A b \in Attempts(e) :
              e # d \/ b # a => attempt'[e][b] = attempt[e][b]
    BY AttemptStep
  <1>2. AttemptMove(d, a)
    BY <1>1 DEF AttemptMove
  <1> QED
    BY <1>1, <1>2 DEF AttemptMoves

LEMMA NoAttempt == ASSUME AttemptShape, attempt' = attempt PROVE AttemptMoves
  BY DEF AttemptShape, AttemptMoves

LEMMA NoJob == ASSUME Shape, job' = job PROVE JobMoves
  BY DEF Shape, JobMoves

LEMMA Extracts ==
    ASSUME Shape, NEW d \in Documents, NEW a \in Attempts(d), Extract(d, a)
    PROVE  Moves
  <1> AttemptShape
    BY DEF Shape
  <1>1. /\ FeedMoves
        /\ deleting' = [e \in Documents |-> deleting'[e]]
    BY DEF Shape, FeedMoves, Extract, processStoredEvidence, markExtractionFailed,
       updateExtractedJson, FindInvoice, InsertInvoice, Complete, Interrupted, feeds
  <1>2. CASE processStoredEvidence(d, a)
    <2>1. \A b \in Attempts(d) : attempt[d][b] \in Running => job'[d] = "reclaimed"
      BY <1>2 DEF processStoredEvidence, Shape
    <2>2. AttemptMoves
      BY <1>2, <2>1, OneAttempt DEF processStoredEvidence
    <2>3. JobMoves
      BY <1>2 DEF processStoredEvidence, Shape, JobMoves
    <2>4. InvoiceMoves
      BY <1>2 DEF processStoredEvidence, InvoiceMoves
    <2> QED
      BY <1>1, <2>2, <2>3, <2>4 DEF Moves
  <1>3. CASE InsertInvoice(d, a)
    <2>1. To(d, a, "ending") /\ attempt[d][a] = "inserting"
      BY <1>3 DEF InsertInvoice
    <2>2. AttemptMoves
      BY <2>1, OneAttempt DEF Running
    <2>3. /\ attempt'[d][a] = "ending"
          /\ \A e \in Documents : \A b \in Attempts(e) :
                e # d \/ b # a => attempt'[e][b] = attempt[e][b]
      BY <2>1, AttemptStep
    <2>4. invoices' = invoices \/ InvoiceAdded(d, a)
      BY <1>3, <2>3 DEF InsertInvoice, InvoiceAdded
    <2>5. InvoiceMoves
      BY <2>4 DEF InvoiceMoves
    <2>6. JobMoves
      BY <1>3, NoJob DEF InsertInvoice
    <2> QED
      BY <1>1, <2>2, <2>5, <2>6 DEF Moves
  <1>4. CASE FindInvoice(d, a)
    <2>1. /\ attempt[d][a] = "parsed" /\ invoices' = invoices /\ job' = job
          /\ \/ To(d, a, "ending")
             \/ {i \in invoices : i.document = d} = {} /\ To(d, a, "inserting")
      BY <1>4 DEF FindInvoice
    <2>2. AttemptMoves
      BY <2>1, OneAttempt DEF Running
    <2> QED
      BY <1>1, <2>1, <2>2, NoJob DEF Moves, InvoiceMoves
  <1>5. ASSUME NEW step \in {"parsed", "ending", "failed", "done"}, attempt[d][a] \in Running,
               To(d, a, step), invoices' = invoices, job' = job
        PROVE  Moves
    <2>1. AttemptMoves
      BY <1>5, OneAttempt
    <2> QED
      BY <1>1, <1>5, <2>1, NoJob DEF Moves, InvoiceMoves
  <1>6. CASE markExtractionFailed(d, a)
    BY <1>5, <1>6 DEF markExtractionFailed, Running
  <1>7. CASE updateExtractedJson(d, a)
    BY <1>5, <1>7 DEF updateExtractedJson, Running
  <1>8. CASE Complete(d, a)
    BY <1>5, <1>8 DEF Complete, Running
  <1>9. CASE Interrupted(d, a)
    BY <1>5, <1>9 DEF Interrupted
  <1> QED
    BY <1>2, <1>3, <1>4, <1>6, <1>7, <1>8, <1>9 DEF Extract

LEMMA StepMoves == ASSUME IInv, [Next]_vars PROVE Moves
  <1> Shape /\ AttemptShape
    BY DEF IInv, Shape
  <1>1. ASSUME attempt' = attempt, job' = job, invoices' = invoices, deleting' = deleting
        PROVE  AttemptMoves /\ JobMoves /\ InvoiceMoves
               /\ deleting' = [d \in Documents |-> deleting'[d]]
    BY <1>1, NoAttempt, NoJob DEF InvoiceMoves, Shape
  <1>2. ASSUME attempt' = attempt, job' = job, invoices' = invoices, deleting' = deleting,
               activities' = activities
        PROVE  Moves
    BY <1>1, <1>2 DEF Moves, FeedMoves
  <1>3. CASE UNCHANGED vars
    BY <1>2, <1>3 DEF vars
  <1>4. ASSUME NEW d \in Documents,
               \/ createEvidence(d) \/ lockEvidenceWithAudit(d) \/ confirmExtractionWithAudit(d)
        PROVE  Moves
    BY <1>2, <1>4 DEF createEvidence, lockEvidenceWithAudit, confirmExtractionWithAudit, feeds
  <1>5. ASSUME NEW d \in Documents, upload(d) \/ backfillEvidence(d) PROVE Moves
    <2>1. Enqueue(d)
      BY <1>5 DEF upload, backfillEvidence
    <2>2. JobMoves
      BY <2>1 DEF Enqueue, Shape, JobMoves
    <2>3. /\ attempt' = attempt /\ invoices' = invoices
          /\ deleting' = deleting /\ activities' = activities
      BY <2>1 DEF Enqueue, feeds
    <2> QED
      BY <2>2, <2>3, NoAttempt DEF Moves, InvoiceMoves, FeedMoves, Shape
  <1>6. ASSUME NEW d \in Documents, deleteLinkedInvoices(d) PROVE Moves
    <2>1. /\ attempt' = attempt /\ job' = job /\ invoices' = invoices /\ activities' = activities
          /\ deleting' = [e \in Documents |-> deleting'[e]]
      BY <1>6 DEF deleteLinkedInvoices, feeds, Shape
    <2> QED
      BY <2>1, NoAttempt, NoJob DEF Moves, InvoiceMoves, FeedMoves
  <1>7. ASSUME NEW d \in Documents, deleteEvidence(d) PROVE Moves
    <2>1. /\ attempt' = attempt /\ job' = job /\ activities' = activities
          /\ deleting' = [e \in Documents |-> deleting'[e]]
      BY <1>7 DEF deleteEvidence, feeds, Shape
    <2>2. CASE Bound(d)
      BY <1>7, <2>1, <2>2, NoAttempt, NoJob DEF Moves, InvoiceMoves, FeedMoves, deleteEvidence
    <2>3. CASE ~Bound(d)
      <3>1. /\ row' = [row EXCEPT ![d] = [status |-> "deleted", fields |-> Unread]]
            /\ invoices' = {IF i.document = d THEN [i EXCEPT !.document = Orphan] ELSE i :
                              i \in invoices \ UNION deleting[d]}
        BY <1>7, <2>3 DEF deleteEvidence
      <3>2. /\ row'[d].status = "deleted"
            /\ \A e \in Documents : e # d => row'[e].status = row[e].status
        BY <3>1 DEF Shape, RowShape
      <3>3. InvoicesDropped(d)
        BY <2>1, <3>1, <3>2 DEF InvoicesDropped
      <3> QED
        BY <2>1, <3>3, NoAttempt, NoJob DEF Moves, InvoiceMoves, FeedMoves
    <2> QED
      BY <2>2, <2>3
  <1>8. ASSUME NEW d \in Documents, NEW a \in Attempts(d), Extract(d, a) PROVE Moves
    BY <1>8, Extracts
  <1>9. ASSUME NEW n, createCandidate(n) PROVE Moves
    BY <1>2, <1>9 DEF createCandidate
  <1>10. ASSUME NEW n \in DOMAIN candidates, promote(n) PROVE Moves
    <2>1. /\ \A d \in candidates[n].documents : Exists(d)'
          /\ \A d \in Documents : Exists(d) => Exists(d)'
      BY <1>10 DEF promote, Controlled, Exists
    <2>2. ~Promoted(Activity(n)) /\ activities' = activities \cup {Activity(n)}
      BY <1>10 DEF promote
    <2>3. FeedMoves
      BY <2>1, <2>2 DEF FeedMoves
    <2> QED
      BY <1>1, <1>10, <2>3 DEF Moves, promote
  <1> QED
    BY <1>3, <1>4, <1>5, <1>6, <1>7, <1>8, <1>9, <1>10 DEF Next

(* A deletion is open only on a row that is there.                           *)
LEMMA DeletionMoves ==
    ASSUME Shape, Presence, [Next]_vars, NEW d \in Documents, deleting'[d] # {}
    PROVE  Exists(d) /\ (deleting'[d] = deleting[d] \/ row' = row)
  <1>1. CASE deleting' = deleting
    BY <1>1 DEF Presence
  <1>2. ASSUME NEW e \in Documents, deleteLinkedInvoices(e) PROVE Exists(d) /\ (deleting'[d] = deleting[d] \/ row' = row)
    BY <1>2 DEF deleteLinkedInvoices, Shape, Presence
  <1>3. ASSUME NEW e \in Documents, deleteEvidence(e) PROVE Exists(d) /\ (deleting'[d] = deleting[d] \/ row' = row)
    BY <1>3 DEF deleteEvidence, Shape, Presence
  <1>4. \/ deleting' = deleting
        \/ \E e \in Documents : deleteLinkedInvoices(e) \/ deleteEvidence(e)
    BY DEF Next, vars, createEvidence, upload, backfillEvidence, Enqueue, Extract,
       lockEvidenceWithAudit, confirmExtractionWithAudit, createCandidate, promote,
       processStoredEvidence, markExtractionFailed, updateExtractedJson, FindInvoice,
       InsertInvoice, Complete, Interrupted
  <1> QED
    BY <1>1, <1>2, <1>3, <1>4

LEMMA InvoiceSteps ==
    ASSUME IInv, RowMoves, Moves
    PROVE  InvoiceOrigin' /\ FirstInvoice' /\ OneInvoiceAlone'
  <1>1. CASE invoices' = invoices
    <2>1. InvoiceOrigin'
      BY <1>1 DEF IInv, InvoiceOrigin, RowMoves, Exists
    <2>2. OneInvoiceAlone'
      <3> SUFFICES ASSUME NEW i \in invoices, NEW j \in invoices, i # j,
                          i.attempt[1] = j.attempt[1]
                   PROVE  job'[i.attempt[1]] = "reclaimed"
        BY <1>1 DEF OneInvoiceAlone
      <3>1. i.attempt[1] \in Documents
        BY DEF IInv, InvoiceOrigin
      <3> QED
        BY <3>1 DEF IInv, FedOnce, OneInvoiceAlone, Moves, JobMoves
    <2>3. FirstInvoice'
      <3> SUFFICES ASSUME NEW d \in Documents, NEW a \in Attempts(d), job'[d] # "reclaimed",
                          attempt'[d][a] = "inserting", Exists(d)', NEW i \in invoices
                   PROVE  i.attempt[1] # d
        BY <1>1 DEF FirstInvoice
      <3>1. job[d] # "reclaimed"
        BY DEF Moves, JobMoves
      <3>2. \/ attempt[d][a] = "inserting"
            \/ attempt[d][a] = "parsed" /\ {j \in invoices : j.document = d} = {}
        BY DEF Moves, AttemptMoves, AttemptMove
      <3>3. Exists(d)
        BY <3>2 DEF RowMoves, Exists, IInv, Presence
      <3>4. CASE attempt[d][a] = "inserting"
        BY <3>1, <3>3, <3>4 DEF IInv, FirstInvoice
      <3>5. CASE {j \in invoices : j.document = d} = {}
        BY <3>3, <3>5 DEF IInv, InvoiceOrigin, Exists
      <3> QED
        BY <3>2, <3>4, <3>5
    <2> QED
      BY <2>1, <2>2, <2>3
  <1>2. ASSUME NEW d \in Documents, NEW a \in Attempts(d), InvoiceAdded(d, a)
        PROVE  InvoiceOrigin' /\ FirstInvoice' /\ OneInvoiceAlone'
    <2> DEFINE new == [document |-> d, attempt |-> <<d, a>>]
    <2>1. /\ new = [document |-> new.document, attempt |-> new.attempt]
          /\ new.document = d /\ new.attempt[1] = d
      OBVIOUS
    <2>2. invoices' = invoices \cup {new} /\ row' = row /\ job' = job
      BY <1>2 DEF InvoiceAdded
    <2> HIDE DEF new
    <2>3. InvoiceOrigin'
      BY <2>1, <2>2 DEF IInv, InvoiceOrigin
    <2>4. job[d] # "reclaimed" => \A i \in invoices : i.attempt[1] # d
      BY <1>2 DEF InvoiceAdded, IInv, FirstInvoice
    <2>5. OneInvoiceAlone'
      BY <2>1, <2>2, <2>4 DEF IInv, FedOnce, OneInvoiceAlone
    <2>6. job[d] # "reclaimed" => \A b \in Attempts(d) : attempt'[d][b] # "inserting"
      <3> SUFFICES ASSUME job[d] # "reclaimed", NEW b \in Attempts(d), attempt'[d][b] = "inserting"
                   PROVE  FALSE
        OBVIOUS
      <3>1. b # a /\ attempt[d][b] = "inserting" /\ attempt[d][a] = "inserting"
        BY <1>2 DEF InvoiceAdded
      <3> QED
        BY <3>1 DEF IInv, OneRunning, Running
    <2>7. ASSUME NEW e \in Documents, e # d, NEW b \in Attempts(e), job'[e] # "reclaimed",
                 attempt'[e][b] = "inserting", Exists(e)', NEW i \in invoices'
          PROVE  i.attempt[1] # e
      <3>1. attempt[e][b] = "inserting"
        BY <1>2, <2>7 DEF InvoiceAdded
      <3>2. Exists(e) /\ job[e] # "reclaimed"
        BY <2>2, <2>7 DEF Exists
      <3> QED
        BY <2>1, <2>2, <2>7, <3>1, <3>2 DEF IInv, FirstInvoice
    <2>8. FirstInvoice'
      BY <2>2, <2>6, <2>7 DEF FirstInvoice
    <2> QED
      BY <2>3, <2>5, <2>8
  <1>3. ASSUME NEW d \in Documents, InvoicesDropped(d)
        PROVE  InvoiceOrigin' /\ FirstInvoice' /\ OneInvoiceAlone'
    <2> DEFINE left(i) == IF i.document = d THEN [i EXCEPT !.document = Orphan] ELSE i
    <2>1. ASSUME NEW i \in invoices
          PROVE  /\ left(i) = [document |-> left(i).document, attempt |-> left(i).attempt]
                 /\ left(i).attempt = i.attempt
                 /\ left(i).document = IF i.document = d THEN Orphan ELSE i.document
                 /\ i.attempt[1] \in Documents
                 /\ i.document = i.attempt[1] \/ row[i.attempt[1]].status = "deleted"
      <3>1. i = [document |-> i.document, attempt |-> i.attempt]
        BY DEF IInv, InvoiceOrigin
      <3>2. /\ i.attempt[1] \in Documents
            /\ i.document = i.attempt[1] \/ row[i.attempt[1]].status = "deleted"
        BY DEF IInv, InvoiceOrigin
      <3>3. CASE i.document = d
        <4>1. left(i) = [document |-> Orphan, attempt |-> i.attempt]
          BY <3>1, <3>3
        <4> QED
          BY <3>2, <3>3, <4>1
      <3>4. CASE i.document # d
        BY <3>1, <3>2, <3>4
      <3> QED
        BY <3>3, <3>4
    <2>2. invoices' \subseteq {left(i) : i \in invoices}
      BY <1>3 DEF InvoicesDropped
    <2>3. \A j \in invoices' : \E i \in invoices : j = left(i)
      BY <2>2
    <2>4. \A e \in Documents : row[e].status = "deleted" => row'[e].status = "deleted"
      BY DEF RowMoves, Exists
    <2>5. row'[d].status = "deleted" /\ job' = job /\ attempt' = attempt
      BY <1>3 DEF InvoicesDropped
    <2> HIDE DEF left
    <2>6. InvoiceOrigin'
      <3> SUFFICES ASSUME NEW j \in invoices'
                   PROVE  \E e \in Documents :
                             /\ j = [document |-> j.document, attempt |-> j.attempt]
                             /\ j.attempt[1] = e
                             /\ j.document = e \/ row'[e].status = "deleted"
        BY DEF InvoiceOrigin
      <3>1. PICK i \in invoices : j = left(i)
        BY <2>3
      <3> QED
        BY <2>1, <2>4, <2>5, <3>1
    <2>7. OneInvoiceAlone'
      <3> SUFFICES ASSUME NEW x \in invoices', NEW y \in invoices', x # y,
                          x.attempt[1] = y.attempt[1]
                   PROVE  job'[x.attempt[1]] = "reclaimed"
        BY DEF OneInvoiceAlone
      <3>1. PICK i \in invoices : x = left(i)
        BY <2>3
      <3>2. PICK j \in invoices : y = left(j)
        BY <2>3
      <3> QED
        BY <2>1, <2>5, <3>1, <3>2 DEF IInv, FedOnce, OneInvoiceAlone
    <2>8. FirstInvoice'
      <3> SUFFICES ASSUME NEW e \in Documents, NEW a \in Attempts(e), job'[e] # "reclaimed",
                          attempt'[e][a] = "inserting", Exists(e)', NEW x \in invoices'
                   PROVE  x.attempt[1] # e
        BY DEF FirstInvoice
      <3>1. PICK i \in invoices : x = left(i)
        BY <2>3
      <3>2. e # d /\ Exists(e)
        BY <1>3 DEF InvoicesDropped, Exists
      <3>3. i.attempt[1] # e
        BY <2>5, <3>2 DEF IInv, FirstInvoice
      <3> QED
        BY <2>1, <3>1, <3>3
    <2> QED
      BY <2>6, <2>7, <2>8
  <1> QED
    BY <1>1, <1>2, <1>3 DEF Moves, InvoiceMoves

LEMMA FeedSteps ==
    ASSUME IInv, RowMoves, Moves
    PROVE  PromotedOnce' /\ SourcesKept'
  <1>1. CASE activities' = activities
    <2>1. PromotedOnce'
      BY <1>1 DEF IInv, FedOnce, PromotedOnce
    <2>2. SourcesKept'
      <3> SUFFICES ASSUME NEW d \in Documents, NEW x \in activities, d \in x.documents
                   PROVE  Exists(d)'
        BY <1>1 DEF SourcesKept
      <3>1. Exists(d) /\ Bound(d)
        BY DEF IInv, FedOnce, SourcesKept, Bound
      <3> QED
        BY <3>1 DEF RowMoves, Exists
    <2> QED
      BY <2>1, <2>2
  <1>2. ASSUME NEW n \in DOMAIN candidates,
               \A d \in candidates[n].documents : Exists(d)',
               \A d \in Documents : Exists(d) => Exists(d)',
               ~Promoted(Activity(n)), activities' = activities \cup {Activity(n)}
        PROVE  PromotedOnce' /\ SourcesKept'
    <2>1. PromotedOnce'
      BY <1>2 DEF IInv, FedOnce, PromotedOnce, Promoted
    <2>2. Activity(n).documents = candidates[n].documents
      BY DEF Activity
    <2>3. SourcesKept'
      BY <1>2, <2>2 DEF IInv, FedOnce, SourcesKept
    <2> QED
      BY <2>1, <2>3
  <1> QED
    BY <1>1, <1>2 DEF Moves, FeedMoves

LEMMA InvStep == IInv /\ [Next]_vars => IInv'
  <1> SUFFICES ASSUME IInv, [Next]_vars PROVE IInv'
    OBVIOUS
  <1>1. Shape /\ RowShape /\ Presence
    BY DEF IInv, Shape
  <1>2. RowMoves
    BY <1>1, RowsMove
  <1>3. Moves
    BY StepMoves
  <1>4. Shape'
    BY <1>2, <1>3 DEF Shape, RowMoves, Moves, AttemptMoves, JobMoves
  <1>5. Presence'
    <2>1. ASSUME NEW d \in Documents, row'[d].status = "none", NEW a \in Attempts(d)
          PROVE  attempt'[d][a] = "none"
      <3>1. row[d].status = "none" /\ attempt[d][a] = "none"
        BY <1>1, <1>2, <2>1 DEF RowMoves, Exists, Presence
      <3> QED
        BY <1>3, <3>1 DEF Moves, AttemptMoves, AttemptMove, Exists, Running
    <2>2. ASSUME NEW d \in Documents, deleting'[d] # {} PROVE Exists(d)'
      <3>1. Exists(d)
        BY <1>1, <2>2, DeletionMoves
      <3> QED
        BY <1>2, <2>2, <3>1 DEF RowMoves, Exists
    <2> QED
      BY <2>1, <2>2 DEF Presence
  <1>6. OneRunning'
    <2> SUFFICES ASSUME NEW d \in Documents, job'[d] # "reclaimed",
                        NEW a \in Attempts(d), NEW b \in Attempts(d),
                        attempt'[d][a] \in Running, attempt'[d][b] \in Running, a # b
                 PROVE  FALSE
      BY DEF OneRunning
    <2>1. job[d] # "reclaimed"
      BY <1>3 DEF Moves, JobMoves
    <2>2. ~(attempt[d][a] \in Running /\ attempt[d][b] \in Running)
      BY <2>1 DEF IInv, OneRunning
    <2>3. /\ attempt'[d][a] = attempt[d][a] \/ AttemptMove(d, a)
          /\ attempt'[d][b] = attempt[d][b] \/ AttemptMove(d, b)
      BY <1>3 DEF Moves, AttemptMoves
    <2> QED
      BY <2>2, <2>3 DEF AttemptMove, Running
  <1>7. InvoiceOrigin' /\ FirstInvoice' /\ OneInvoiceAlone'
    BY <1>2, <1>3, InvoiceSteps
  <1>8. PromotedOnce' /\ SourcesKept'
    BY <1>2, <1>3, FeedSteps
  <1> QED
    BY <1>4, <1>5, <1>6, <1>7, <1>8 DEF IInv, FedOnce

(* A document gets a second invoice only from a job that was reclaimed while   *)
(* it ran (processor.js:66), a file and a candidate become one activity under  *)
(* a reference, and no document an activity cites is deleted.                *)
THEOREM EvidenceFeedsOnce == Spec => []FedOnce
  <1>1. IInv => FedOnce
    BY DEF IInv
  <1> QED
    BY Initially, InvStep, <1>1, PTL DEF Spec

(* An evidence row does nothing that the parts which bind evidence do not      *)
(* expect of a document: whatever the extraction of a row, its control and     *)
(* its deletion do to each other, the document is opened, controlled, reopened *)
(* and deleted (repository.js:179, service.js).                              *)
THEOREM EvidenceImplementsDocuments == Spec => ImplementsDocuments
  <1>1. Init => CD!DocumentsInit
    BY DEF Init, CD!DocumentsInit, document, Seen
  <1>2. IInv /\ [Next]_vars => [CD!DocumentsNext]_document
    <2> SUFFICES ASSUME IInv, [Next]_vars PROVE [CD!DocumentsNext]_document
      OBVIOUS
    <2>1. Shape /\ RowShape /\ Presence
      BY DEF IInv, Shape
    <2>2. DocumentMoves
      BY <2>1, RowsMove
    <2> QED
      BY <2>2 DEF DocumentMoves
  <1> QED
    BY Initially, InvStep, <1>1, <1>2, PTL DEF Spec, ImplementsDocuments, CD!DocumentsSpec
================================================================================
