---------------------------- MODULE ExportMarkets ----------------------------
(***************************************************************************)
(* An export market of a company: its compliance documents, its readiness       *)
(* score, which every change computes anew in its own transaction, and the       *)
(* compliance report, which is accepted when the market is ready, generated by   *)
(* a job and stored. Every refusal inside a transaction returns without           *)
(* ROLLBACK.                                                                 *)
(*                                                                         *)
(* Two documents may have one code: an upload looks for a document of the code   *)
(* and inserts one when it finds none. Product scope, carbon data and             *)
(* recommendations only touch rows that nothing here depends on; what they do     *)
(* to the market is touchMarket. No operation sets valid_to, so no document       *)
(* expires. The market row exists from the start. The list and its cache are       *)
(* left out.                                                                 *)
(***************************************************************************)
EXTENDS Sessions, FiniteSets

CONSTANTS
    Documents, Codes,
    CodeOf              \* CodeOf[d]: the required document that d stands for

VARIABLES
    worker,             \* the report job's execution: "idle", "stored" or "failed"
    overlapped,         \* two requests of the market were under way at once
    strayed             \* a statement outside a transaction ran inside one left open

marketVars == <<worker, overlapped, strayed>>

Document(status, file) == [status |-> status, file |-> file]
NoDocument == Document("absent", FALSE)

market == "market"
report == "report"
job == "job"

MarketsInit ==
    /\ worker = "idle"
    /\ overlapped = FALSE
    /\ strayed = FALSE

OfCode(docs, code) == {d \in Documents : CodeOf[d] = code /\ docs[d] # NoDocument}
Done(docs) == {code \in Codes : \E d \in OfCode(docs, code) : docs[d].status = "approved"}
Score(docs) == Cardinality(Done(docs))        \* 100 % when it is Cardinality(Codes)
Ready(score) == score = Cardinality(Codes)

SessionAt(r) == session[request[r].on]

\* A variant, never used: the documents are counted on another connection.
DocsSeen_OtherConnection(r) == [d \in Documents |-> committed[d]]

DocsSeen(r) == [d \in Documents |-> View(request[r].on, d)]
Same == UNCHANGED marketVars

-----------------------------------------------------------------------------
(* _recalculateMarketScore: the documents are counted by one statement, and the  *)
(* market is updated by the next.                                             *)
countDocuments(r) ==
    /\ At(r, "score")
    /\ Continue(r, SessionAt(r), "update", market, Score(DocsSeen(r)))

updateScore(r) == Write(SessionAt(r), market, request[r].seen)

recalculateMarketScore(r) ==
    \/ countDocuments(r)
    \/ At(r, "update") /\ Commit(r, updateScore(r)) /\ Answer(r)

Refuse(r) == LeaveOpen(r, SessionAt(r)) /\ Answer(r)

(* uploadDocument, and a row of importDocumentMappings that brings a file.       *)
uploadDocument(r) ==
    /\ request[r].kind = "upload"
    /\ \/ /\ At(r, "read")
          /\ LET found == OfCode(DocsSeen(r), request[r].row)
             IN \/ \E d \in found : Continue(r, SessionAt(r), "write", d, "none")
                \/ /\ found = {}
                   /\ \E d \in Documents :      \* a new row, which nobody else can name
                        /\ CodeOf[d] = request[r].row /\ View(request[r].on, d) = NoDocument
                        /\ Free(request[r].on, d)
                        /\ Continue(r, SessionAt(r), "write", d, "none")
       \/ /\ At(r, "write")
          /\ Continue(r, Write(SessionAt(r), request[r].next, Document(request[r].value, TRUE)),
                      "score", "none", "none")
       \/ recalculateMarketScore(r)

(* importDocumentMappings, a row without a file: what was read of the document is  *)
(* written again. A row that cannot be resolved is only counted.                  *)
resolveOrCreateImportDocument(r) ==
    \/ /\ At(r, "read")
       /\ LET found == OfCode(DocsSeen(r), request[r].row)
          IN \/ \E d \in found : Continue(r, SessionAt(r), "write", d, View(request[r].on, d))
             \/ /\ found = {}
                /\ \E d \in Documents :
                     /\ CodeOf[d] = request[r].row /\ View(request[r].on, d) = NoDocument
                     /\ Free(request[r].on, d)
                     /\ Continue(r, SessionAt(r), "write", d, Document(request[r].value, FALSE))
    \/ /\ At(r, "write")
       /\ Continue(r, Write(SessionAt(r), request[r].next, request[r].seen), "score", "none", "none")

importDocumentMappings(r) ==
    /\ request[r].kind = "mapping"
    /\ \/ resolveOrCreateImportDocument(r)
       \/ At(r, "read") /\ Continue(r, SessionAt(r), "score", "none", "none")
       \/ recalculateMarketScore(r)

(* approveDocument: status and file are checked before the row is locked.        *)
approveDocument(r) ==
    /\ request[r].kind = "approve"
    /\ \/ /\ At(r, "read")
          /\ LET document == View(request[r].on, request[r].row)
             IN IF document.status \in {"absent", "missing"} \/ ~document.file THEN Refuse(r)
                ELSE Continue(r, SessionAt(r), "write", request[r].row, "none")
       \/ /\ At(r, "write")
          /\ LET document == View(request[r].on, request[r].row)
             IN Continue(r, Write(SessionAt(r), request[r].row, [document EXCEPT !.status = "approved"]),
                         "score", "none", "none")
       \/ recalculateMarketScore(r)

removeDocument(r) ==
    /\ request[r].kind = "remove"
    /\ \/ /\ At(r, "read")
          /\ IF View(request[r].on, request[r].row) = NoDocument THEN Refuse(r)
             ELSE Continue(r, Write(SessionAt(r), request[r].row, Document("missing", FALSE)),
                           "score", "none", "none")
       \/ recalculateMarketScore(r)

(* Operations that change rows nothing here depends on. They are refused when     *)
(* the recommendation, the product or the scope is not found, or the action is      *)
(* unknown; otherwise the market is counted anew.                              *)
Recount(r) == Continue(r, SessionAt(r), "score", "none", "none")
performRecommendationAction(r) == At(r, "read") /\ (Refuse(r) \/ Recount(r))
changeProductScope(r) == At(r, "read") /\ (Refuse(r) \/ Recount(r))
updateCarbonData(r) == At(r, "read") /\ Recount(r)

touchMarket(r) ==
    /\ request[r].kind = "touch"
    /\ \/ performRecommendationAction(r) \/ changeProductScope(r) \/ updateCarbonData(r)
       \/ recalculateMarketScore(r)

(* generateComplianceReport: a market that is not ready leaves its new score      *)
(* uncommitted and its row locked. The job is enqueued on another connection      *)
(* while this one is still lent.                                              *)
generateComplianceReport(r) ==
    /\ request[r].kind = "report"
    /\ \/ At(r, "read") /\ Recount(r)
       \/ countDocuments(r)
       \/ /\ At(r, "update") /\ ~Ready(request[r].seen)
          /\ LeaveOpen(r, updateScore(r)) /\ Answer(r)
       \/ /\ At(r, "update") /\ Ready(request[r].seen)
          /\ Commit(r, Write(updateScore(r), report, "processing"))
          /\ request' = [request EXCEPT ![r].at = "enqueue", ![r].next = "none"]
          /\ UNCHANGED arrivals

enqueue(r) ==
    /\ At(r, "enqueue")
    /\ \E c \in Unlent :
        /\ Autocommit(c, job, IF View(c, job) = "none" THEN "queued" ELSE View(c, job))
        /\ strayed' = (strayed \/ session[c].tx # "none")
    /\ Answer(r)
    /\ UNCHANGED <<worker, overlapped>>

(* connectionTimeoutMillis: no connection is left for the statement.             *)
EnqueueFails(r) == request[r].at = "enqueue" /\ Unlent = {} /\ Caught(r) /\ Same

MarketArrives(r) ==
    /\ \/ \E code \in Codes :
            \/ \E status \in {"uploaded", "approved"} : Arrive(r, "upload", code, status, "none")
            \/ \E status \in {"missing", "approved"} : Arrive(r, "mapping", code, status, "none")
       \/ \E d \in Documents :
            \/ Arrive(r, "approve", d, "none", "none")
            \/ Arrive(r, "remove", d, "none", d)
       \/ Arrive(r, "touch", "none", "none", "none")
       \/ /\ committed[report] = "none"                              \* bound: one report
          /\ \A q \in Requests : request[q].kind # "report"
          /\ Arrive(r, "report", "none", "none", "none")
    /\ overlapped' = (overlapped \/ Active # {})
    /\ UNCHANGED <<worker, strayed>>

MarketStep(r) ==
    \/ /\ \/ uploadDocument(r) \/ importDocumentMappings(r) \/ approveDocument(r) \/ removeDocument(r)
          \/ touchMarket(r) \/ generateComplianceReport(r)
       /\ Same
    \/ enqueue(r)

-----------------------------------------------------------------------------
(* The job: _simulateComplianceReport stores the file and then the row, or sets   *)
(* the row to failed and throws; the queue records the outcome. (JobQueue models   *)
(* the queue.)                                                               *)

OnAnyConnection(row, value) ==
    /\ \E c \in Unlent :
        /\ Autocommit(c, row, value)
        /\ strayed' = (strayed \/ session[c].tx # "none")
    /\ UNCHANGED <<request, arrivals, overlapped>>

simulateComplianceReport ==
    /\ committed[job] = "queued" /\ worker = "idle" /\ committed[report] # "none"
    /\ \/ OnAnyConnection(report, "completed") /\ worker' = "stored"
       \/ OnAnyConnection(report, "failed") /\ worker' = "failed"

\* A variant, never taken: a failed generation is recorded as a success.
recordOutcome_Swallowed ==
    /\ worker # "idle"
    /\ OnAnyConnection(job, "completed")
    /\ worker' = "idle"
recordOutcome ==
    /\ worker # "idle"
    /\ OnAnyConnection(job, IF worker = "stored" THEN "completed" ELSE "queued")
    /\ worker' = "idle"

-----------------------------------------------------------------------------
(* As long as no two requests of the market overlap its score is what its          *)
(* documents give; the score a refused report left uncommitted changes nothing      *)
(* (_recalculateMarketScore counts in its own snapshot, then updates blindly).     *)
ScoreMatchesAlone == ~overlapped => committed[market] = Score(committed)

(* A compliance report whose job is completed is stored as completed, unless a      *)
(* statement ran inside a transaction that a refused request had left open           *)
(* (_simulateComplianceReport and the job table use connections of the same pool).  *)
DoneReportIsStored == committed[job] = "completed" => committed[report] = "completed" \/ strayed
=============================================================================
