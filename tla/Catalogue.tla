------------------------------ MODULE Catalogue ------------------------------
(***************************************************************************)
(* The products and an export market of a company, whose requests take their    *)
(* connections from one pool: what a refused request of one leaves open is what  *)
(* a request of the other begins in.                                           *)
(***************************************************************************)
EXTENDS Products, ExportMarkets

vars == <<sessionVars, marketVars>>

(* Rows of different tables are different rows.                                *)
Rows == Documents \cup Products \cup {market, report, job}
ASSUME RowsAssumption ==
    /\ Documents \cap Products = {}
    /\ {market, report, job} \cap (Documents \cup Products) = {}

StoredAtFirst(docs) == [row \in Rows |->
    CASE row \in Documents -> docs[row]
      [] row \in Products -> NoProduct
      [] row = market -> Score(docs)
      [] OTHER -> "none"]

Init ==
    /\ SessionsInit
    /\ MarketsInit
    /\ \E docs \in [Documents -> {NoDocument, Document("uploaded", TRUE), Document("approved", TRUE)}] :
         committed = StoredAtFirst(docs)

(* A row of an import catches its own failures.                                *)
CaughtByRow(r) == request[r].kind = "import" /\ request[r].at = "write"

Step(r) ==
    \/ ProductStep(r) /\ UNCHANGED marketVars
    \/ MarketStep(r)
    \/ EnqueueFails(r)
    \/ Timeout(r) /\ ~CaughtByRow(r) /\ UNCHANGED marketVars

Next ==
    \/ \E r \in Requests :
        \/ ProductArrives(r) /\ UNCHANGED marketVars
        \/ MarketArrives(r)
        \/ Step(r)
        \/ Caught(r) /\ ~CaughtByRow(r) /\ UNCHANGED marketVars
    \/ \E c \in Connections : CloseIdle(c) /\ UNCHANGED marketVars
    \/ simulateComplianceReport
    \/ recordOutcome

Spec == Init /\ [][Next]_vars
=============================================================================
