----------------------------- MODULE ExportShipment -----------------------------
(***************************************************************************)
(* What a shipment's export documents are made from (exportShipmentService):  *)
(* its goods (profile, one line, a container with a package), the profiles of  *)
(* the authority handoffs, and carrier documents that people reconcile and     *)
(* confirm. Content is a value that edits change; "none" is content that is    *)
(* missing or fails the format checks. A hash is the content it is taken of.   *)
(***************************************************************************)
EXTENDS Naturals, Sequences, FiniteSets, ControlledDocuments

CONSTANTS
    Requests,       \* concurrent HTTP requests
    CarrierFiles,   \* evidence documents of a carrier type: bill of lading, AWB, CMR
    OriginFiles,    \* evidence documents of type origin_support
    MaxEdits        \* bound on changes to what is declared here

ASSUME FilesAreDocuments == CarrierFiles \cup OriginFiles \subseteq Documents

Contents == {"a", "b"}
Profiles == {"vn_customs_handoff", "eu_import_handoff", "eu_lines", "ics2_dataset", "origin_workbook"}

VARIABLES
    goods,      \* [profile, line, container, package]
    handoff,    \* handoff[p]: the profile for an authority
    carrier,    \* carrier[d]: the structured carrier document made from evidence d
    edits,      \* changes so far, which also number the rows
    request     \* request[r]: where a request is and what it has read

(* code: the HS code; authority: the columns that name the calculation.      *)
NoLine == [id |-> 0, code |-> 0, confirmed |-> FALSE, carbon |-> "none", authority |-> FALSE]
NoGoods == [profile |-> "none", line |-> NoLine, container |-> "none", package |-> "none"]
NoHash == [goods |-> NoGoods, details |-> "none"]
NoCarrier == [id |-> 0, status |-> "none", details |-> "none", supersedes |-> "none", hash |-> NoHash]

(* getProfile: what one reading of the shipment sees. pinned is what it sees  *)
(* of the issued invoice and packing list.                                   *)
CarriersSeen == [d \in CarrierFiles \cup OriginFiles |->
    [row |-> IF d \in CarrierFiles THEN carrier[d] ELSE NoCarrier, evidence |-> document[d]]]
Snapshot(pinned) == [goods |-> goods, carriers |-> CarriersSeen, handoff |-> handoff, pinned |-> pinned]
NoPayload == [source |-> [goods |-> NoGoods, carriers |-> <<>>], profile |-> <<>>, pinned |-> {}]

(* Of what it has read a request keeps what it will use.                     *)
Idle == [step |-> "idle", n |-> 0, type |-> "none", payload |-> NoPayload, file |-> 0,
         old |-> {}, carrier |-> "none", hash |-> NoHash, line |-> NoLine]

Goto(r, state) == request' = [request EXCEPT ![r] = state]

(* sourceSnapshotSha256 and carrierReconciliationSha256 of a snapshot.       *)
Source(s) == [goods |-> s.goods, carriers |-> s.carriers]
ReconciliationOf(s, d) == [goods |-> s.goods, details |-> s.carriers[d].row.details]

-----------------------------------------------------------------------------
(* Editing. Each of these is one statement, or reads and writes one row. An    *)
(* edit that leaves everything as it was is left out.                        *)

Edit == edits < MaxEdits /\ edits' = edits + 1
ChangeGoods(value) == value # goods /\ Edit /\ goods' = value /\ UNCHANGED <<document, handoff, carrier>>

upsertProfile == \E v \in Contents : ChangeGoods([goods EXCEPT !.profile = v])

syncLinesFromShipment ==
    LET line == IF goods.line = NoLine THEN [NoLine EXCEPT !.id = edits + 1, !.code = 1] ELSE goods.line
    IN  ChangeGoods([goods EXCEPT !.line = [line EXCEPT !.carbon = "calculated", !.authority = TRUE]])

createLine ==     \* UNIQUE (shipment, line_number): there is one line
    /\ goods.line = NoLine
    /\ \E code \in 1..2, confirmed \in BOOLEAN, carbon \in {"none", "stated"} :
          ChangeGoods([goods EXCEPT !.line = [id |-> edits + 1, code |-> code,
                         confirmed |-> confirmed, carbon |-> carbon, authority |-> FALSE]])

(* updateLine merges the input with the row it has read, and writes the whole *)
(* row but for the authority, which it clears when it changes the carbon.     *)
updateLine(r) ==
    /\ request[r].step = "idle" /\ goods.line # NoLine
    /\ Goto(r, [Idle EXCEPT !.step = "merging", !.line = goods.line])
    /\ UNCHANGED <<document, goods, handoff, carrier, edits>>
saveLine(r) ==
    LET read == request[r].line
    IN  /\ request[r].step = "merging" /\ goods.line.id = read.id
        /\ \E code \in 1..2, confirm \in BOOLEAN, carbon \in {read.carbon, "none", "stated"} :
              ChangeGoods([goods EXCEPT !.line =
                [id |-> read.id, code |-> code, confirmed |-> confirm /\ code = read.code,
                 carbon |-> carbon, authority |-> goods.line.authority /\ carbon = read.carbon]])
        /\ Goto(r, Idle)

deleteLine ==     \* takes its EU import details with it
    /\ goods.line # NoLine /\ Edit
    /\ goods' = [goods EXCEPT !.line = NoLine] /\ handoff' = [handoff EXCEPT !["eu_lines"] = "none"]
    /\ UNCHANGED <<document, carrier>>

createContainer == goods.container = "none" /\ \E v \in Contents : ChangeGoods([goods EXCEPT !.container = v])
updateContainer == goods.container # "none" /\ \E v \in Contents : ChangeGoods([goods EXCEPT !.container = v])
deleteContainer ==     \* ON DELETE RESTRICT: not while a package is in it
    goods.container # "none" /\ goods.package = "none" /\ ChangeGoods([goods EXCEPT !.container = "none"])
createPackage ==     \* a package outside any container counts as missing
    /\ goods.container # "none" /\ goods.package = "none"
    /\ \E v \in Contents : ChangeGoods([goods EXCEPT !.package = v])
updatePackage == goods.package # "none" /\ \E v \in Contents : ChangeGoods([goods EXCEPT !.package = v])
deletePackage == goods.package # "none" /\ ChangeGoods([goods EXCEPT !.package = "none"])

Upsert(p) ==
    /\ Edit /\ \E v \in Contents \ {handoff[p]} : handoff' = [handoff EXCEPT ![p] = v]
    /\ UNCHANGED <<document, goods, carrier>>
upsertVnCustomsProfile == Upsert("vn_customs_handoff")
upsertEuImportProfile == Upsert("eu_import_handoff")
upsertEuImportLineDetail == goods.line # NoLine /\ Upsert("eu_lines")
upsertIcs2Profile == Upsert("ics2_dataset")
upsertOriginProfile == Upsert("origin_workbook")

-----------------------------------------------------------------------------
(* Carrier documents. One identity (type and number) is modelled.            *)

ChangeCarrier(d, row) ==
    row # carrier[d] /\ Edit /\ carrier' = [carrier EXCEPT ![d] = row] /\ UNCHANGED <<goods, handoff>>

Confirmed(e) == carrier[e].status = "confirmed"

createCarrierDocument(d) ==
    /\ carrier[d] = NoCarrier /\ d \in Existing
    /\ \E v \in Contents, prior \in {"none"} \cup {e \in CarrierFiles : Confirmed(e)} :
          ChangeCarrier(d, [id |-> edits + 1, status |-> "draft", details |-> v,
                            supersedes |-> prior, hash |-> NoHash])
    /\ UNCHANGED document
updateCarrierDocument(d) ==
    /\ carrier[d].status = "draft"
    /\ \E v \in Contents : ChangeCarrier(d, [carrier[d] EXCEPT !.details = v])
    /\ UNCHANGED document
deleteCarrierDocument(d) ==
    carrier[d].status = "draft" /\ ChangeCarrier(d, NoCarrier) /\ UNCHANGED document

(* The document agrees with what the shipment states of the same facts.      *)
validateCarrierDocument(s, d) ==
    \A v \in {s.goods.profile, s.goods.container, s.goods.package} :
        v \in {"none", s.carriers[d].row.details}

(* confirmCarrierDocument checks a snapshot, then commits to the row as it is. *)
confirmCarrierDocument(r, d) ==
    LET s == Snapshot({})
    IN  /\ request[r].step = "idle" /\ carrier[d].status = "draft"
        /\ \A e \in CarrierFiles \ {d} : Confirmed(e) => carrier[d].supersedes = e
        /\ validateCarrierDocument(s, d)
        /\ Goto(r, [Idle EXCEPT !.step = "confirming", !.carrier = d, !.n = carrier[d].id,
                                  !.hash = ReconciliationOf(s, d)])
        /\ UNCHANGED <<document, goods, handoff, carrier, edits>>

Superseding(d, row) ==
    IF row.supersedes # "none" /\ Confirmed(row.supersedes)
    THEN [carrier EXCEPT ![d] = row, ![row.supersedes].status = "superseded"]
    ELSE [carrier EXCEPT ![d] = row]

commitConfirmation(r) ==
    LET d == request[r].carrier
        row == [carrier[d] EXCEPT !.status = "confirmed", !.hash = request[r].hash]
    IN  /\ request[r].step = "confirming" /\ Edit
        /\ carrier[d].status = "draft" /\ carrier[d].id = request[r].n
        /\ \A e \in CarrierFiles \ {d, row.supersedes} : ~Confirmed(e)   \* unique index
        /\ carrier' = Superseding(d, row)
        /\ document' = [document EXCEPT ![d] = "controlled"]
        /\ Goto(r, Idle)
        /\ UNCHANGED <<goods, handoff>>

ChangeEvidence ==     \* elsewhere: a person locks or deletes, a late extraction reopens
    /\ Edit
    /\ \E d \in Documents :
          \/ Lock(d)
          \/ Reopen(d)
          \/ (d \in CarrierFiles => carrier[d] = NoCarrier) /\ Delete(d)
    /\ UNCHANGED <<goods, handoff, carrier>>

EditShipment ==
    \/ upsertProfile \/ syncLinesFromShipment \/ createLine \/ deleteLine
    \/ createContainer \/ updateContainer \/ deleteContainer
    \/ createPackage \/ updatePackage \/ deletePackage
    \/ upsertVnCustomsProfile \/ upsertEuImportProfile \/ upsertEuImportLineDetail
    \/ upsertIcs2Profile \/ upsertOriginProfile \/ ChangeEvidence
    \/ \E d \in CarrierFiles :
          createCarrierDocument(d) \/ updateCarrierDocument(d) \/ deleteCarrierDocument(d)

ShipmentStep(r) ==
    \/ updateLine(r) \/ saveLine(r) \/ commitConfirmation(r)
    \/ \E d \in CarrierFiles : confirmCarrierDocument(r, d)

-----------------------------------------------------------------------------
(* Readiness, as _validateSnapshot and the validators of the handoffs judge a *)
(* snapshot. A pinned document is current when it was made of the same source. *)

HasGoods(s) == s.goods.profile # "none" /\ s.goods.line # NoLine
HasPacking(s) == s.goods.container # "none" /\ s.goods.package # "none"
CarrierCurrent(s, d) ==
    s.carriers[d].row.status = "confirmed" /\ s.carriers[d].row.hash = ReconciliationOf(s, d)
HasCarrier(s) == \E d \in CarrierFiles : CarrierCurrent(s, d)
HasReconciled(s) == \E d \in CarrierFiles : s.carriers[d].row.hash = ReconciliationOf(s, d)
isCurrentIssuedSupportingDocument(s, pin) == pin.source = Source(s)
Supporting == {"commercial_invoice", "packing_list"}
HasSupporting(s) ==
    \A t \in Supporting : \E pin \in s.pinned : pin.type = t /\ isCurrentIssuedSupportingDocument(s, pin)

commercialInvoiceReady(s) == HasGoods(s) /\ s.goods.line.confirmed
packingListReady(s) == HasGoods(s) /\ HasPacking(s)
carbonAnnexReady(s) ==
    /\ HasGoods(s) /\ s.goods.line.carbon # "none" /\ s.goods.line.authority
    /\ \E d \in CarrierFiles : CarrierCurrent(s, d) /\ s.carriers[d].evidence = "controlled"
validateIcs2Handoff(s) ==
    s.handoff["ics2_dataset"] # "none" /\ HasGoods(s) /\ HasPacking(s) /\ HasReconciled(s)
validateOriginHandoff(s) ==
    /\ s.handoff["origin_workbook"] # "none" /\ HasGoods(s)
    /\ \A d \in OriginFiles : s.carriers[d].evidence = "controlled"
validateVnCustomsHandoff(s) ==
    /\ s.handoff["vn_customs_handoff"] # "none"
    /\ HasGoods(s) /\ s.goods.line.confirmed /\ HasPacking(s) /\ HasSupporting(s) /\ HasCarrier(s)
validateEuImportHandoff(s) ==
    /\ s.handoff["eu_import_handoff"] # "none" /\ s.handoff["eu_lines"] # "none"
    /\ HasGoods(s) /\ s.goods.line.confirmed /\ HasPacking(s) /\ HasSupporting(s) /\ HasCarrier(s)

Ready(s, type) ==
    CASE type = "commercial_invoice" -> commercialInvoiceReady(s)
      [] type = "packing_list"       -> packingListReady(s)
      [] type = "carbon_annex"       -> carbonAnnexReady(s)
      [] type = "ics2_dataset"       -> validateIcs2Handoff(s)
      [] type = "origin_workbook"    -> validateOriginHandoff(s)
      [] type = "vn_customs_handoff" -> validateVnCustomsHandoff(s)
      [] type = "eu_import_handoff"  -> validateEuImportHandoff(s)

(* documentSourceSnapshotSha256: what the content of a document depends on.   *)
DocumentSource(s, type) ==
    [source  |-> Source(s),
     profile |-> IF type = "eu_import_handoff" THEN <<s.handoff[type], s.handoff["eu_lines"]>>
                 ELSE IF type \in Profiles THEN <<s.handoff[type]>> ELSE <<>>,
     pinned  |-> IF type \in {"vn_customs_handoff", "eu_import_handoff"} THEN s.pinned ELSE {}]
===============================================================================
