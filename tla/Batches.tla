-------------------------------- MODULE Batches --------------------------------
(***************************************************************************)
(* One product batch of a company (modules/assessments/batchesService): its *)
(* items and running totals, its publication into a shipment, and the       *)
(* deletion of products (modules/products/service).                         *)
(*                                                                         *)
(* Every request is a READ COMMITTED transaction: one step is one statement, *)
(* which sees what is committed and what the transaction itself has done.   *)
(* A changed row is locked until the end: a request that wants it waits.    *)
(* An UPDATE that waited for the batch row writes the totals its own        *)
(* statement counted before it waited. No request reads the batch FOR       *)
(* UPDATE. The last statement and the COMMIT are one step.                  *)
(***************************************************************************)
EXTENDS Naturals, FiniteSetsExt

CONSTANTS
    Products,
    Requests,      \* concurrent HTTP requests
    Quantities,    \* quantities an item is given (bounds them)
    Shipments      \* shipments that publications can make (bounds them)

ASSUME ProductsAssumption == IsFiniteSet(Products)
ASSUME QuantitiesAssumption == Quantities \subseteq Nat \ {0}

NoProduct == "none"
NoShipment == "none"
ASSUME NamesAssumption == NoProduct \notin Products /\ NoShipment \notin Shipments

VARIABLES
    status,    \* product_batches.status
    routed,    \* origin, destination and transport mode suffice for a leg
    items,     \* items[p]: quantity in product_batch_items, 0 without a row
    totals,    \* total_products and total_quantity of the batch
    link,      \* product_batches.shipment_id
    exists,    \* exists[p]: there is a row of products
    shipment,  \* shipment[s]: its row and its shipment_products
    request,   \* request[r]: where a transaction is and what it has read
    concurrent \* history: two requests were once under way together

vars == <<status, routed, items, totals, link, exists, shipment, request, concurrent>>

NoLines == [p \in Products |-> 0]
Held(f) == {p \in Products : f[p] > 0}
Count(f) == [products |-> Cardinality(Held(f)), quantity |-> MapThenSumSet(LAMBDA p : f[p], Held(f))]

Idle == [kind |-> "none", step |-> "idle", product |-> NoProduct, quantity |-> 0,
         changed |-> FALSE, counted |-> Count(NoLines), lines |-> NoLines,
         routed |-> FALSE, inBatch |-> FALSE, affected |-> {}]

Init ==
    /\ status = "draft" /\ routed \in BOOLEAN
    /\ items = NoLines /\ totals = Count(NoLines) /\ link = NoShipment
    /\ exists = [p \in Products |-> TRUE]
    /\ shipment = [s \in Shipments |-> [state |-> "unused", lines |-> NoLines]]
    /\ request = [r \in Requests |-> Idle] /\ concurrent = FALSE

At(r, kind, step) == request[r].kind = kind /\ request[r].step = step
Goto(r, state) == request' = [request EXCEPT ![r] = state]
Reads == UNCHANGED <<status, routed, items, totals, link, exists, shipment>>

(* What the transaction of r has changed and not committed, and so locked.  *)
Changes(r, p) == request[r].changed /\ request[r].product = p
Locked(p) == \E r \in Requests : Changes(r, p)
Visible(r) ==
    IF request[r].changed THEN [items EXCEPT ![request[r].product] = request[r].quantity]
    ELSE items

(* ROLLBACK: a refusal, a violated constraint, a deadlock, a lost connection. *)
Abort(r) == request[r].step # "idle" /\ Goto(r, Idle) /\ Reads

-----------------------------------------------------------------------------
(* addBatchItem, updateBatchItem, deleteBatchItem.                         *)

Edits == {"add", "update", "delete"}

Editable == status = "draft"

BeginEdit(r, kind, p, n) ==
    /\ request[r].step = "idle" /\ Editable /\ kind \in Edits
    /\ kind = "add" => exists[p]
    /\ Goto(r, [Idle EXCEPT !.kind = kind, !.step = "checked", !.product = p,
                            !.quantity = IF kind = "delete" THEN 0 ELSE n])
    /\ Reads

(* A row of the same batch and product is refused (UNIQUE), a missing one   *)
(* is BATCH_ITEM_NOT_FOUND: both roll back (Abort).                         *)
ChangeItem(r) ==
    /\ request[r].kind \in Edits /\ request[r].step = "checked"
    /\ LET p == request[r].product
       IN  /\ ~Locked(p)
           /\ IF request[r].kind = "add" THEN exists[p] /\ items[p] = 0 ELSE items[p] > 0
    /\ Goto(r, [request[r] EXCEPT !.step = "changed", !.changed = TRUE])
    /\ Reads

(* _recalculateBatchTotals begins: the sums are those of its snapshot.      *)
Recalculate(r) ==
    /\ request[r].step = "changed"
    /\ Goto(r, [request[r] EXCEPT !.step = "counted", !.counted = Count(Visible(r))])
    /\ Reads

CommitEdit(r) ==
    /\ request[r].kind \in Edits /\ request[r].step = "counted"
    /\ items' = Visible(r) /\ totals' = request[r].counted
    /\ Goto(r, Idle)
    /\ UNCHANGED <<status, routed, link, exists, shipment>>

-----------------------------------------------------------------------------
(* updateBatch: the check and the guarded UPDATE; deleteBatch.             *)

BeginUpdate(r, complete) ==
    /\ request[r].step = "idle" /\ status = "draft"
    /\ Goto(r, [Idle EXCEPT !.kind = "metadata", !.step = "checked", !.routed = complete])
    /\ Reads

UpdateMetadata(r) ==
    /\ At(r, "metadata", "checked")
    /\ routed' = IF status = "draft" THEN request[r].routed ELSE routed
    /\ Goto(r, Idle)
    /\ UNCHANGED <<status, items, totals, link, exists, shipment>>

DeleteBatch(r) ==
    /\ request[r].step = "idle"
    /\ status' = "archived"
    /\ UNCHANGED <<routed, items, totals, link, exists, shipment, request>>

-----------------------------------------------------------------------------
(* publishBatch.                                                           *)

ReadBatch(r) ==
    /\ request[r].step = "idle" /\ status # "published" /\ totals.products > 0
    /\ Goto(r, [Idle EXCEPT !.kind = "publish", !.step = "read", !.routed = routed])
    /\ Reads

(* The products are read; without any, or without their domestic documents, *)
(* the request is refused (Abort).                                          *)
ValidateProducts(r) ==
    /\ At(r, "publish", "read") /\ Held(items) # {}
    /\ Goto(r, [request[r] EXCEPT !.step = "validated"])
    /\ Reads

ReadItems(r) ==
    /\ At(r, "publish", "validated")
    /\ Goto(r, [request[r] EXCEPT !.step = "prepared",
                                  !.lines = IF request[r].routed THEN items ELSE NoLines])
    /\ Reads

(* Without items (or a route) no shipment is inserted.                      *)
NeedsShipment_Routed(r) == request[r].routed
NeedsShipment(r) == request[r].routed /\ Held(request[r].lines) # {}

PublishBatch(r) ==
    /\ At(r, "publish", "prepared")
    /\ \A p \in Held(request[r].lines) : exists[p]
    /\ IF NeedsShipment(r)
       THEN \E s \in Shipments :
                /\ shipment[s].state = "unused" /\ link' = s
                /\ shipment' = [shipment EXCEPT ![s] =
                                    [state |-> "live", lines |-> request[r].lines]]
       ELSE link' = NoShipment /\ UNCHANGED shipment
    /\ status' = "published"
    /\ Goto(r, Idle)
    /\ UNCHANGED <<routed, items, totals, exists>>

-----------------------------------------------------------------------------
(* deleteProduct.                                                          *)

BeginDeletion(r, p) ==
    /\ request[r].step = "idle" /\ exists[p]
    /\ Goto(r, [Idle EXCEPT !.kind = "product", !.step = "linked", !.product = p,
                            !.inBatch = items[p] > 0])
    /\ Reads

ReadShipments(r) ==
    /\ At(r, "product", "linked")
    /\ Goto(r, [request[r] EXCEPT !.step = "listed",
            !.affected = {s \in Shipments : shipment[s].lines[request[r].product] > 0}])
    /\ Reads

DeleteItems_NotCounted(r) ==
    /\ At(r, "product", "listed")
    /\ LET p == request[r].product
       IN  /\ items[p] > 0 => ~Locked(p)
           /\ Goto(r, [request[r] EXCEPT !.changed = items[p] > 0, !.step = "counted",
                                         !.counted = totals])
    /\ Reads

DeleteItems(r) ==
    /\ At(r, "product", "listed")
    /\ LET p == request[r].product
       IN  /\ items[p] > 0 => ~Locked(p)
           /\ Goto(r, [request[r] EXCEPT !.changed = items[p] > 0,
                                         !.step = IF request[r].inBatch THEN "changed" ELSE "counted"])
    /\ Reads

(* Rows of other transactions that still refer to p hold DELETE FROM        *)
(* products back; committed ones refuse it (ON DELETE RESTRICT: Abort).     *)
Referenced(r, p) ==
    \/ Visible(r)[p] > 0
    \/ \E q \in Requests \ {r} : Changes(q, p) \/ request[q].lines[p] > 0

WithoutProduct(s, p) == [shipment[s].lines EXCEPT ![p] = 0]

FinishDeletion(r) ==
    /\ At(r, "product", "counted") /\ ~Referenced(r, request[r].product)
    /\ LET p == request[r].product
           Emptied == {s \in request[r].affected : Held(WithoutProduct(s, p)) = {}}
       IN  /\ items' = Visible(r)
           /\ totals' = IF request[r].inBatch THEN request[r].counted ELSE totals
           /\ shipment' = [s \in Shipments |->
                    [state |-> IF s \in Emptied THEN "deleted" ELSE shipment[s].state,
                     lines |-> WithoutProduct(s, p)]]
           /\ link' = IF link \in Emptied THEN NoShipment ELSE link
           /\ exists' = [exists EXCEPT ![p] = FALSE]
    /\ Goto(r, Idle)
    /\ UNCHANGED <<status, routed>>

-----------------------------------------------------------------------------
Edit(r) ==
    \/ \E kind \in Edits, p \in Products, n \in Quantities : BeginEdit(r, kind, p, n)
    \/ ChangeItem(r) \/ Recalculate(r) \/ CommitEdit(r)

Update(r) == UpdateMetadata(r) \/ \E complete \in BOOLEAN : BeginUpdate(r, complete)

Publish(r) == ReadBatch(r) \/ ValidateProducts(r) \/ ReadItems(r) \/ PublishBatch(r)

DeleteProduct(r) ==
    \/ \E p \in Products : BeginDeletion(r, p)
    \/ ReadShipments(r) \/ DeleteItems(r) \/ FinishDeletion(r)

OneRequest ==
    \A r, q \in Requests : request[r].step # "idle" /\ request[q].step # "idle" => r = q

Next ==
    /\ \E r \in Requests :
        \/ Edit(r) \/ Update(r) \/ DeleteBatch(r) \/ Publish(r) \/ DeleteProduct(r) \/ Abort(r)
    /\ concurrent' = IF OneRequest' THEN concurrent ELSE TRUE

Spec == Init /\ [][Next]_vars

-----------------------------------------------------------------------------
(* Properties. The totals and the shipments are right when requests come one *)
(* after the other, and not when two overlap.                              *)

Lines == [Products -> Quantities \cup {0}]
Sums == {Count(f) : f \in Lines}
RequestStates ==
    [kind : {"none", "metadata", "publish", "product"} \cup Edits,
     step : {"idle", "checked", "changed", "counted", "read", "validated", "prepared",
             "linked", "listed"},
     product : Products \cup {NoProduct}, quantity : Quantities \cup {0}, changed : BOOLEAN,
     counted : Sums, lines : Lines, routed : BOOLEAN, inBatch : BOOLEAN,
     affected : SUBSET Shipments]

TypeOK ==
    /\ status \in {"draft", "published", "archived"} /\ routed \in BOOLEAN
    /\ items \in Lines /\ totals \in Sums /\ link \in Shipments \cup {NoShipment}
    /\ exists \in [Products -> BOOLEAN]
    /\ shipment \in [Shipments -> [state : {"unused", "live", "deleted"}, lines : Lines]]
    /\ request \in [Requests -> RequestStates]

(* A shipment made by a publication has something to ship, although the     *)
(* items are read twice and may have gone in between (publishBatch).        *)
ShipmentsBeginFilled ==
    [][\A s \in Shipments :
        shipment[s].state = "unused" /\ shipment'[s].state = "live" =>
            Held(shipment'[s].lines) # {}]_vars

(* PHASE_02: only a draft's metadata may be edited: an update that passed   *)
(* its check before the batch was published or archived changes nothing.    *)
MetadataIsFrozen == [][routed' # routed => status = "draft"]_vars

(* As long as no two requests have been under way together the totals of a   *)
(* batch are those of its items (_recalculateBatchTotals), and no shipment is *)
(* empty: deleteProduct, which "cleans up related links", leaves none behind. *)
ConsistentAlone ==
    concurrent \/
        /\ totals = Count(items)
        /\ \A s \in Shipments : shipment[s].state = "live" => Held(shipment[s].lines) # {}
=============================================================================
