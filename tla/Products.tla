------------------------------ MODULE Products ------------------------------
(***************************************************************************)
(* The products of a company: creation, update, publication and archiving,     *)
(* deletion and bulk import, each one transaction. A publication makes a        *)
(* shipment in the same transaction; its failure, and that of linking the       *)
(* evidence, is caught and logged inside the transaction.                      *)
(*                                                                         *)
(* Of a product only its status and the number of its shipments are kept:       *)
(* carbon figures, snapshots (numbered MAX + 1 under the row's lock) and        *)
(* legs are left out, and so are the domestic documents of a publication        *)
(* except that they may be missing. deleteProduct is modelled statement by      *)
(* statement in Batches.                                                      *)
(***************************************************************************)
EXTENDS Sessions

CONSTANT Products

Product(status, shipments) == [status |-> status, shipments |-> shipments]
NoProduct == Product("absent", 0)

Chosen(r) == request[r].row
SessionOf(r) == session[request[r].on]
Seen(r, p) == View(request[r].on, p)

(* createShipmentFromProduct: made, skipped for want of logistics data, or      *)
(* failed and swallowed.                                                      *)
createShipmentFromProduct(s, p, product) ==
    {Write(s, p, [product EXCEPT !.shipments = @ + 1]), Write(s, p, product), Fail(s)}

(* syncShipmentFromProduct: a product without a shipment gets one.              *)
syncShipmentFromProduct(s, p, product) ==
    IF product.shipments = 0 THEN createShipmentFromProduct(s, p, product) ELSE {s}

(* linkProductEvidence: its failure is swallowed as well.                      *)
linkProductEvidence(s) == {s, Fail(s)}

-----------------------------------------------------------------------------
(* createProduct                                                            *)

createProduct(r) ==
    /\ request[r].kind = "create"
    /\ \/ /\ At(r, "read")
          /\ IF Seen(r, Chosen(r)) # NoProduct THEN Rollback(r) /\ Answer(r)
             ELSE Continue(r, SessionOf(r), "write", Chosen(r), "none")
       \/ /\ At(r, "write") /\ Seen(r, Chosen(r)) # NoProduct    \* the SKU is taken by now
          /\ Rollback(r) /\ Answer(r)
       \/ /\ At(r, "write") /\ Seen(r, Chosen(r)) = NoProduct
          /\ LET product == Product(request[r].value, 0)
             IN \E s \in linkProductEvidence(Write(SessionOf(r), Chosen(r), product)) :
                  IF product.status = "draft" THEN Continue(r, s, "commit", "none", "none")
                  ELSE IF s.tx = "aborted" THEN Rollback(r) /\ Answer(r)
                  ELSE \E t \in createShipmentFromProduct(s, Chosen(r), product) :
                         Continue(r, t, "commit", "none", "none")
       \/ At(r, "commit") /\ Commit(r, SessionOf(r)) /\ Answer(r)

(* updateProduct: a product that is not there is answered without ROLLBACK.     *)
updateProduct(r) ==
    /\ request[r].kind = "update"
    /\ \/ /\ At(r, "read")
          /\ IF Seen(r, Chosen(r)) = NoProduct THEN LeaveOpen(r, SessionOf(r)) /\ Answer(r)
             ELSE Continue(r, Lock(SessionOf(r), Chosen(r)), "write", Chosen(r), "none")
       \/ /\ At(r, "write")
          /\ LET product == Seen(r, Chosen(r))
             IN \E s \in linkProductEvidence(Write(SessionOf(r), Chosen(r), product)) :
                  IF product.status # "active" THEN Continue(r, s, "commit", "none", "none")
                  ELSE IF s.tx = "aborted" THEN Rollback(r) /\ Answer(r)
                  ELSE \E t \in syncShipmentFromProduct(s, Chosen(r), product) :
                         Continue(r, t, "commit", "none", "none")
       \/ At(r, "commit") /\ Commit(r, SessionOf(r)) /\ Answer(r)

validTransitions == {<<"draft", "active">>, <<"active", "archived">>, <<"archived", "draft">>}

\* A variant, never used: the SELECT without FOR UPDATE.
lockProduct_PlainSelect(r) == SessionOf(r)

(* updateProductStatus locks the row first; a refusal keeps the lock.           *)
lockProduct(r) == Lock(SessionOf(r), Chosen(r))

updateProductStatus(r) ==
    /\ request[r].kind = "status"
    /\ \/ /\ At(r, "read")
          /\ LET product == Seen(r, Chosen(r))
             IN IF product = NoProduct THEN LeaveOpen(r, SessionOf(r)) /\ Answer(r)
                ELSE IF <<product.status, request[r].value>> \notin validTransitions
                THEN LeaveOpen(r, lockProduct(r)) /\ Answer(r)
                ELSE Continue(r, lockProduct(r), "write", Chosen(r), product)
       \/ /\ At(r, "write")
          /\ LET product == [request[r].seen EXCEPT !.status = request[r].value]
             IN \E s \in IF product.status = "active"
                         THEN createShipmentFromProduct(SessionOf(r), Chosen(r), product)
                         ELSE {Write(SessionOf(r), Chosen(r), product)} :
                  Continue(r, s, "commit", "none", "none")
       \/ At(r, "commit") /\ Commit(r, SessionOf(r)) /\ Answer(r)

deleteProduct(r) ==
    /\ request[r].kind = "delete"
    /\ \/ /\ At(r, "read")
          /\ IF Seen(r, Chosen(r)) = NoProduct THEN Rollback(r) /\ Answer(r)
             ELSE Continue(r, SessionOf(r), "write", Chosen(r), "none")
       \/ /\ At(r, "write")
          /\ Continue(r, Write(SessionOf(r), Chosen(r), NoProduct), "commit", "none", "none")
       \/ At(r, "commit") /\ Commit(r, SessionOf(r)) /\ Answer(r)

-----------------------------------------------------------------------------
(* bulkImport: every row in one transaction, an error of a row is counted and    *)
(* the next row goes on. A row refused for its domestic documents is counted as  *)
(* failed after it was inserted; a row whose statement failed has aborted all.   *)

ImportRow(r, p) ==
    LET s == SessionOf(r)
        product == Product(request[r].value, 0)
        rest == request[r].seen \ {p}
        goto(t) == IF rest = {} THEN Continue(r, t, "commit", "none", rest)
                   ELSE \E q \in rest : Continue(r, t, "write", q, rest)
    IN  \/ goto(Fail(s))            \* a statement fails, or waited too long; or all have failed
        \/ /\ s.tx = "open" /\ At(r, "write")
           /\ IF Seen(r, p) # NoProduct THEN goto(s)
              ELSE \/ goto(Write(s, p, product))     \* a draft, or refused for its documents
                   \/ /\ product.status = "active"
                      /\ \E t \in createShipmentFromProduct(s, p, product) : goto(t)

bulkImport(r) ==
    /\ request[r].kind = "import"
    /\ \/ At(r, "read") /\ \E q \in Products : Continue(r, SessionOf(r), "write", q, Products)
       \/ request[r].at = "write" /\ ImportRow(r, request[r].next)
       \/ At(r, "commit") /\ Commit(r, SessionOf(r)) /\ Answer(r)

-----------------------------------------------------------------------------
ProductArrives(r) ==
    \/ \E p \in Products :
        \/ \E status \in {"draft", "active"} : Arrive(r, "create", p, status, "none")
        \/ Arrive(r, "update", p, "none", p)
        \/ \E status \in {"draft", "active", "archived"} : Arrive(r, "status", p, status, p)
        \/ Arrive(r, "delete", p, "none", "none")
    \/ \E status \in {"draft", "active"} : Arrive(r, "import", "none", status, "none")

ProductStep(r) ==
    createProduct(r) \/ updateProduct(r) \/ updateProductStatus(r) \/ deleteProduct(r) \/ bulkImport(r)

(* A published product that has a shipment gets no other one before it is          *)
(* archived and published again: two publications, an update or an import beside   *)
(* them and transactions that refused requests left open do not give it a second    *)
(* one (updateProductStatus, updateProduct, createProduct, bulkImport).            *)
ShipmentPerPublication ==
    [][\A p \in Products : committed'[p].shipments > committed[p].shipments =>
        /\ committed'[p].shipments = committed[p].shipments + 1
        /\ committed'[p].status = "active"
        /\ committed[p].status = "active" => committed[p].shipments = 0]_committed
=============================================================================
