----------------------------- MODULE RecordsProofs -----------------------------
(*****************************************************************************)
(* Theorems about the services of MCRecords, and of Donations, each about    *)
(* its own specification.                                                    *)
(*                                                                           *)
(* Batches, for any products, quantities, shipments and, unless a theorem    *)
(* says otherwise, any number of concurrent requests. AuthSessions, for any  *)
(* clients, tokens and revisions of the factor; Security, for any number of  *)
(* writes.                                                                   *)
(*                                                                           *)
(* Donations, for any donors, baskets and concurrent requests: running       *)
(* totals are sums over the donations there are, and requests that overlap   *)
(* change the rows as they would one after the other. What a sum over a set  *)
(* is follows from its fold unfolded, without induction over the set.        *)
(*                                                                           *)
(* Criticality, for any rows its services can have written: a score keeps    *)
(* what it was made of, because rows are only added, and the percentages of  *)
(* its bands add up.                                                         *)
(*****************************************************************************)
EXTENDS Batches, Security, Criticality, Donations, FiniteSetTheorems,
        WellFoundedInduction, TLAPS

-----------------------------------------------------------------------------
(* Batches.                                                                  *)

(* An item change that the transaction r would make is a row of items.       *)
LEMMA VisibleType ==
    ASSUME TypeOK, NEW r \in Requests
    PROVE  Visible(r) \in Lines
  <1>1. items \in Lines /\ request[r].quantity \in Quantities \cup {0}
    BY DEF TypeOK, RequestStates
  <1> QED
    BY <1>1 DEF Visible, Lines

LEMMA CountType ==
    ASSUME NEW f \in Lines
    PROVE  Count(f) \in Sums
  BY DEF Sums

LEMMA NoLinesType == NoLines \in Lines
  BY DEF NoLines, Lines

LEMMA IdleType == Idle \in RequestStates
  <1>1. Count(NoLines) \in Sums
    BY NoLinesType, CountType
  <1>2. \E c \in Sums : c = Count(NoLines)
    BY <1>1
  <1> QED
    BY <1>1, NoLinesType DEF Idle, RequestStates, Edits

(* A request takes a step of its own and nothing else moves.                 *)
LEMMA Moves ==
    ASSUME TypeOK, NEW r \in Requests, NEW state \in RequestStates, Goto(r, state), Reads
    PROVE  TypeOK'
  BY DEF TypeOK, Goto, Reads

LEMMA RequestType ==
    ASSUME request \in [Requests -> RequestStates], NEW r \in Requests,
           NEW state \in RequestStates, Goto(r, state)
    PROVE  request' \in [Requests -> RequestStates]
  BY DEF Goto

LEMMA EditType ==
    ASSUME TypeOK, NEW r \in Requests, Edit(r)
    PROVE  TypeOK'
  <1>0. request[r] \in RequestStates
    BY DEF TypeOK
  <1>1. ASSUME NEW kind \in Edits, NEW p \in Products, NEW n \in Quantities,
               BeginEdit(r, kind, p, n)
        PROVE  TypeOK'
    <2> DEFINE state == [Idle EXCEPT !.kind = kind, !.step = "checked", !.product = p,
                                     !.quantity = IF kind = "delete" THEN 0 ELSE n]
    <2>1. state \in RequestStates
      BY IdleType DEF RequestStates, Idle
    <2>2. Goto(r, state) /\ Reads
      BY <1>1 DEF BeginEdit
    <2> HIDE DEF state
    <2> QED
      BY <2>1, <2>2, Moves
  <1>2. CASE ChangeItem(r)
    <2> DEFINE state == [request[r] EXCEPT !.step = "changed", !.changed = TRUE]
    <2>1. state \in RequestStates
      BY <1>0 DEF RequestStates
    <2>2. Goto(r, state) /\ Reads
      BY <1>2 DEF ChangeItem
    <2> HIDE DEF state
    <2> QED
      BY <2>1, <2>2, Moves
  <1>3. CASE Recalculate(r)
    <2> DEFINE state == [request[r] EXCEPT !.step = "counted", !.counted = Count(Visible(r))]
    <2>1. Count(Visible(r)) \in Sums
      BY VisibleType, CountType
    <2>2. state \in RequestStates
      BY <1>0, <2>1 DEF RequestStates
    <2>3. Goto(r, state) /\ Reads
      BY <1>3 DEF Recalculate
    <2> HIDE DEF state
    <2> QED
      BY <2>2, <2>3, Moves
  <1>4. CASE CommitEdit(r)
    <2>1. request' \in [Requests -> RequestStates]
      BY <1>4, IdleType, RequestType DEF CommitEdit, TypeOK
    <2>2. items' \in Lines
      BY <1>4, VisibleType DEF CommitEdit
    <2>3. totals' \in Sums
      BY <1>0, <1>4 DEF CommitEdit, RequestStates
    <2> QED
      BY <1>4, <2>1, <2>2, <2>3 DEF CommitEdit, TypeOK
  <1> QED
    BY <1>1, <1>2, <1>3, <1>4 DEF Edit

LEMMA UpdateType ==
    ASSUME TypeOK, NEW r \in Requests, Update(r) \/ DeleteBatch(r)
    PROVE  TypeOK'
  <1>0. request[r] \in RequestStates
    BY DEF TypeOK
  <1>1. ASSUME NEW complete \in BOOLEAN, BeginUpdate(r, complete)
        PROVE  TypeOK'
    <2> DEFINE state == [Idle EXCEPT !.kind = "metadata", !.step = "checked",
                                     !.routed = complete]
    <2>1. state \in RequestStates
      BY IdleType DEF RequestStates, Idle
    <2>2. Goto(r, state) /\ Reads
      BY <1>1 DEF BeginUpdate
    <2> HIDE DEF state
    <2> QED
      BY <2>1, <2>2, Moves
  <1>2. CASE UpdateMetadata(r)
    <2>1. request' \in [Requests -> RequestStates]
      BY <1>2, IdleType, RequestType DEF UpdateMetadata, TypeOK
    <2>2. routed' \in BOOLEAN
      BY <1>0, <1>2 DEF UpdateMetadata, RequestStates, TypeOK
    <2> QED
      BY <1>2, <2>1, <2>2 DEF UpdateMetadata, TypeOK
  <1>3. CASE DeleteBatch(r)
    BY <1>3 DEF DeleteBatch, TypeOK
  <1> QED
    BY <1>1, <1>2, <1>3 DEF Update

LEMMA PublishType ==
    ASSUME TypeOK, NEW r \in Requests, Publish(r)
    PROVE  TypeOK'
  <1>0. request[r] \in RequestStates /\ routed \in BOOLEAN /\ items \in Lines
    BY DEF TypeOK
  <1>1. CASE ReadBatch(r)
    <2> DEFINE state == [Idle EXCEPT !.kind = "publish", !.step = "read", !.routed = routed]
    <2>1. state \in RequestStates
      BY <1>0, IdleType DEF RequestStates, Idle
    <2>2. Goto(r, state) /\ Reads
      BY <1>1 DEF ReadBatch
    <2> HIDE DEF state
    <2> QED
      BY <2>1, <2>2, Moves
  <1>2. CASE ValidateProducts(r)
    <2> DEFINE state == [request[r] EXCEPT !.step = "validated"]
    <2>1. state \in RequestStates
      BY <1>0 DEF RequestStates
    <2>2. Goto(r, state) /\ Reads
      BY <1>2 DEF ValidateProducts
    <2> HIDE DEF state
    <2> QED
      BY <2>1, <2>2, Moves
  <1>3. CASE ReadItems(r)
    <2> DEFINE state == [request[r] EXCEPT !.step = "prepared",
                             !.lines = IF request[r].routed THEN items ELSE NoLines]
    <2>1. state \in RequestStates
      BY <1>0, NoLinesType DEF RequestStates
    <2>2. Goto(r, state) /\ Reads
      BY <1>3 DEF ReadItems
    <2> HIDE DEF state
    <2> QED
      BY <2>1, <2>2, Moves
  <1>4. CASE PublishBatch(r)
    <2>1. request' \in [Requests -> RequestStates]
      BY <1>4, IdleType, RequestType DEF PublishBatch, TypeOK
    <2>2. /\ link' \in Shipments \cup {NoShipment}
          /\ shipment' \in [Shipments -> [state : {"unused", "live", "deleted"}, lines : Lines]]
      <3>1. CASE NeedsShipment(r)
        <4>1. PICK s \in Shipments :
                /\ link' = s
                /\ shipment' = [shipment EXCEPT ![s] =
                                    [state |-> "live", lines |-> request[r].lines]]
          BY <1>4, <3>1 DEF PublishBatch
        <4>2. request[r].lines \in Lines
          BY <1>0 DEF RequestStates
        <4> QED
          BY <4>1, <4>2 DEF TypeOK
      <3>2. CASE ~NeedsShipment(r)
        BY <1>4, <3>2 DEF PublishBatch, TypeOK
      <3> QED
        BY <3>1, <3>2
    <2>3. status' = "published" /\ UNCHANGED <<routed, items, totals, exists>>
      BY <1>4 DEF PublishBatch
    <2> QED
      BY <2>1, <2>2, <2>3 DEF TypeOK
  <1> QED
    BY <1>1, <1>2, <1>3, <1>4 DEF Publish

LEMMA DeletionType ==
    ASSUME TypeOK, NEW r \in Requests, DeleteProduct(r)
    PROVE  TypeOK'
  <1>0. request[r] \in RequestStates /\ items \in Lines
    BY DEF TypeOK
  <1>1. ASSUME NEW p \in Products, BeginDeletion(r, p)
        PROVE  TypeOK'
    <2> DEFINE state == [Idle EXCEPT !.kind = "product", !.step = "linked", !.product = p,
                                     !.inBatch = items[p] > 0]
    <2>1. state \in RequestStates
      <3> DEFINE b == items[p] > 0
      <3>1. b \in BOOLEAN
        OBVIOUS
      <3> HIDE DEF b
      <3>2. [Idle EXCEPT !.kind = "product", !.step = "linked", !.product = p,
                         !.inBatch = b] \in RequestStates
        BY <3>1, IdleType DEF RequestStates, Idle
      <3> QED
        BY <3>2 DEF b
    <2>2. Goto(r, state) /\ Reads
      BY <1>1 DEF BeginDeletion
    <2> HIDE DEF state
    <2> QED
      BY <2>1, <2>2, Moves
  <1>2. CASE ReadShipments(r)
    <2> DEFINE state == [request[r] EXCEPT !.step = "listed",
                !.affected = {s \in Shipments : shipment[s].lines[request[r].product] > 0}]
    <2>1. state \in RequestStates
      BY <1>0 DEF RequestStates
    <2>2. Goto(r, state) /\ Reads
      BY <1>2 DEF ReadShipments
    <2> HIDE DEF state
    <2> QED
      BY <2>1, <2>2, Moves
  <1>3. CASE DeleteItems(r)
    <2> DEFINE state == [request[r] EXCEPT !.changed = items[request[r].product] > 0,
                             !.step = IF request[r].inBatch THEN "changed" ELSE "counted"]
    <2>1. state \in RequestStates
      <3> DEFINE b == items[request[r].product] > 0
      <3>1. b \in BOOLEAN
        OBVIOUS
      <3> HIDE DEF b
      <3>2. [request[r] EXCEPT !.changed = b,
                !.step = IF request[r].inBatch THEN "changed" ELSE "counted"] \in RequestStates
        BY <1>0, <3>1 DEF RequestStates
      <3> QED
        BY <3>2 DEF b
    <2>2. Goto(r, state) /\ Reads
      BY <1>3 DEF DeleteItems
    <2> HIDE DEF state
    <2> QED
      BY <2>1, <2>2, Moves
  <1>4. CASE FinishDeletion(r)
    <2> DEFINE p == request[r].product
               Emptied == {s \in request[r].affected : Held(WithoutProduct(s, p)) = {}}
    <2>1. request' \in [Requests -> RequestStates]
      BY <1>4, IdleType, RequestType DEF FinishDeletion, TypeOK
    <2>2. items' \in Lines
      BY <1>4, VisibleType DEF FinishDeletion
    <2>3. totals' \in Sums
      BY <1>0, <1>4 DEF FinishDeletion, RequestStates, TypeOK
    <2>4. \A s \in Shipments : WithoutProduct(s, p) \in Lines
      BY DEF TypeOK, WithoutProduct, Lines
    <2>5. shipment' = [s \in Shipments |->
                [state |-> IF s \in Emptied THEN "deleted" ELSE shipment[s].state,
                 lines |-> WithoutProduct(s, p)]]
      BY <1>4 DEF FinishDeletion
    <2>6. shipment' \in [Shipments -> [state : {"unused", "live", "deleted"}, lines : Lines]]
      <3> HIDE DEF p, Emptied
      <3> QED
        BY <2>4, <2>5 DEF TypeOK
    <2>7. link' \in Shipments \cup {NoShipment}
      BY <1>4 DEF FinishDeletion, TypeOK
    <2>8. exists' \in [Products -> BOOLEAN]
      BY <1>4 DEF FinishDeletion, TypeOK
    <2>9. UNCHANGED <<status, routed>>
      BY <1>4 DEF FinishDeletion
    <2> QED
      BY <2>1, <2>2, <2>3, <2>6, <2>7, <2>8, <2>9 DEF TypeOK
  <1> QED
    BY <1>1, <1>2, <1>3, <1>4 DEF DeleteProduct

LEMMA InitType ==
    ASSUME Init
    PROVE  TypeOK
  <1>1. Count(NoLines) \in Sums
    BY NoLinesType, CountType
  <1> QED
    BY <1>1, NoLinesType, IdleType DEF Init, TypeOK

(* The types of the tables are kept; the totals are always those that some   *)
(* items would have.                                                        *)
THEOREM TypeCorrect == Spec => []TypeOK
  <1>1. Init => TypeOK
    BY InitType
  <1>2. TypeOK /\ [Next]_vars => TypeOK'
    <2> SUFFICES ASSUME TypeOK, [Next]_vars
                 PROVE  TypeOK'
      OBVIOUS
    <2>1. ASSUME NEW r \in Requests, Abort(r)
          PROVE  TypeOK'
      BY <2>1, IdleType, Moves DEF Abort
    <2>2. CASE UNCHANGED vars
      BY <2>2 DEF vars, TypeOK
    <2> QED
      BY <2>1, <2>2, EditType, UpdateType, PublishType, DeletionType DEF Next
  <1> QED
    BY <1>1, <1>2, PTL DEF Spec

-----------------------------------------------------------------------------
(* The statements that write a table: all the others only read.             *)
LEMMA Writers ==
    ASSUME [Next]_vars
    PROVE  \/ Reads
           \/ \E r \in Requests :
                \/ CommitEdit(r) \/ UpdateMetadata(r) \/ DeleteBatch(r)
                \/ PublishBatch(r) \/ FinishDeletion(r)
  <1>1. ASSUME NEW r \in Requests, Edit(r) PROVE Reads \/ CommitEdit(r)
    BY <1>1 DEF Edit, BeginEdit, ChangeItem, Recalculate
  <1>2. ASSUME NEW r \in Requests, Update(r) PROVE Reads \/ UpdateMetadata(r)
    BY <1>2 DEF Update, BeginUpdate
  <1>3. ASSUME NEW r \in Requests, Publish(r) PROVE Reads \/ PublishBatch(r)
    BY <1>3 DEF Publish, ReadBatch, ValidateProducts, ReadItems
  <1>4. ASSUME NEW r \in Requests, DeleteProduct(r) PROVE Reads \/ FinishDeletion(r)
    BY <1>4 DEF DeleteProduct, BeginDeletion, ReadShipments, DeleteItems
  <1>5. ASSUME NEW r \in Requests, Abort(r) PROVE Reads
    BY <1>5 DEF Abort
  <1>6. CASE UNCHANGED vars
    BY <1>6 DEF vars, Reads
  <1> QED
    BY <1>1, <1>2, <1>3, <1>4, <1>5, <1>6 DEF Next

(* updateBatch repeats its check in the UPDATE: metadata changes only while  *)
(* the batch is a draft, whatever happened since the check.                 *)
THEOREM MetadataFrozen == Spec => MetadataIsFrozen
  <1>1. [Next]_vars => [routed' # routed => status = "draft"]_vars
    <2> SUFFICES ASSUME [Next]_vars
                 PROVE  routed' # routed => status = "draft"
      OBVIOUS
    <2>1. ASSUME NEW r \in Requests, UpdateMetadata(r)
          PROVE  routed' # routed => status = "draft"
      BY <2>1 DEF UpdateMetadata
    <2>2. ASSUME NEW r \in Requests,
                 CommitEdit(r) \/ DeleteBatch(r) \/ PublishBatch(r) \/ FinishDeletion(r)
          PROVE  routed' = routed
      BY <2>2 DEF CommitEdit, DeleteBatch, PublishBatch, FinishDeletion
    <2> QED
      BY <2>1, <2>2, Writers DEF Reads
  <1> QED
    BY <1>1, PTL DEF Spec, MetadataIsFrozen

(* publishBatch inserts no shipment for items that went between its two      *)
(* reads.                                                                   *)
THEOREM FilledAtFirst == Spec => ShipmentsBeginFilled
  <1> DEFINE Filled == \A s \in Shipments :
                shipment[s].state = "unused" /\ shipment'[s].state = "live" =>
                    Held(shipment'[s].lines) # {}
  <1>1. TypeOK /\ [Next]_vars => [Filled]_vars
    <2> SUFFICES ASSUME TypeOK, [Next]_vars
                 PROVE  Filled
      OBVIOUS
    <2>1. ASSUME NEW r \in Requests, PublishBatch(r)
          PROVE  Filled
      <3>1. CASE NeedsShipment(r)
        <4>1. PICK d \in Shipments :
                shipment' = [shipment EXCEPT ![d] =
                                [state |-> "live", lines |-> request[r].lines]]
          BY <2>1, <3>1 DEF PublishBatch
        <4>2. Held(request[r].lines) # {}
          BY <3>1 DEF NeedsShipment
        <4> QED
          BY <4>1, <4>2 DEF TypeOK
      <3>2. CASE ~NeedsShipment(r)
        BY <2>1, <3>2 DEF PublishBatch
      <3> QED
        BY <3>1, <3>2
    <2>2. ASSUME NEW r \in Requests, FinishDeletion(r)
          PROVE  \A s \in Shipments : shipment'[s].state \in {shipment[s].state, "deleted"}
      BY <2>2 DEF FinishDeletion
    <2>3. ASSUME NEW r \in Requests, CommitEdit(r) \/ DeleteBatch(r) \/ UpdateMetadata(r)
          PROVE  shipment' = shipment
      BY <2>3 DEF CommitEdit, DeleteBatch, UpdateMetadata
    <2> QED
      BY <2>1, <2>2, <2>3, Writers DEF Reads
  <1> QED
    BY <1>1, TypeCorrect, PTL DEF Spec, ShipmentsBeginFilled

-----------------------------------------------------------------------------
(* No overlapping requests. TotalsMatch is not inductive: a transaction writes *)
(* the totals it counted two steps earlier. Alone(r) says that nothing has   *)
(* changed since, and that deleteProduct still finds in the batch what its   *)
(* first read told it; Affects(r) that the shipments it read are still those  *)
(* that hold the product.                                                   *)
TotalsMatch == totals = Count(items)
NoneEmpty == \A d \in Shipments : shipment[d].state = "live" => Held(shipment[d].lines) # {}

Affects(r) ==
    request[r].kind = "product" /\ request[r].step \in {"listed", "changed", "counted"} =>
        request[r].affected = {d \in Shipments : shipment[d].lines[request[r].product] > 0}

Alone(r) ==
    /\ TypeOK /\ TotalsMatch
    /\ request[r].step \in {"linked", "listed"} =>
            request[r].kind = "product"
            /\ request[r].product \in Products
            /\ (request[r].inBatch = TRUE <=> items[request[r].product] > 0)
    /\ request[r].step = "changed" =>
            request[r].kind \in Edits \/ request[r].inBatch = TRUE
    /\ request[r].step = "counted" =>
            IF request[r].kind \in Edits \/ request[r].inBatch = TRUE
            THEN request[r].counted = Count(Visible(r))
            ELSE request[r].changed = FALSE

LEMMA AloneStep ==
    ASSUME NEW r \in Requests, Alone(r), TypeOK',
           Edit(r) \/ Update(r) \/ DeleteBatch(r) \/ Publish(r) \/ DeleteProduct(r) \/ Abort(r)
    PROVE  Alone(r)'
  <1>0. request \in [Requests -> RequestStates] /\ items \in Lines
    BY DEF Alone, TypeOK
  <1>1. CASE Edit(r)
    <2>1. ASSUME NEW kind \in Edits, NEW p \in Products, NEW n \in Quantities,
                 BeginEdit(r, kind, p, n)
          PROVE  Alone(r)'
      <3>1. request'[r].step = "checked" /\ Reads
        BY <1>0, <2>1 DEF BeginEdit, Goto, Idle
      <3> QED
        BY <3>1 DEF Alone, Reads, TotalsMatch
    <2>2. CASE ChangeItem(r)
      <3>1. request'[r].step = "changed" /\ request'[r].kind \in Edits /\ Reads
        BY <1>0, <2>2 DEF ChangeItem, Goto, RequestStates
      <3> QED
        BY <3>1 DEF Alone, Reads, TotalsMatch
    <2>3. CASE Recalculate(r)
      <3>1. /\ Reads /\ request'[r].step = "counted"
            /\ request'[r].counted = Count(Visible(r))
            /\ request'[r].kind = request[r].kind /\ request'[r].inBatch = request[r].inBatch
            /\ request'[r].changed = request[r].changed
            /\ request'[r].product = request[r].product
            /\ request'[r].quantity = request[r].quantity
        BY <1>0, <2>3 DEF Recalculate, Goto, RequestStates
      <3>2. Visible(r)' = Visible(r)
        BY <3>1 DEF Visible, Reads
      <3>3. request[r].kind \in Edits \/ request[r].inBatch = TRUE
        BY <2>3 DEF Recalculate, Alone
      <3> QED
        BY <3>1, <3>2, <3>3 DEF Alone, Reads, TotalsMatch
    <2>4. CASE CommitEdit(r)
      <3>1. request'[r].step = "idle"
        BY <1>0, <2>4 DEF CommitEdit, Goto, Idle
      <3>2. items' = Visible(r) /\ totals' = Count(Visible(r))
        BY <2>4 DEF CommitEdit, Alone
      <3> QED
        BY <3>1, <3>2 DEF Alone, TotalsMatch
    <2> QED
      BY <1>1, <2>1, <2>2, <2>3, <2>4 DEF Edit
  <1>2. CASE Update(r) \/ DeleteBatch(r)
    <2>1. /\ UNCHANGED <<items, totals>>
          /\ request'[r].step \in {"idle", "checked"}
      <3>1. ASSUME NEW complete \in BOOLEAN, BeginUpdate(r, complete)
            PROVE  UNCHANGED <<items, totals>> /\ request'[r].step = "checked"
        BY <1>0, <3>1 DEF BeginUpdate, Goto, Idle, Reads
      <3>2. CASE UpdateMetadata(r)
        BY <1>0, <3>2 DEF UpdateMetadata, Goto, Idle
      <3>3. CASE DeleteBatch(r)
        BY <3>3 DEF DeleteBatch
      <3> QED
        BY <1>2, <3>1, <3>2, <3>3 DEF Update
    <2> QED
      BY <2>1 DEF Alone, TotalsMatch
  <1>3. CASE Publish(r)
    <2>1. UNCHANGED <<items, totals>>
      BY <1>3 DEF Publish, ReadBatch, ValidateProducts, ReadItems, PublishBatch, Reads
    <2>2. request'[r].step \in {"idle", "read", "validated", "prepared"}
      <3>1. CASE ReadBatch(r)
        BY <1>0, <3>1 DEF ReadBatch, Goto, Idle
      <3>2. CASE ValidateProducts(r)
        BY <1>0, <3>2 DEF ValidateProducts, Goto, RequestStates
      <3>3. CASE ReadItems(r)
        BY <1>0, <3>3 DEF ReadItems, Goto, RequestStates
      <3>4. CASE PublishBatch(r)
        BY <1>0, <3>4 DEF PublishBatch, Goto, Idle
      <3> QED
        BY <1>3, <3>1, <3>2, <3>3, <3>4 DEF Publish
    <2> QED
      BY <2>1, <2>2 DEF Alone, TotalsMatch
  <1>4. CASE DeleteProduct(r)
    <2>1. ASSUME NEW p \in Products, BeginDeletion(r, p)
          PROVE  Alone(r)'
      <3>1. /\ Reads /\ request'[r].step = "linked" /\ request'[r].kind = "product"
            /\ request'[r].product = p
        BY <1>0, <2>1 DEF BeginDeletion, Goto, Idle
      <3>2. request'[r].inBatch = TRUE <=> items[p] > 0
        BY <1>0, <2>1 DEF BeginDeletion, Goto, Idle
      <3> QED
        BY <3>1, <3>2 DEF Alone, Reads, TotalsMatch
    <2>2. CASE ReadShipments(r)
      <3>1. /\ Reads /\ request'[r].step = "listed"
            /\ request'[r].kind = request[r].kind /\ request'[r].inBatch = request[r].inBatch
            /\ request'[r].product = request[r].product
        BY <1>0, <2>2 DEF ReadShipments, Goto, RequestStates
      <3>2. request[r].step = "linked"
        BY <2>2 DEF ReadShipments, At
      <3> QED
        BY <3>1, <3>2 DEF Alone, Reads, TotalsMatch
    <2>3. CASE DeleteItems(r)
      <3>1. request[r].step = "listed" /\ request[r].kind = "product"
        BY <2>3 DEF DeleteItems, At
      <3>2. /\ Reads /\ request'[r].kind = "product"
            /\ request'[r].inBatch = request[r].inBatch
            /\ request'[r].step = IF request[r].inBatch THEN "changed" ELSE "counted"
        BY <1>0, <2>3, <3>1 DEF DeleteItems, Goto, RequestStates
      <3>3. request'[r].changed = TRUE <=> items[request[r].product] > 0
        <4> DEFINE b == items[request[r].product] > 0
        <4>1. Goto(r, [request[r] EXCEPT !.changed = b,
                                         !.step = IF request[r].inBatch THEN "changed" ELSE "counted"])
          BY <2>3 DEF DeleteItems
        <4>2. b = TRUE <=> items[request[r].product] > 0
          OBVIOUS
        <4> HIDE DEF b
        <4>3. request'[r].changed = b
          BY <1>0, <4>1 DEF Goto, RequestStates
        <4> QED
          BY <4>2, <4>3
      <3>4. request[r].inBatch \in BOOLEAN
        BY <1>0 DEF RequestStates
      <3>5. CASE request[r].inBatch = TRUE
        BY <3>2, <3>5 DEF Alone, Reads, TotalsMatch
      <3>6. CASE request[r].inBatch = FALSE
        <4>1. ~(items[request[r].product] > 0)
          BY <3>1, <3>6 DEF Alone
        <4>2. request'[r].changed = FALSE
          <5>1. request'[r].changed \in BOOLEAN
            BY DEF TypeOK, RequestStates
          <5> QED
            BY <3>3, <4>1, <5>1
        <4>3. request'[r].step = "counted" /\ request'[r].kind \notin Edits
          BY <3>2, <3>6 DEF Edits
        <4> QED
          BY <3>2, <3>6, <4>2, <4>3 DEF Alone, Reads, TotalsMatch
      <3> QED
        BY <3>4, <3>5, <3>6
    <2>4. CASE FinishDeletion(r)
      <3>1. request'[r].step = "idle"
        BY <1>0, <2>4 DEF FinishDeletion, Goto, Idle
      <3>2. request[r].step = "counted" /\ request[r].kind \notin Edits
        BY <2>4 DEF FinishDeletion, At, Edits
      <3>3. /\ items' = Visible(r)
            /\ totals' = IF request[r].inBatch THEN request[r].counted ELSE totals
        BY <2>4 DEF FinishDeletion
      <3>4. request[r].inBatch \in BOOLEAN
        BY <1>0 DEF RequestStates
      <3>5. CASE request[r].inBatch = TRUE
        BY <3>1, <3>2, <3>3, <3>5 DEF Alone, TotalsMatch
      <3>6. CASE request[r].inBatch = FALSE
        <4>1. Visible(r) = items
          BY <3>2, <3>6 DEF Alone, Visible
        <4> QED
          BY <3>1, <3>3, <3>6, <4>1 DEF Alone, TotalsMatch
      <3> QED
        BY <3>4, <3>5, <3>6
    <2> QED
      BY <1>4, <2>1, <2>2, <2>3, <2>4 DEF DeleteProduct
  <1>5. CASE Abort(r)
    <2>1. request'[r].step = "idle" /\ Reads
      BY <1>0, <1>5 DEF Abort, Goto, Idle
    <2> QED
      BY <2>1 DEF Alone, Reads, TotalsMatch
  <1> QED
    BY <1>1, <1>2, <1>3, <1>4, <1>5

(* While s goes on alone, the others are idle before and after its step, or  *)
(* s archives the batch, which counts nothing.                              *)
LEMMA OthersIdle ==
    ASSUME request \in [Requests -> RequestStates],
           NEW r \in Requests, NEW s \in Requests, r # s, OneRequest, OneRequest', ~DeleteBatch(s),
           Edit(s) \/ Update(s) \/ Publish(s) \/ DeleteProduct(s) \/ Abort(s)
    PROVE  request'[r].step = "idle"
  <1>1. request'[s].step # "idle" \/ request[s].step # "idle"
    <2>1. ASSUME NEW kind \in Edits, NEW p \in Products, NEW n \in Quantities,
                 BeginEdit(s, kind, p, n)
          PROVE  request'[s].step = "checked"
      BY <2>1 DEF BeginEdit, Goto, Idle
    <2>2. CASE ChangeItem(s) \/ Recalculate(s) \/ CommitEdit(s)
      BY <2>2 DEF ChangeItem, Recalculate, CommitEdit
    <2>3. ASSUME NEW complete \in BOOLEAN, BeginUpdate(s, complete)
          PROVE  request'[s].step = "checked"
      BY <2>3 DEF BeginUpdate, Goto, Idle
    <2>4. CASE UpdateMetadata(s) \/ Abort(s)
      BY <2>4 DEF UpdateMetadata, Abort, At
    <2>5. CASE ReadBatch(s)
      BY <2>5 DEF ReadBatch, Goto, Idle
    <2>6. CASE ValidateProducts(s) \/ ReadItems(s) \/ PublishBatch(s)
      BY <2>6 DEF ValidateProducts, ReadItems, PublishBatch, At
    <2>7. ASSUME NEW p \in Products, BeginDeletion(s, p)
          PROVE  request'[s].step = "linked"
      BY <2>7 DEF BeginDeletion, Goto, Idle
    <2>8. CASE ReadShipments(s) \/ DeleteItems(s) \/ FinishDeletion(s)
      BY <2>8 DEF ReadShipments, DeleteItems, FinishDeletion, At
    <2> QED
      BY <2>1, <2>2, <2>3, <2>4, <2>5, <2>6, <2>7, <2>8
         DEF Edit, Update, Publish, DeleteProduct
  <1>2. request'[r] = request[r]
    <2>1. \E state : Goto(s, state)
      <3>1. CASE Edit(s)
        BY <3>1 DEF Edit, BeginEdit, ChangeItem, Recalculate, CommitEdit
      <3>2. CASE Update(s)
        BY <3>2 DEF Update, BeginUpdate, UpdateMetadata
      <3>3. CASE Publish(s)
        BY <3>3 DEF Publish, ReadBatch, ValidateProducts, ReadItems, PublishBatch
      <3>4. CASE DeleteProduct(s)
        BY <3>4 DEF DeleteProduct, BeginDeletion, ReadShipments, DeleteItems, FinishDeletion
      <3>5. CASE Abort(s)
        BY <3>5 DEF Abort
      <3> QED
        BY <3>1, <3>2, <3>3, <3>4, <3>5
    <2> QED
      BY <2>1 DEF Goto
  <1>3. request'[r].step = "idle"
    BY <1>1, <1>2 DEF OneRequest
  <1> QED
    BY <1>3

LEMMA OthersStep ==
    ASSUME NEW r \in Requests, NEW s \in Requests, r # s, Alone(r), Alone(s)', TypeOK',
           OneRequest, OneRequest',
           Edit(s) \/ Update(s) \/ DeleteBatch(s) \/ Publish(s) \/ DeleteProduct(s) \/ Abort(s)
    PROVE  Alone(r)'
  <1>1. CASE DeleteBatch(s)
    BY <1>1 DEF DeleteBatch, Alone, TotalsMatch, Visible
  <1>2. CASE ~DeleteBatch(s)
    <2>1. request'[r].step = "idle"
      BY <1>2, OthersIdle DEF Alone, TypeOK
    <2> QED
      BY <2>1 DEF Alone
  <1> QED
    BY <1>1, <1>2

(* deleteProduct deletes the shipments it leaves empty, and no publication    *)
(* makes an empty one.                                                      *)
LEMMA FilledStep ==
    ASSUME TypeOK, NEW r \in Requests, NoneEmpty, Affects(r),
           Edit(r) \/ Update(r) \/ DeleteBatch(r) \/ Publish(r) \/ DeleteProduct(r) \/ Abort(r)
    PROVE  NoneEmpty' /\ Affects(r)'
  <1>0. /\ request \in [Requests -> RequestStates]
        /\ shipment \in [Shipments -> [state : {"unused", "live", "deleted"}, lines : Lines]]
    BY DEF TypeOK
  <1>1. CASE Edit(r)
    <2>1. shipment' = shipment
      BY <1>1 DEF Edit, BeginEdit, ChangeItem, Recalculate, CommitEdit, Reads
    <2>2. \/ request'[r].kind # "product"
          \/ /\ request'[r].kind = request[r].kind /\ request'[r].product = request[r].product
             /\ request'[r].affected = request[r].affected /\ request[r].step = "changed"
      <3>1. ASSUME NEW kind \in Edits, NEW p \in Products, NEW n \in Quantities,
                   BeginEdit(r, kind, p, n)
            PROVE  request'[r].kind # "product"
        BY <1>0, <3>1 DEF BeginEdit, Goto, Idle, Edits
      <3>2. CASE ChangeItem(r)
        BY <1>0, <3>2 DEF ChangeItem, Goto, RequestStates, Edits
      <3>3. CASE Recalculate(r)
        BY <1>0, <3>3 DEF Recalculate, Goto, RequestStates
      <3>4. CASE CommitEdit(r)
        BY <1>0, <3>4 DEF CommitEdit, Goto, Idle
      <3> QED
        BY <1>1, <3>1, <3>2, <3>3, <3>4 DEF Edit
    <2> QED
      BY <2>1, <2>2 DEF NoneEmpty, Affects
  <1>2. CASE Update(r) \/ Abort(r)
    <2>1. shipment' = shipment
      BY <1>2 DEF Update, BeginUpdate, UpdateMetadata, Abort, Reads
    <2>2. request'[r].kind # "product"
      <3>1. ASSUME NEW complete \in BOOLEAN, BeginUpdate(r, complete)
            PROVE  request'[r].kind # "product"
        BY <1>0, <3>1 DEF BeginUpdate, Goto, Idle
      <3>2. CASE UpdateMetadata(r) \/ Abort(r)
        BY <1>0, <3>2 DEF UpdateMetadata, Abort, Goto, Idle
      <3> QED
        BY <1>2, <3>1, <3>2 DEF Update
    <2> QED
      BY <2>1, <2>2 DEF NoneEmpty, Affects
  <1>3. CASE DeleteBatch(r)
    BY <1>3 DEF DeleteBatch, NoneEmpty, Affects
  <1>4. CASE Publish(r)
    <2>1. request'[r].kind # "product"
      <3>1. CASE ReadBatch(r)
        BY <1>0, <3>1 DEF ReadBatch, Goto, Idle
      <3>2. CASE PublishBatch(r)
        <4>1. Goto(r, Idle)
          BY <3>2 DEF PublishBatch
        <4> QED
          BY <1>0, <4>1 DEF Goto, Idle
      <3>3. CASE ValidateProducts(r) \/ ReadItems(r)
        BY <1>0, <3>3 DEF ValidateProducts, ReadItems, At, Goto, RequestStates
      <3> QED
        BY <1>4, <3>1, <3>2, <3>3 DEF Publish
    <2>2. NoneEmpty'
      <3>1. CASE PublishBatch(r) /\ NeedsShipment(r)
        <4>1. PICK d \in Shipments : shipment' = [shipment EXCEPT ![d] =
                                         [state |-> "live", lines |-> request[r].lines]]
          BY <3>1 DEF PublishBatch
        <4>2. Held(request[r].lines) # {}
          BY <3>1 DEF NeedsShipment
        <4> QED
          BY <1>0, <4>1, <4>2 DEF NoneEmpty
      <3>2. CASE ~(PublishBatch(r) /\ NeedsShipment(r))
        <4>1. shipment' = shipment
          BY <1>4, <3>2 DEF Publish, ReadBatch, ValidateProducts, ReadItems, PublishBatch, Reads
        <4> QED
          BY <4>1 DEF NoneEmpty
      <3> QED
        BY <3>1, <3>2
    <2> QED
      BY <2>1, <2>2 DEF Affects
  <1>5. CASE DeleteProduct(r)
    <2>1. ASSUME NEW p \in Products, BeginDeletion(r, p)
          PROVE  NoneEmpty' /\ Affects(r)'
      <3>1. request'[r].step = "linked" /\ shipment' = shipment
        BY <1>0, <2>1 DEF BeginDeletion, Goto, Idle, Reads
      <3> QED
        BY <3>1 DEF NoneEmpty, Affects
    <2>2. CASE ReadShipments(r)
      <3>1. /\ shipment' = shipment /\ request'[r].product = request[r].product
            /\ request'[r].affected = {d \in Shipments : shipment[d].lines[request[r].product] > 0}
        BY <1>0, <2>2 DEF ReadShipments, Goto, RequestStates, Reads
      <3> QED
        BY <3>1 DEF NoneEmpty, Affects
    <2>3. CASE DeleteItems(r)
      <3>1. /\ shipment' = shipment /\ request'[r].product = request[r].product
            /\ request'[r].affected = request[r].affected
        BY <1>0, <2>3 DEF DeleteItems, Goto, RequestStates, Reads
      <3>2. request[r].kind = "product" /\ request[r].step = "listed"
        BY <2>3 DEF DeleteItems, At
      <3> QED
        BY <3>1, <3>2 DEF NoneEmpty, Affects
    <2>4. CASE FinishDeletion(r)
      <3> DEFINE p == request[r].product
                 Emptied == {d \in request[r].affected : Held(WithoutProduct(d, p)) = {}}
      <3>1. /\ request'[r].kind # "product"
            /\ \A d \in Shipments :
                 /\ shipment'[d].state = IF d \in Emptied THEN "deleted" ELSE shipment[d].state
                 /\ shipment'[d].lines = WithoutProduct(d, p)
        BY <1>0, <2>4 DEF FinishDeletion, Goto, Idle
      <3>2. request[r].affected = {d \in Shipments : shipment[d].lines[p] > 0}
        BY <2>4 DEF FinishDeletion, At, Affects
      <3>3. ASSUME NEW d \in Shipments, shipment'[d].state = "live"
            PROVE  Held(shipment'[d].lines) # {}
        <4>1. shipment[d].state = "live" /\ d \notin Emptied
          BY <3>1, <3>3
        <4>2. CASE d \in request[r].affected
          BY <3>1, <4>1, <4>2
        <4>3. CASE d \notin request[r].affected
          <5>1. ~(shipment[d].lines[p] > 0)
            BY <3>2, <4>3
          <5>2. Held(WithoutProduct(d, p)) = Held(shipment[d].lines)
            BY <1>0, <5>1 DEF WithoutProduct, Held, Lines
          <5> QED
            BY <3>1, <4>1, <5>2 DEF NoneEmpty
        <4> QED
          BY <4>2, <4>3
      <3> QED
        BY <3>1, <3>3 DEF NoneEmpty, Affects
    <2> QED
      BY <1>5, <2>1, <2>2, <2>3, <2>4 DEF DeleteProduct
  <1> QED
    BY <1>1, <1>2, <1>3, <1>4, <1>5

(* A company whose requests do not overlap has exact batch totals and no     *)
(* empty shipment, whatever it adds, changes, removes, publishes and deletes. *)
THEOREM Consistent == Spec => []ConsistentAlone
  <1> DEFINE Inv == /\ TypeOK /\ concurrent \in BOOLEAN
                    /\ concurrent = FALSE =>
                        /\ OneRequest /\ TotalsMatch /\ NoneEmpty
                        /\ \A r \in Requests : Alone(r) /\ Affects(r)
  <1>1. Init => Inv
    <2> SUFFICES ASSUME Init
                 PROVE  Inv
      OBVIOUS
    <2>1. TypeOK
      BY InitType
    <2>2. \A r \in Requests : request[r].step = "idle"
      BY DEF Init, Idle
    <2>3. TotalsMatch /\ NoneEmpty
      BY DEF Init, TotalsMatch, NoneEmpty
    <2>4. OneRequest /\ \A r \in Requests : Alone(r) /\ Affects(r)
      BY <2>1, <2>2, <2>3 DEF Alone, Affects, OneRequest
    <2>5. concurrent = FALSE
      BY DEF Init
    <2> QED
      BY <2>1, <2>3, <2>4, <2>5
  <1>2. Inv /\ TypeOK' /\ [Next]_vars => Inv'
    <2>0. Inv /\ [Next]_vars => concurrent' \in BOOLEAN
      BY DEF Next, vars
    <2> SUFFICES ASSUME Inv, TypeOK', [Next]_vars, concurrent' = FALSE
                 PROVE  /\ OneRequest' /\ TotalsMatch' /\ NoneEmpty'
                        /\ \A r \in Requests : Alone(r)' /\ Affects(r)'
      BY <2>0
    <2>1. CASE UNCHANGED vars
      BY <2>1 DEF vars, Alone, Affects, OneRequest, TotalsMatch, NoneEmpty, Visible
    <2>2. CASE Next
      <3>1. concurrent = FALSE /\ OneRequest'
        BY <2>2 DEF Next
      <3>2. PICK s \in Requests :
              Edit(s) \/ Update(s) \/ DeleteBatch(s) \/ Publish(s) \/ DeleteProduct(s) \/ Abort(s)
        BY <2>2 DEF Next
      <3>3. Alone(s)'
        BY <3>1, <3>2, AloneStep
      <3>4. NoneEmpty' /\ Affects(s)'
        BY <3>1, <3>2, FilledStep
      <3>5. ASSUME NEW r \in Requests, r # s
            PROVE  Alone(r)' /\ Affects(r)'
        <4>1. Alone(r)'
          BY <3>1, <3>2, <3>3, <3>5, OthersStep
        <4>2. DeleteBatch(s) => Affects(r)'
          BY <3>1 DEF DeleteBatch, Affects
        <4>3. ~DeleteBatch(s) => request'[r].step = "idle"
          BY <3>1, <3>2, <3>5, OthersIdle DEF TypeOK
        <4>4. request'[r].step = "idle" => Affects(r)'
          BY DEF Affects
        <4> QED
          BY <4>1, <4>2, <4>3, <4>4
      <3> QED
        BY <3>1, <3>3, <3>4, <3>5 DEF Alone
    <2> QED
      BY <2>1, <2>2
  <1>3. Inv => ConsistentAlone
    BY DEF ConsistentAlone, TotalsMatch, NoneEmpty, TypeOK
  <1> QED
    BY <1>1, <1>2, <1>3, TypeCorrect, PTL DEF Spec

-----------------------------------------------------------------------------
(* The second factor. What holds of its revisions, and of who is admitted.        *)

Factors == [status : {"pending", "enabled", "disabled"}, secret : Nat]

\* A recovery code was taken for valid at most once, and then it is consumed.
CodesCounted ==
    /\ admitted \in [1..MaxRevisions -> Nat]
    /\ \A v \in 1..MaxRevisions : admitted[v] <= 1 /\ (v \notin used => admitted[v] = 0)

\* The code of a revision that was not consumed is counted with its consumption.
LEMMA CountedOnce ==
    ASSUME CodesCounted, NEW v, v \notin used,
           used' = used \cup {v}, admitted' = [admitted EXCEPT ![v] = @ + 1]
    PROVE  CodesCounted'
  <1>1. CASE v \in 1..MaxRevisions
    BY <1>1 DEF CodesCounted
  <1>2. CASE v \notin 1..MaxRevisions
    <2>1. admitted' = admitted
      BY <1>2 DEF CodesCounted
    <2> QED
      BY <2>1 DEF CodesCounted
  <1> QED
    BY <1>1, <1>2

\* A code that passes is a time code, or the recovery code of a revision whose code
\* has not been consumed, and consuming it keeps the count.
LEMMA ConsumeCounts ==
    ASSUME CodesCounted, NEW code, Passes(code), Consume(code)
    PROVE  CodesCounted'
  <1>1. CASE code[1] = "recovery"
    <2>1. code[2] \notin used
      BY <1>1 DEF Passes, IsTimeCode, IsRecoveryCode
    <2>2. used' = used \cup {code[2]} /\ admitted' = [admitted EXCEPT ![code[2]] = @ + 1]
      BY <1>1 DEF Consume
    <2> QED
      BY <2>1, <2>2, CountedOnce
  <1>2. CASE code[1] # "recovery"
    BY <1>2 DEF Consume, CodesCounted
  <1> QED
    BY <1>1, <1>2

LEMMA CodesInit == SessionsInit => CodesCounted
  BY RevisionsAssumption DEF SessionsInit, CodesCounted

LEMMA CodesStep == CodesCounted /\ [SessionsNext]_sessionVars => CodesCounted'
  <1> SUFFICES ASSUME CodesCounted, [SessionsNext]_sessionVars PROVE CodesCounted'
    OBVIOUS
  <1>1. CASE beginEnrollment
    <2>1. CASE UNCHANGED <<used, admitted>>
      BY <2>1 DEF CodesCounted
    <2>2. ASSUME NEW code \in Codes, Passes(code), Consume(code) PROVE CodesCounted'
      BY <2>2, ConsumeCounts
    <2> QED
      BY <1>1, <2>1, <2>2 DEF beginEnrollment
  <1>2. CASE disable
    <2>1. PICK code \in Codes : Passes(code) /\ Consume(code)
      BY <1>2 DEF disable
    <2> QED
      BY <2>1, ConsumeCounts
  <1>3. ASSUME NEW c \in Clients, ConsumeCode(c) PROVE CodesCounted'
    <2> DEFINE v == clients[c].factor
    <2>1. used' = used \cup {v}
      BY <1>3 DEF ConsumeCode, Admit
    <2>2. CASE v \notin used
      BY <1>3, <2>1, <2>2, CountedOnce DEF ConsumeCode, Admit
    <2>3. CASE v \in used
      BY <1>3, <2>1, <2>3 DEF ConsumeCode, Admit, CodesCounted
    <2> QED
      BY <2>2, <2>3
  <1>4. CASE UNCHANGED <<used, admitted>>
    BY <1>4 DEF CodesCounted
  <1>5. SessionsNext => beginEnrollment \/ disable \/ (\E c \in Clients : ConsumeCode(c))
                        \/ UNCHANGED <<used, admitted>>
    BY DEF SessionsNext, confirmEnrollment, getChallengeState, verifyChallenge, signIn,
           issueRefreshSession, findRotatableByHash, rotate, revokeAllForUser, signOut, RevokeSeen,
           GraceEnds, revoke
  <1>6. CASE UNCHANGED sessionVars
    BY <1>4, <1>6 DEF sessionVars
  <1> QED
    BY <1>1, <1>2, <1>3, <1>4, <1>5, <1>6

(* A recovery code admits once, for any number of clients that present it at once,    *)
(* and of enrolments and disablings that consume it (mfaService.js:122).             *)
THEOREM RecoveryOnce == SessionsSpec => []RecoveryCodeOnce
  <1>1. CodesCounted => RecoveryCodeOnce
    BY DEF CodesCounted, RecoveryCodeOnce
  <1> QED
    BY <1>1, CodesInit, CodesStep, PTL DEF SessionsSpec

\* A set of numbers with a bound has a greatest one.
LEMMA GreatestExists ==
    ASSUME NEW n \in Nat, NEW S \in SUBSET (0..n), S # {}
    PROVE  Max(S) \in S /\ \A y \in S : y <= Max(S)
  <1> DEFINE T == {n - x : x \in S}
  <1>1. T \subseteq Nat /\ T # {}
    <2>1. ASSUME NEW x \in S PROVE n - x \in Nat
      <3>1. x \in 0..n
        OBVIOUS
      <3> QED
        BY <3>1
    <2>2. \E x \in S : TRUE
      OBVIOUS
    <2> QED
      BY <2>1, <2>2
  <1>2. PICK m \in T : \A y \in T : <<y, m>> \notin OpToRel(<, Nat)
    <2> HIDE DEF T
    <2> QED
      BY <1>1, WFMin, NatLessThanWellFounded
  <1>3. PICK x \in S : m = n - x
    OBVIOUS
  <1>4. \A y \in S : x >= y
    <2> SUFFICES ASSUME NEW y \in S, y > x PROVE FALSE
      OBVIOUS
    <2>1. n - y \in T /\ n - y \in Nat /\ m \in Nat /\ n - y < m
      BY <1>3
    <2>2. <<n - y, m>> \in OpToRel(<, Nat)
      BY <2>1 DEF OpToRel
    <2> QED
      BY <1>2, <2>1, <2>2
  <1>5. \E x0 \in S : \A y \in S : x0 >= y
    BY <1>4
  <1>6. Max(S) = CHOOSE x0 \in S : \A y \in S : x0 >= y
    BY DEF Max
  <1>7. Max(S) \in S /\ \A y \in S : Max(S) >= y
    BY <1>5, <1>6
  <1> QED
    BY <1>7

FactorsOK == factors \in Seq(Factors)

\* Who is challenged is challenged with an enabled revision, and nobody else is when no
\* enrolment is pending or nothing was ever disabled.
LEMMA ActiveIsEnabled ==
    ASSUME FactorsOK
    PROVE  /\ active \in 0..Len(factors)
           /\ active # 0 => factors[active].status = "enabled"
           /\ active = 0 => \/ Len(factors) = 0 \/ factors[Len(factors)].status = "disabled"
                            \/ \A v \in DOMAIN factors : factors[v].status # "enabled"
  <1> DEFINE n == Len(factors)
  <1>1. n \in Nat /\ DOMAIN factors = 1..n /\ \A i \in 1..n : factors[i] \in Factors
    BY DEF FactorsOK
  <1>2. CASE n = 0 \/ factors[n].status = "disabled"
    BY <1>1, <1>2 DEF active
  <1>3. CASE n # 0 /\ factors[n].status = "enabled"
    BY <1>1, <1>3 DEF active
  <1>4. CASE n # 0 /\ factors[n].status = "pending"
    <2>1. EnabledBefore(n) \in SUBSET (0..n) /\ EnabledBefore(n) \subseteq 1..n
      BY <1>1 DEF EnabledBefore
    <2>2. CASE EnabledBefore(n) = {}
      BY <1>1, <1>4, <2>2 DEF active, EnabledBefore
    <2>3. CASE EnabledBefore(n) # {}
      <3>1. Max(EnabledBefore(n)) \in EnabledBefore(n)
        BY <1>1, <2>1, <2>3, GreatestExists
      <3>2. active = Max(EnabledBefore(n))
        BY <1>1, <1>4, <2>3 DEF active
      <3> QED
        BY <1>1, <2>1, <3>1, <3>2 DEF EnabledBefore
    <2> QED
      BY <2>2, <2>3
  <1> QED
    BY <1>1, <1>2, <1>3, <1>4 DEF Factors

LEMMA FactorsStep ==
    ASSUME FactorsOK, beginEnrollment \/ confirmEnrollment \/ disable
    PROVE  FactorsOK'
  <1>1. Len(factors) \in Nat /\ \A i \in 1..Len(factors) : factors[i] \in Factors
    BY DEF FactorsOK
  <1>2. CASE beginEnrollment
    BY <1>1, <1>2 DEF FactorsOK, beginEnrollment, Revise, Factors
  <1>3. CASE confirmEnrollment
    <2>1. factors # <<>>
      BY <1>3 DEF confirmEnrollment
    <2>2. Last(factors).secret \in Nat
      BY <1>1, <2>1 DEF FactorsOK, Last, Factors
    <2> QED
      BY <1>3, <2>2 DEF FactorsOK, confirmEnrollment, Revise, Factors
  <1>4. CASE disable
    BY <1>1, <1>4 DEF FactorsOK, disable, Revise, Factors
  <1> QED
    BY <1>2, <1>3, <1>4

(* The factor that challenges and the factor that counts are the same, for any          *)
(* sequence of enrolments, confirmations and disablings (mfaService.js:75).            *)
LEMMA FactorsAgree == FactorsOK => EnabledAgree
  <1> SUFFICES ASSUME FactorsOK PROVE EnabledAgree
    OBVIOUS
  <1> DEFINE n == Len(factors)
  <1>1. n \in Nat /\ DOMAIN factors = 1..n /\ \A i \in 1..n : factors[i] \in Factors
    BY DEF FactorsOK
  <1>2. CASE active # 0 /\ \A w \in DOMAIN factors : factors[w].status # "disabled"
    <2>1. active \in DOMAIN factors /\ factors[active].status = "enabled"
      BY <1>1, <1>2, ActiveIsEnabled
    <2> QED
      BY <1>2, <2>1 DEF EnabledAgree, _adminMfaCoverage
  <1>3. CASE active # 0 /\ \E w \in DOMAIN factors : factors[w].status = "disabled"
    <2>1. n # 0 /\ factors[n].status # "disabled"
      BY <1>1, <1>3 DEF active
    <2>2. CASE factors[n].status = "pending"
      BY <1>1, <1>3, <2>2 DEF EnabledAgree, Last
    <2>3. CASE factors[n].status = "enabled"
      <3>1. _adminMfaCoverage
        BY <1>1, <2>1, <2>3 DEF _adminMfaCoverage
      <3> QED
        BY <1>3, <3>1 DEF EnabledAgree
    <2> QED
      BY <1>1, <2>1, <2>2, <2>3 DEF Factors
  <1>4. CASE active = 0
    <2>1. ~_adminMfaCoverage
      <3>1. CASE n = 0 \/ \A v \in DOMAIN factors : factors[v].status # "enabled"
        BY <1>1, <3>1 DEF _adminMfaCoverage
      <3>2. CASE n # 0 /\ factors[n].status = "disabled"
        BY <1>1, <3>2 DEF _adminMfaCoverage
      <3> QED
        BY <1>4, <3>1, <3>2, ActiveIsEnabled
    <2>2. (active # 0) = FALSE
      BY <1>4
    <2>3. _adminMfaCoverage = FALSE
      BY <2>1 DEF _adminMfaCoverage
    <2> QED
      BY <2>2, <2>3 DEF EnabledAgree
  <1> QED
    BY <1>2, <1>3, <1>4

LEMMA FactorsInvariant == SecuritySpec => []FactorsOK
  <1>1. SecurityInit => FactorsOK
    BY DEF SecurityInit, SessionsInit, FactorsOK
  <1>2. FactorsOK /\ [SecurityNext]_securityVars => FactorsOK'
    <2> SUFFICES ASSUME FactorsOK, [SecurityNext]_securityVars PROVE FactorsOK'
      OBVIOUS
    <2>1. CASE Enrolment
      BY <2>1, FactorsStep DEF Enrolment
    <2>2. CASE UNCHANGED sessionVars
      BY <2>2 DEF FactorsOK, sessionVars
    <2> QED
      BY <2>1, <2>2 DEF SecurityNext, createPolicy, createSsoConnection, createKeyEvent,
         createIncidentEvent, RotationDue, EvidenceLapses, Migrate, BeginAcceptance, getPosture,
         createAcceptanceRun, securityVars
  <1> QED
    BY <1>1, <1>2, PTL DEF SecuritySpec

THEOREM FactorAgrees == SecuritySpec => []EnabledAgree
  BY FactorsInvariant, FactorsAgree, PTL
-----------------------------------------------------------------------------
(* The sessions.                                                             *)

SessionSteps == {"idle", "store", "challenge", "consume", "rotate", "insert", "revoke"}
Presented == {"none", "totp", "recovery"} \X Nat
ClientStates ==
    [step : SessionSteps, code : Presented, factor : Nat, token : Nat, verified : BOOLEAN,
     seen : SUBSET Tokens]
TokenRows == [state : {"none", "live", "revoked", "over"}, verified : BOOLEAN]

SessionsTypeOK ==
    /\ FactorsOK
    /\ tokens \in [Tokens -> TokenRows]
    /\ clients \in [Clients -> ClientStates]
    /\ \A c \in Clients : clients[c].step \in {"rotate", "insert"} => clients[c].token \in Tokens

\* What an action of one client leaves behind is typed when the state it proceeds to is.
LEMMA ProceedTyped ==
    ASSUME SessionsTypeOK, NEW c \in Clients, NEW state \in ClientStates, Proceed(c, state),
           state.step \in {"rotate", "insert"} => state.token \in Tokens,
           UNCHANGED factors, tokens' \in [Tokens -> TokenRows]
    PROVE  SessionsTypeOK'
  BY DEF SessionsTypeOK, FactorsOK, Proceed

LEMMA RevokedTyped ==
    ASSUME NEW row \in TokenRows
    PROVE  Revoked(row) \in TokenRows /\ Revoked(row).state # "live"
  BY DEF Revoked, TokenRows

LEMMA NobodyTyped == Nobody \in ClientStates
  BY DEF Nobody, ClientStates, SessionSteps, Presented

LEMMA SessionsTypeStep ==
    ASSUME SessionsTypeOK, [SessionsNext]_sessionVars
    PROVE  SessionsTypeOK'
  <1>0. /\ FactorsOK /\ tokens \in [Tokens -> TokenRows] /\ clients \in [Clients -> ClientStates]
        /\ active \in Nat
    BY ActiveIsEnabled DEF SessionsTypeOK, FactorsOK
  <1>1. CASE beginEnrollment \/ confirmEnrollment \/ disable
    <2>1. FactorsOK'
      BY <1>0, <1>1, FactorsStep
    <2>2. UNCHANGED <<tokens, clients>>
      BY <1>1 DEF beginEnrollment, confirmEnrollment, disable, Revise
    <2> QED
      BY <2>1, <2>2 DEF SessionsTypeOK
  <1>2. ASSUME NEW c \in Clients, getChallengeState(c) PROVE SessionsTypeOK'
    <2>1. CASE Proceed(c, [Nobody EXCEPT !.step = "store"])
      <3>1. [Nobody EXCEPT !.step = "store"] \in ClientStates
        BY NobodyTyped DEF ClientStates, SessionSteps
      <3> QED
        BY <1>0, <1>2, <2>1, <3>1, ProceedTyped DEF getChallengeState, Nobody
    <2>2. ASSUME NEW code \in Codes, Proceed(c, [Nobody EXCEPT !.step = "challenge", !.code = code])
          PROVE  SessionsTypeOK'
      <3>1. code \in Presented
        BY <1>0 DEF Codes, Presented, FactorsOK
      <3>2. [Nobody EXCEPT !.step = "challenge", !.code = code] \in ClientStates
        BY <3>1, NobodyTyped DEF ClientStates, SessionSteps
      <3> QED
        BY <1>0, <1>2, <2>2, <3>2, ProceedTyped DEF getChallengeState, Nobody
    <2> QED
      BY <1>2, <2>1, <2>2 DEF getChallengeState
  <1>3. ASSUME NEW c \in Clients, verifyChallenge(c) \/ ConsumeCode(c) PROVE SessionsTypeOK'
    <2> DEFINE Passed == [clients[c] EXCEPT !.step = "store", !.verified = TRUE]
               Recovering == [clients[c] EXCEPT !.step = "consume", !.factor = active]
    <2>1. Proceed(c, Passed) \/ Proceed(c, Recovering) \/ Proceed(c, Nobody)
      BY <1>3 DEF verifyChallenge, ConsumeCode, Admit, End
    <2>2. /\ Passed \in ClientStates /\ Passed.step = "store"
          /\ Recovering \in ClientStates /\ Recovering.step = "consume"
      BY <1>0 DEF ClientStates, SessionSteps
    <2>3. UNCHANGED <<factors, tokens>>
      BY <1>3 DEF verifyChallenge, ConsumeCode, Admit
    <2> HIDE DEF Passed, Recovering
    <2> QED
      BY <1>0, <2>1, <2>2, <2>3, NobodyTyped, ProceedTyped DEF Nobody
  <1>4. ASSUME NEW c \in Clients, signIn(c) PROVE SessionsTypeOK'
    <2>1. tokens' \in [Tokens -> TokenRows]
      BY <1>0, <1>4 DEF signIn, TokenRow, TokenRows, ClientStates
    <2> QED
      BY <1>4, <2>1, NobodyTyped, ProceedTyped DEF signIn, End, Nobody
  <1>5. ASSUME NEW c \in Clients, NEW t \in Tokens, issueRefreshSession(c, t) PROVE SessionsTypeOK'
    <2>1. CASE Proceed(c, [Nobody EXCEPT !.step = "rotate", !.token = t]) /\ UNCHANGED tokens
      <3>1. [Nobody EXCEPT !.step = "rotate", !.token = t] \in ClientStates
        BY NobodyTyped, TokensAssumption DEF ClientStates, SessionSteps
      <3> QED
        BY <1>0, <1>5, <2>1, <3>1, ProceedTyped DEF issueRefreshSession, Nobody
    <2>2. CASE tokens' = [tokens EXCEPT ![t] = Revoked(@)] /\ UNCHANGED clients
      <3>1. tokens' \in [Tokens -> TokenRows]
        BY <1>0, <2>2, RevokedTyped
      <3> QED
        BY <1>5, <2>2, <3>1 DEF SessionsTypeOK, FactorsOK, issueRefreshSession
    <2> QED
      BY <1>5, <2>1, <2>2 DEF issueRefreshSession
  <1>6. ASSUME NEW c \in Clients, findRotatableByHash(c) PROVE SessionsTypeOK'
    <2> DEFINE Found == [clients[c] EXCEPT !.step = "insert"]
    <2>1. Found \in ClientStates /\ Found.token = clients[c].token
      BY <1>0 DEF ClientStates, SessionSteps
    <2>2. Proceed(c, Found) \/ Proceed(c, Nobody)
      BY <1>6 DEF findRotatableByHash, End
    <2>3. clients[c].token \in Tokens /\ UNCHANGED <<factors, tokens>>
      BY <1>6 DEF findRotatableByHash, SessionsTypeOK
    <2> HIDE DEF Found
    <2> QED
      BY <1>0, <2>1, <2>2, <2>3, NobodyTyped, ProceedTyped DEF Nobody
  <1>7. ASSUME NEW c \in Clients, rotate(c) PROVE SessionsTypeOK'
    <2>1. clients[c].token \in Tokens
      BY <1>7 DEF rotate, SessionsTypeOK
    <2>2. /\ Revoked(tokens[clients[c].token]) \in TokenRows
          /\ TokenRow(tokens[clients[c].token].verified) \in TokenRows
      BY <1>0, <2>1, RevokedTyped DEF TokenRow, TokenRows
    <2>3. tokens' \in [Tokens -> TokenRows]
      BY <1>0, <1>7, <2>1, <2>2 DEF rotate
    <2> QED
      BY <1>7, <2>3, NobodyTyped, ProceedTyped DEF rotate, End, Nobody
  <1>8. ASSUME NEW c \in Clients, revokeAllForUser(c) PROVE SessionsTypeOK'
    <2> DEFINE Begun == [Nobody EXCEPT !.step = "revoke",
                                       !.seen = {t \in Tokens : tokens[t].state = "live"}]
    <2>1. Begun \in ClientStates /\ Begun.step = "revoke"
      BY NobodyTyped DEF ClientStates, SessionSteps
    <2>2. Proceed(c, Begun) /\ UNCHANGED <<factors, tokens>>
      BY <1>8 DEF revokeAllForUser
    <2> HIDE DEF Begun
    <2> QED
      BY <1>0, <2>1, <2>2, ProceedTyped
  <1>9. ASSUME NEW c \in Clients, signOut(c) PROVE SessionsTypeOK'
    <2>1. tokens' \in [Tokens -> TokenRows]
      BY <1>0, <1>9, RevokedTyped DEF signOut, RevokeSeen
    <2> QED
      BY <1>9, <2>1, NobodyTyped, ProceedTyped DEF signOut, RevokeSeen, End, Nobody
  <1>10. ASSUME NEW t \in Tokens, GraceEnds(t) \/ revoke(t) PROVE SessionsTypeOK'
    <2>1. Revoked(tokens[t]) \in TokenRows /\ [tokens[t] EXCEPT !.state = "over"] \in TokenRows
      BY <1>0, RevokedTyped DEF TokenRows
    <2>2. tokens' \in [Tokens -> TokenRows]
      BY <1>0, <1>10, <2>1 DEF GraceEnds, revoke
    <2> QED
      BY <1>10, <2>2 DEF SessionsTypeOK, FactorsOK, GraceEnds, revoke
  <1>11. CASE UNCHANGED sessionVars
    BY <1>11 DEF SessionsTypeOK, FactorsOK, sessionVars
  <1> QED
    BY <1>1, <1>2, <1>3, <1>4, <1>5, <1>6, <1>7, <1>8, <1>9, <1>10, <1>11 DEF SessionsNext

LEMMA SessionsTyped == SessionsSpec => []SessionsTypeOK
  <1>1. SessionsInit => SessionsTypeOK
    BY NobodyTyped DEF SessionsInit, SessionsTypeOK, FactorsOK, NoRow, TokenRows, Nobody
  <1> QED
    BY <1>1, SessionsTypeStep, PTL DEF SessionsSpec

\* Nothing but its own end takes a sign-out on, and that end revokes what it saw.
LEMMA SignOutStep ==
    ASSUME SessionsTypeOK, [SessionsNext]_sessionVars, NEW c \in Clients,
           clients[c].step = "revoke", clients'[c].step = "idle", NEW t \in clients[c].seen
    PROVE  tokens'[t].state # "live"
  <1>1. clients \in [Clients -> ClientStates] /\ tokens \in [Tokens -> TokenRows] /\ t \in Tokens
    BY DEF SessionsTypeOK, ClientStates
  <1>2. clients' # clients
    OBVIOUS
  <1>3. ASSUME NEW d \in Clients, NEW state, Proceed(d, state), d # c PROVE FALSE
    BY <1>1, <1>3 DEF Proceed
  <1>4. \E d \in Clients :
           \/ getChallengeState(d) \/ verifyChallenge(d) \/ ConsumeCode(d) \/ signIn(d)
           \/ \E u \in Tokens : issueRefreshSession(d, u)
           \/ findRotatableByHash(d) \/ rotate(d) \/ revokeAllForUser(d) \/ signOut(d)
    BY <1>2 DEF SessionsNext, beginEnrollment, confirmEnrollment, disable, Revise, GraceEnds, revoke,
       sessionVars
  <1>5. PICK d \in Clients : /\ \E state : Proceed(d, state)
                             /\ signOut(d) \/ clients[d].step # "revoke"
    <2>1. PICK d \in Clients :
           \/ getChallengeState(d) \/ verifyChallenge(d) \/ ConsumeCode(d) \/ signIn(d)
           \/ \E u \in Tokens : issueRefreshSession(d, u)
           \/ findRotatableByHash(d) \/ rotate(d) \/ revokeAllForUser(d) \/ signOut(d)
      BY <1>4
    <2>2. \E state : Proceed(d, state)
      BY <1>2, <2>1 DEF getChallengeState, verifyChallenge, ConsumeCode, Admit, signIn,
         issueRefreshSession, findRotatableByHash, rotate, revokeAllForUser, signOut, RevokeSeen, End
    <2>3. signOut(d) \/ clients[d].step # "revoke"
      <3>1. Nobody.step = "idle"
        BY DEF Nobody
      <3>2. CASE getChallengeState(d) \/ revokeAllForUser(d) \/ (\E u \in Tokens : issueRefreshSession(d, u))
        BY <3>1, <3>2 DEF getChallengeState, revokeAllForUser, issueRefreshSession
      <3>3. CASE verifyChallenge(d) \/ ConsumeCode(d)
        BY <3>3 DEF verifyChallenge, ConsumeCode, Admit
      <3>4. CASE signIn(d) \/ findRotatableByHash(d) \/ rotate(d)
        BY <3>4 DEF signIn, findRotatableByHash, rotate
      <3> QED
        BY <2>1, <3>2, <3>3, <3>4
    <2> QED
      BY <2>2, <2>3
  <1>6. signOut(c)
    BY <1>3, <1>5
  <1>7. tokens'[t] = Revoked(tokens[t])
    BY <1>1, <1>6 DEF signOut, RevokeSeen
  <1> QED
    BY <1>1, <1>7, RevokedTyped

(* When signing out of all devices answers, every session it saw is revoked, those that *)
(* were being refreshed included, for any number of clients and tokens                 *)
(* (authSessionService.js:238).                                                       *)
THEOREM SignOutIsComplete == SessionsSpec => SignOutEndsAll
  <1>1. SessionsTypeOK /\ [SessionsNext]_sessionVars =>
            [\A c \in Clients : clients[c].step = "revoke" /\ clients'[c].step = "idle" =>
                 \A t \in clients[c].seen : tokens'[t].state # "live"]_sessionVars
    BY SignOutStep
  <1> QED
    BY <1>1, SessionsTyped, PTL DEF SessionsSpec, SignOutEndsAll

-----------------------------------------------------------------------------
(* The acceptance of a release.                                              *)

Acceptances ==
    acceptance = [step |-> acceptance.step, seen |-> acceptance.seen,
                  disturbed |-> acceptance.disturbed, expected |-> acceptance.expected]

\* While nobody else writes, what the request has read is the posture.
SeenIsCurrent ==
    acceptance.step = "read" /\ ~acceptance.disturbed =>
        \A fact \in DOMAIN acceptance.seen :
            fact \in DOMAIN Posture /\ acceptance.seen[fact] = Posture[fact]

AcceptanceInv == Acceptances /\ SeenIsCurrent /\ releases \in Seq(BOOLEAN)

\* Any write of a ledger while a request reads is noticed.
Disturbs ==
    /\ acceptance' = [acceptance EXCEPT !.disturbed = acceptance.step # "idle"]
    /\ UNCHANGED releases

LEMMA SecuritySteps ==
    ASSUME SecurityNext
    PROVE  Disturbs \/ Migrate \/ BeginAcceptance \/ getPosture \/ createAcceptanceRun
  BY DEF SecurityNext, createPolicy, createSsoConnection, createKeyEvent, createIncidentEvent,
     RotationDue, EvidenceLapses, Enrolment, Counts, Disturbs

\* The posture is what the factors and the ledgers say.
LEMMA PostureUnchanged ==
    ASSUME UNCHANGED <<factors, policies, connections, keys, incidents, evidence, due>>
    PROVE  Posture' = Posture
  BY DEF Posture, _adminMfaCoverage, _hasActiveSso, LastOf, Last

LEMMA AcceptanceStep ==
    ASSUME AcceptanceInv, [SecurityNext]_securityVars
    PROVE  AcceptanceInv'
  <1> USE DEF AcceptanceInv
  <1>1. CASE Disturbs
    <2>1. Acceptances'
      BY <1>1 DEF Disturbs, Acceptances
    <2>2. acceptance'.step = acceptance.step /\ acceptance'.disturbed = (acceptance.step # "idle")
      BY <1>1 DEF Disturbs, Acceptances
    <2>3. ~(acceptance'.step = "read" /\ ~acceptance'.disturbed)
      BY <2>2
    <2> QED
      BY <1>1, <2>1, <2>3 DEF Disturbs, SeenIsCurrent
  <1>2. CASE Migrate \/ UNCHANGED securityVars
    <2>1. Posture' = Posture /\ UNCHANGED <<acceptance, releases>>
      BY <1>2, PostureUnchanged DEF Migrate, securityVars, sessionVars, ledgers
    <2> QED
      BY <2>1 DEF Acceptances, SeenIsCurrent
  <1>3. CASE BeginAcceptance
    <2>1. acceptance' = [step |-> "read", seen |-> <<>>, disturbed |-> FALSE,
                         expected |-> migration = EXPECTED_MIGRATION]
      BY <1>3 DEF BeginAcceptance, NoAcceptance
    <2>2. DOMAIN acceptance'.seen = {}
      BY <2>1
    <2> QED
      BY <1>3, <2>1, <2>2 DEF BeginAcceptance, Acceptances, SeenIsCurrent
  <1>4. CASE getPosture
    <2>1. PICK fact \in DOMAIN Posture \ DOMAIN acceptance.seen :
             acceptance' = [acceptance EXCEPT !.seen =
                 [other \in DOMAIN acceptance.seen \cup {fact} |->
                     IF other = fact THEN Posture[fact] ELSE acceptance.seen[other]]]
      BY <1>4 DEF getPosture
    <2>2. Posture' = Posture /\ UNCHANGED releases
      BY <1>4, PostureUnchanged DEF getPosture, sessionVars, ledgers
    <2>3. acceptance' = [step |-> acceptance.step, disturbed |-> acceptance.disturbed,
                         expected |-> acceptance.expected,
                         seen |-> [other \in DOMAIN acceptance.seen \cup {fact} |->
                             IF other = fact THEN Posture[fact] ELSE acceptance.seen[other]]]
      BY <2>1 DEF Acceptances
    <2>4. /\ DOMAIN acceptance'.seen = {fact} \cup DOMAIN acceptance.seen
          /\ acceptance'.seen[fact] = Posture[fact]
          /\ \A other \in DOMAIN acceptance.seen : acceptance'.seen[other] = acceptance.seen[other]
      BY <2>1, <2>3
    <2> HIDE DEF AcceptanceInv
    <2> QED
      BY <1>4, <2>1, <2>2, <2>3, <2>4 DEF AcceptanceInv, Acceptances, SeenIsCurrent
  <1>5. CASE createAcceptanceRun
    <2>1. acceptance' = [step |-> "idle", seen |-> acceptance.seen,
                         disturbed |-> acceptance.disturbed, expected |-> acceptance.expected]
      BY <1>5 DEF createAcceptanceRun, Acceptances
    <2>2. \E accepted \in BOOLEAN : releases' = Append(releases, accepted)
      BY <1>5 DEF createAcceptanceRun
    <2>3. releases' \in Seq(BOOLEAN)
      BY <2>2
    <2> QED
      BY <2>1, <2>3 DEF Acceptances, SeenIsCurrent
  <1> QED
    BY <1>1, <1>2, <1>3, <1>4, <1>5, SecuritySteps

LEMMA AcceptanceInvariant == SecuritySpec => []AcceptanceInv
  <1>1. SecurityInit => AcceptanceInv
    BY DEF SecurityInit, NoAcceptance, AcceptanceInv, Acceptances, SeenIsCurrent
  <1> QED
    BY <1>1, AcceptanceStep, PTL DEF SecuritySpec

\* A release that is accepted was asked for with the posture as it is.
LEMMA AcceptedStep ==
    ASSUME AcceptanceInv, [SecurityNext]_securityVars, releases' # releases, Last(releases'),
           ~acceptance.disturbed
    PROVE  productionReady'
  <1>1. createAcceptanceRun
    BY SecuritySteps DEF Disturbs, Migrate, BeginAcceptance, getPosture, securityVars
  <1>2. releases' = Append(releases, FALSE) => ~Last(releases')
    BY DEF AcceptanceInv, Last
  <1>3. Gates(acceptance.seen) /\ releases' = Append(releases, TRUE)
    BY <1>1, <1>2 DEF createAcceptanceRun
  <1>4. \A fact \in DOMAIN Posture : acceptance.seen[fact] = Posture[fact]
    BY <1>1 DEF AcceptanceInv, SeenIsCurrent, createAcceptanceRun
  <1>5. DOMAIN Posture = {"policy", "mfa", "sso", "overdue", "open"}
    BY DEF Posture
  <1>6. Passes_All(Posture)
    BY <1>3, <1>4, <1>5 DEF Gates, Passes_All
  <1>7. Posture' = Posture
    BY <1>1, PostureUnchanged DEF createAcceptanceRun, sessionVars, ledgers
  <1>8. releases' # <<>>
    <2>1. Len(releases') = Len(releases) + 1 /\ Len(releases) \in Nat
      BY <1>3 DEF AcceptanceInv
    <2> QED
      BY <2>1
  <1>9. LastOf(releases', FALSE)
    BY <1>8 DEF LastOf
  <1> QED
    BY <1>6, <1>7, <1>9 DEF productionReady

(* What is checked when a release is accepted is what the posture then shows, unless a *)
(* ledger was written while the request read, for any number of writes                 *)
(* (enterpriseSecurityService.js:310).                                                *)
THEOREM AcceptedIsShown == SecuritySpec => AcceptedIsReady
  <1>1. AcceptanceInv /\ [SecurityNext]_securityVars =>
            [releases' # releases /\ Last(releases') => productionReady' \/ acceptance.disturbed]_securityVars
    BY AcceptedStep
  <1> QED
    BY <1>1, AcceptanceInvariant, PTL DEF SecuritySpec, AcceptedIsReady

-----------------------------------------------------------------------------
(* Sums over finite sets, by their unfolding: what SumFunctionOnSet chooses exists. *)

(* A set of numbers has a smallest one, and a set of subsets a smallest one. *)
LEMMA SmallestNumber ==
    ASSUME NEW T \in SUBSET Nat, T # {}
    PROVE  \E n \in T : \A m \in T : n <= m
  <1>1. PICK n \in T : \A m \in T : ~(<<m, n>> \in OpToRel(<, Nat))
    BY WFMin, NatLessThanWellFounded
  <1>2. \A m \in T : ~(m < n)
    BY <1>1 DEF OpToRel
  <1> QED
    BY <1>2

LEMMA SmallestSubset ==
    ASSUME NEW S, IsFiniteSet(S), NEW Bad \in SUBSET SUBSET S, Bad # {}
    PROVE  \E s \in Bad : \A t \in Bad : Cardinality(s) <= Cardinality(t)
  <1>1. \A s \in Bad : Cardinality(s) \in Nat
    BY FS_Subset, FS_CardinalityType
  <1> DEFINE sizes == {Cardinality(s) : s \in Bad}
  <1>2. sizes \in SUBSET Nat /\ sizes # {}
    BY <1>1
  <1>3. PICK n \in sizes : \A m \in sizes : n <= m
    <2> HIDE DEF sizes
    <2> QED
      BY <1>2, SmallestNumber
  <1> QED
    BY <1>3

(* What a fold takes first, and the rest. *)
Pick(s) == CHOOSE x \in s : TRUE
Rest(s) == s \ {Pick(s)}

LEMMA Picked ==
    ASSUME NEW S, IsFiniteSet(S), NEW s \in SUBSET S, s # {}
    PROVE  /\ Pick(s) \in s /\ Rest(s) \in SUBSET S
           /\ Cardinality(s) \in Nat \ {0} /\ Cardinality(Rest(s)) = Cardinality(s) - 1
  <1>1. Pick(s) \in s
    BY DEF Pick
  <1>2. IsFiniteSet(s)
    BY FS_Subset
  <1> QED
    BY <1>1, <1>2, FS_RemoveElement, FS_CardinalityType, FS_EmptySet DEF Rest

(* The function the sum of a function is read from. *)
Adds(g, f, domain) == g = [s \in domain |-> IF s = {} THEN 0 ELSE f[Pick(s)] + g[Rest(s)]]
Adder(f, S) == CHOOSE g : Adds(g, f, SUBSET S)

LEMMA SumByAdder ==
    ASSUME NEW f, NEW S
    PROVE  SumFunctionOnSet(f, S) = Adder(f, S)[S]
  BY DEF SumFunctionOnSet, FoldFunctionOnSet, MapThenFoldSet, Adder, Adds, Pick, Rest

(* That function exists on ever larger subsets, so on all: no least size is missing. *)
Small(S, n) == {s \in SUBSET S : Cardinality(s) <= n}

LEMMA AdderExtends ==
    ASSUME NEW f, NEW S, IsFiniteSet(S), NEW n \in Nat \ {0}, NEW g, Adds(g, f, Small(S, n - 1))
    PROVE  \E h : Adds(h, f, Small(S, n))
  <1> DEFINE h == [s \in Small(S, n) |-> IF s = {} THEN 0 ELSE f[Pick(s)] + g[Rest(s)]]
  <1>1. \A s \in Small(S, n - 1) : s \in Small(S, n) /\ h[s] = g[s]
    <2> TAKE s \in Small(S, n - 1)
    <2>1. s \in Small(S, n)
      BY FS_Subset, FS_CardinalityType DEF Small
    <2> QED
      BY <2>1 DEF Adds
  <1>2. \A s \in Small(S, n) : s # {} => Rest(s) \in Small(S, n - 1)
    <2> HIDE DEF h
    <2> TAKE s \in Small(S, n)
    <2> HAVE s # {}
    <2>1. s \in SUBSET S /\ Cardinality(s) <= n
      BY DEF Small
    <2>2. Rest(s) \in SUBSET S /\ Cardinality(s) \in Nat /\ Cardinality(Rest(s)) = Cardinality(s) - 1
      BY <2>1, Picked
    <2> QED
      BY <2>1, <2>2 DEF Small
  <1>3. Adds(h, f, Small(S, n))
    BY <1>1, <1>2 DEF Adds
  <1> QED
    BY <1>3

LEMMA AdderExists ==
    ASSUME NEW f, NEW S, IsFiniteSet(S)
    PROVE  Adds(Adder(f, S), f, SUBSET S)
  <1> DEFINE Missing == {n \in Nat : ~\E g : Adds(g, f, Small(S, n))}
  <1>1. 0 \notin Missing
    <2>1. Small(S, 0) = {{}}
      BY FS_Subset, FS_EmptySet, FS_CardinalityType DEF Small
    <2>2. Adds([s \in {{}} |-> 0], f, Small(S, 0))
      BY <2>1 DEF Adds
    <2> QED
      BY <2>2
  <1>2. Missing = {}
    <2> SUFFICES ASSUME Missing # {} PROVE FALSE
      OBVIOUS
    <2>1. PICK n \in Missing : \A m \in Missing : n <= m
      BY SmallestNumber
    <2>2. PICK g : Adds(g, f, Small(S, n - 1))
      BY <1>1, <2>1
    <2> QED
      BY <1>1, <2>1, <2>2, AdderExtends
  <1>3. PICK g : Adds(g, f, Small(S, Cardinality(S)))
    BY <1>2, FS_CardinalityType
  <1>4. Small(S, Cardinality(S)) = SUBSET S
    BY FS_Subset DEF Small
  <1> QED
    BY <1>3, <1>4 DEF Adder

(* It does not depend on the set it was made for: no smallest subset differs. *)
LEMMA AdderAgrees ==
    ASSUME NEW f, NEW S, IsFiniteSet(S), NEW T \in SUBSET S
    PROVE  Adder(f, S)[T] = Adder(f, T)[T]
  <1> DEFINE Bad == {s \in SUBSET T : Adder(f, S)[s] # Adder(f, T)[s]}
  <1>0. IsFiniteSet(T)
    BY FS_Subset
  <1> SUFFICES ASSUME Bad # {} PROVE FALSE
    OBVIOUS
  <1>1. PICK s \in Bad : \A t \in Bad : Cardinality(s) <= Cardinality(t)
    BY <1>0, SmallestSubset
  <1>2. Adds(Adder(f, S), f, SUBSET S) /\ Adds(Adder(f, T), f, SUBSET T)
    BY <1>0, AdderExists
  <1>3. s # {}
    BY <1>2 DEF Adds
  <1>4. Rest(s) \in SUBSET T /\ Rest(s) \notin Bad
    BY <1>0, <1>1, <1>3, Picked
  <1>5. Adder(f, S)[Rest(s)] = Adder(f, T)[Rest(s)]
    BY <1>4
  <1> QED
    BY <1>2, <1>3, <1>5 DEF Adds

(* The two equations of a sum. *)
LEMMA SumOfNone ==
    ASSUME NEW f
    PROVE  SumFunctionOnSet(f, {}) = 0
  <1>1. Adds(Adder(f, {}), f, SUBSET {})
    BY AdderExists, FS_EmptySet
  <1>2. Adder(f, {})[{}] = 0
    BY <1>1 DEF Adds
  <1> QED
    BY <1>2, SumByAdder

LEMMA SumOfPicked ==
    ASSUME NEW f, NEW S, IsFiniteSet(S), S # {}
    PROVE  SumFunctionOnSet(f, S) = f[Pick(S)] + SumFunctionOnSet(f, Rest(S))
  <1>0. Adds(Adder(f, S), f, SUBSET S)
    BY AdderExists
  <1>1. Adder(f, S)[S] = f[Pick(S)] + Adder(f, S)[Rest(S)]
    BY <1>0 DEF Adds
  <1>2. Adder(f, S)[Rest(S)] = Adder(f, Rest(S))[Rest(S)]
    BY AdderAgrees DEF Rest
  <1> QED
    BY <1>1, <1>2, SumByAdder

(* A sum of numbers is a number. *)
LEMMA SumIsNumber ==
    ASSUME NEW S, IsFiniteSet(S), NEW f, \A x \in S : f[x] \in Int
    PROVE  /\ SumFunctionOnSet(f, S) \in Int
           /\ (\A x \in S : f[x] \in Nat) => SumFunctionOnSet(f, S) \in Nat
  <1> DEFINE Right(s) == /\ SumFunctionOnSet(f, s) \in Int
                         /\ (\A x \in s : f[x] \in Nat) => SumFunctionOnSet(f, s) \in Nat
             Bad == {s \in SUBSET S : ~Right(s)}
  <1> SUFFICES ASSUME Bad # {} PROVE FALSE
    OBVIOUS
  <1>1. PICK s \in Bad : \A t \in Bad : Cardinality(s) <= Cardinality(t)
    BY SmallestSubset
  <1>2. IsFiniteSet(s)
    BY FS_Subset
  <1>3. s # {}
    BY SumOfNone
  <1>4. Right(Rest(s)) /\ Pick(s) \in s
    BY <1>1, <1>3, Picked
  <1>5. \A x \in Rest(s) : x \in s
    BY DEF Rest
  <1>6. SumFunctionOnSet(f, s) = f[Pick(s)] + SumFunctionOnSet(f, Rest(s))
    BY <1>2, <1>3, SumOfPicked
  <1> QED
    BY <1>4, <1>5, <1>6

(* A sum does not depend on the order of its terms. *)
LEMMA SumWithout ==
    ASSUME NEW S, IsFiniteSet(S), NEW f, \A x \in S : f[x] \in Int, NEW e \in S
    PROVE  SumFunctionOnSet(f, S) = f[e] + SumFunctionOnSet(f, S \ {e})
  <1> DEFINE Right(s) == \A x \in s : SumFunctionOnSet(f, s) = f[x] + SumFunctionOnSet(f, s \ {x})
             Bad == {s \in SUBSET S : ~Right(s)}
  <1> SUFFICES ASSUME Bad # {} PROVE FALSE
    OBVIOUS
  <1>1. PICK s \in Bad : \A t \in Bad : Cardinality(s) <= Cardinality(t)
    BY SmallestSubset
  <1>2. PICK x \in s : SumFunctionOnSet(f, s) # f[x] + SumFunctionOnSet(f, s \ {x})
    OBVIOUS
  <1>3. IsFiniteSet(s)
    BY FS_Subset
  <1>4. SumFunctionOnSet(f, s) = f[Pick(s)] + SumFunctionOnSet(f, Rest(s))
    BY <1>2, <1>3, SumOfPicked
  <1>5. x # Pick(s)
    BY <1>2, <1>4 DEF Rest
  <1>6. Right(Rest(s)) /\ x \in Rest(s) /\ Pick(s) \in s
    <2>1. s # {} /\ x \in Rest(s)
      BY <1>2, <1>5 DEF Rest
    <2>2. Pick(s) \in s /\ Rest(s) \in SUBSET S /\ ~(Cardinality(s) <= Cardinality(Rest(s)))
      BY <2>1, Picked
    <2> QED
      BY <1>1, <2>1, <2>2
  <1>7. SumFunctionOnSet(f, Rest(s)) = f[x] + SumFunctionOnSet(f, Rest(s) \ {x})
    BY <1>6
  <1>8. s \ {x} \in SUBSET S /\ Pick(s) \in s \ {x}
    BY <1>5, <1>6
  <1>9. Right(s \ {x})
    <2>1. Cardinality(s \ {x}) = Cardinality(s) - 1 /\ Cardinality(s) \in Nat
      BY <1>2, <1>3, FS_RemoveElement, FS_CardinalityType
    <2>2. s \ {x} \notin Bad
      BY <1>1, <2>1
    <2> QED
      BY <1>8, <2>2
  <1>10. SumFunctionOnSet(f, s \ {x}) = f[Pick(s)] + SumFunctionOnSet(f, (s \ {x}) \ {Pick(s)})
    BY <1>8, <1>9
  <1>11. (s \ {x}) \ {Pick(s)} = Rest(s) \ {x}
    BY DEF Rest
  <1>12. SumFunctionOnSet(f, Rest(s) \ {x}) \in Int /\ f[x] \in Int /\ f[Pick(s)] \in Int
    <2>1. Rest(s) \ {x} \in SUBSET S
      BY DEF Rest
    <2>2. IsFiniteSet(Rest(s) \ {x}) /\ \A y \in Rest(s) \ {x} : f[y] \in Int
      BY <2>1, FS_Subset
    <2> QED
      BY <1>2, <1>6, <2>2, SumIsNumber
  <1> HIDE DEF Right
  <1>13. SumFunctionOnSet(f, s) = f[x] + SumFunctionOnSet(f, s \ {x})
    <2>1. SumFunctionOnSet(f, s \ {x}) = f[Pick(s)] + SumFunctionOnSet(f, Rest(s) \ {x})
      BY ONLY <1>10, <1>11
    <2> QED
      BY ONLY <1>4, <1>7, <1>12, <2>1
  <1> QED
    BY <1>2, <1>13

(* Equal terms have equal sums. *)
LEMMA SumAgrees ==
    ASSUME NEW S, IsFiniteSet(S), NEW f, NEW g, \A x \in S : f[x] = g[x]
    PROVE  SumFunctionOnSet(f, S) = SumFunctionOnSet(g, S)
  <1> DEFINE Right(s) == SumFunctionOnSet(f, s) = SumFunctionOnSet(g, s)
             Bad == {s \in SUBSET S : ~Right(s)}
  <1> SUFFICES ASSUME Bad # {} PROVE FALSE
    OBVIOUS
  <1>1. PICK s \in Bad : \A t \in Bad : Cardinality(s) <= Cardinality(t)
    BY SmallestSubset
  <1>2. IsFiniteSet(s)
    BY FS_Subset
  <1>3. s # {}
    BY SumOfNone
  <1>4. Right(Rest(s)) /\ Pick(s) \in S
    BY <1>1, <1>3, Picked
  <1> QED
    BY <1>2, <1>3, <1>4, SumOfPicked

(* A sum is the sum of two parts. *)
LEMMA SumOfParts ==
    ASSUME NEW S, IsFiniteSet(S), NEW f, \A x \in S : f[x] \in Int, NEW T \in SUBSET S
    PROVE  SumFunctionOnSet(f, S) = SumFunctionOnSet(f, T) + SumFunctionOnSet(f, S \ T)
  <1> DEFINE Right(t) == SumFunctionOnSet(f, S) = SumFunctionOnSet(f, t) + SumFunctionOnSet(f, S \ t)
             Bad == {t \in SUBSET S : ~Right(t)}
  <1> SUFFICES ASSUME Bad # {} PROVE FALSE
    OBVIOUS
  <1>1. PICK s \in Bad : \A t \in Bad : Cardinality(s) <= Cardinality(t)
    BY SmallestSubset
  <1>2. IsFiniteSet(s) /\ IsFiniteSet(Rest(s)) /\ IsFiniteSet(S \ s)
    BY FS_Subset, FS_Difference DEF Rest
  <1>3. s # {}
    BY SumOfNone, SumIsNumber
  <1>4. Right(Rest(s)) /\ Pick(s) \in s
    BY <1>1, <1>3, Picked
  <1>5. SumFunctionOnSet(f, s) = f[Pick(s)] + SumFunctionOnSet(f, Rest(s))
    BY <1>2, <1>3, SumOfPicked
  <1>6. SumFunctionOnSet(f, S \ Rest(s)) = f[Pick(s)] + SumFunctionOnSet(f, S \ s)
    <2>1. (S \ Rest(s)) \ {Pick(s)} = S \ s /\ Pick(s) \in S \ Rest(s)
      BY <1>4 DEF Rest
    <2>2. IsFiniteSet(S \ Rest(s))
      BY FS_Difference
    <2> QED
      BY <2>1, <2>2, SumWithout
  <1>7. /\ SumFunctionOnSet(f, Rest(s)) \in Int /\ SumFunctionOnSet(f, S \ s) \in Int
        /\ f[Pick(s)] \in Int
    BY <1>2, <1>4, SumIsNumber DEF Rest
  <1> QED
    BY <1>4, <1>5, <1>6, <1>7

(* A term more, a term changed, a term among others. *)
LEMMA SumGrows ==
    ASSUME NEW S, IsFiniteSet(S), NEW e, e \notin S,
           NEW f \in [S -> Int], NEW g \in [S \cup {e} -> Int], \A x \in S : g[x] = f[x]
    PROVE  SumFunction(g) = SumFunction(f) + g[e]
  <1>1. IsFiniteSet(S \cup {e}) /\ (S \cup {e}) \ {e} = S
    BY FS_AddElement
  <1>2. SumFunctionOnSet(g, S \cup {e}) = g[e] + SumFunctionOnSet(g, S)
    BY <1>1, SumWithout
  <1>3. SumFunctionOnSet(g, S) = SumFunctionOnSet(f, S) /\ SumFunctionOnSet(f, S) \in Int
    BY SumAgrees, SumIsNumber
  <1> QED
    BY <1>2, <1>3 DEF SumFunction

LEMMA SumChanges ==
    ASSUME NEW S, IsFiniteSet(S), NEW e \in S,
           NEW f \in [S -> Int], NEW g \in [S -> Int], \A x \in S \ {e} : g[x] = f[x]
    PROVE  SumFunction(g) = SumFunction(f) - f[e] + g[e]
  <1>1. SumFunctionOnSet(g, S) = g[e] + SumFunctionOnSet(g, S \ {e})
    BY SumWithout
  <1>2. SumFunctionOnSet(f, S) = f[e] + SumFunctionOnSet(f, S \ {e})
    BY SumWithout
  <1>3. IsFiniteSet(S \ {e})
    BY FS_RemoveElement
  <1>4. /\ SumFunctionOnSet(g, S \ {e}) = SumFunctionOnSet(f, S \ {e})
        /\ SumFunctionOnSet(f, S \ {e}) \in Int
    BY <1>3, SumAgrees, SumIsNumber
  <1> QED
    BY <1>1, <1>2, <1>4 DEF SumFunction

LEMMA SumAtLeast ==
    ASSUME NEW S, IsFiniteSet(S), NEW f, \A x \in S : f[x] \in Nat, NEW e \in S
    PROVE  SumFunctionOnSet(f, S) \in Nat /\ SumFunctionOnSet(f, S) >= f[e]
  <1>1. SumFunctionOnSet(f, S) = f[e] + SumFunctionOnSet(f, S \ {e})
    BY SumWithout
  <1>2. IsFiniteSet(S \ {e})
    BY FS_RemoveElement
  <1>3. SumFunctionOnSet(f, S \ {e}) \in Nat /\ SumFunctionOnSet(f, S) \in Nat
    BY <1>2, SumIsNumber
  <1> QED
    BY <1>1, <1>3

-----------------------------------------------------------------------------
(* Donations, for any donors, donations, baskets and number of requests at once. *)

LEMMA TotalIsNumber ==
    ASSUME NEW numbers \in Seq(Nat)
    PROVE  Total(numbers) \in Nat
  <1>1. Total(numbers) = SumFunctionOnSet(numbers, DOMAIN numbers)
    BY DEF Total, FoldSeq, FoldFunction, SumFunctionOnSet
  <1>2. IsFiniteSet(DOMAIN numbers) /\ \A i \in DOMAIN numbers : numbers[i] \in Nat
    BY FS_Interval
  <1> QED
    BY <1>1, <1>2, SumIsNumber

Items == [points : Nat, factor : Nat, weight : Nat]
Gifts == [user : Donors, status : Arrivals \cup {"completed"}, items : Seq(Items),
          itemCo2 : Seq(Nat), co2 : Nat, weight : Nat, points : Nat]
Levels == {"Champion", "Advocate", "Explorer", "Beginner"}
RewardRows == [points : Nat, donations : Nat, items : Nat, weight : Nat, co2 : Nat, level : Levels]
Servings ==
    [step : {"idle"}] \cup [step : {"computed"}, donation : DonationIds, row : Gifts]
    \cup [step : {"credited"}, donation : DonationIds, row : Gifts, rewards : RewardRows]
    \cup [step : {"sort"}, donation : DonationIds, row : Gifts, disposition : Dispositions]
    \cup [step : {"sorted"}, donation : DonationIds, row : Gifts,
          rewards : RewardRows \cup {NoRewards}]

GivingTypes ==
    /\ donations \in [DonationIds -> Gifts \cup {Absent}]
    /\ rewards \in [Donors -> RewardRows \cup {NoRewards}]
    /\ IsFiniteSet(transactions)
    /\ transactions \subseteq [user : Donors, donation : DonationIds, points : Nat]
    /\ serving \in [Servers -> Servings]

(* RewardsMatchDonations, of one donor. *)
Matches(u) ==
    /\ Running(u).co2 = SumFunction([d \in Given(u) |-> Total(donations[d].itemCo2)])
    /\ Running(u).co2 = SumFunction([d \in Given(u) |-> donations[d].co2])
    /\ Running(u).points = SumFunction([d \in Given(u) |-> donations[d].points])
    /\ Running(u).points = SumFunction([t \in Earned(u) |-> t.points])
    /\ Running(u).items = SumFunction([d \in Given(u) |-> Len(donations[d].items)])
    /\ Running(u).donations = Cardinality(Given(u))
    /\ Running(u).level = resolveLevel(Running(u).points)

Summed(row) == row.co2 = Total(row.itemCo2)

\* The row of a new donation, as the code priced it.
Priced(row) ==
    \E category \in Categories, arrival \in Arrivals, basket \in Baskets :
        row = computed(row.user, category, arrival, basket)

(* What a request holds is still so when it commits. *)
StillHolds(r) ==
    LET d == serving[r].donation
        row == serving[r].row
    IN  /\ Busy(r) => Summed(row)
        /\ serving[r].step \in {"computed", "credited"} => donations[d] = Absent /\ Priced(row)
        /\ serving[r].step = "sort" => donations[d] = row
        /\ serving[r].step = "credited" => serving[r].rewards = Credited(Running(row.user), row)
        /\ serving[r].step = "sorted" =>
             /\ donations[d] # Absent
             /\ \E disposition \in Dispositions : row = Sorted(donations[d], disposition)
             /\ serving[r].rewards = Adjusted(rewards[row.user], donations[d], row)

Apart ==
    \A q, r \in Servers : q # r =>
        /\ Busy(q) /\ Busy(r) => serving[q].donation # serving[r].donation
        /\ \A u \in Donors : ~(HoldsRewards(q, u) /\ HoldsRewards(r, u))

GivingInv ==
    /\ GivingTypes /\ Apart
    /\ \A r \in Servers : StillHolds(r)
    /\ \A d \in DonationIds : donations[d] # Absent => Summed(donations[d])
    /\ \A t \in transactions : donations[t.donation] # Absent
    /\ \A u \in Donors : Matches(u)

LEMMA BusySteps ==
    ASSUME GivingTypes, NEW r \in Servers
    PROVE  /\ serving[r].step \in {"idle", "computed", "credited", "sort", "sorted"}
           /\ Busy(r) => serving[r].donation \in DonationIds /\ serving[r].row \in Gifts
           /\ serving[r].step = "credited" => serving[r].rewards \in RewardRows
           /\ serving[r].step = "sorted" => serving[r].rewards \in RewardRows \cup {NoRewards}
           /\ serving[r].step = "sort" => serving[r].disposition \in Dispositions
  BY DEF GivingTypes, Servings, Busy

LEMMA ComputedGift ==
    ASSUME NEW u \in Donors, NEW category \in Categories, NEW arrival \in Arrivals,
           NEW basket \in Seq(Items)
    PROVE  /\ computed(u, category, arrival, basket) \in Gifts
           /\ Summed(computed(u, category, arrival, basket))
           /\ computed(u, category, arrival, basket).user = u
  <1> DEFINE base == Total([i \in DOMAIN basket |-> basket[i].points * basket[i].weight])
             co2 == [i \in DOMAIN basket |-> computeDonationCo2Saved(category, basket[i])]
  <1>0. DOMAIN basket = 1..Len(basket) /\ Len(basket) \in Nat
        /\ \A i \in DOMAIN basket : basket[i] \in Items
    OBVIOUS
  <1>1. base \in Nat
    <2>1. \A i \in DOMAIN basket : basket[i].points * basket[i].weight \in Nat
      BY <1>0 DEF Items
    <2>2. [i \in DOMAIN basket |-> basket[i].points * basket[i].weight] \in Seq(Nat)
      BY <1>0, <2>1
    <2> QED
      BY <2>2, TotalIsNumber
  <1>2. co2 \in Seq(Nat)
    <2>1. ASSUME NEW item \in Items PROVE computeDonationCo2Saved(category, item) \in Nat
      <3>1. 5 * item.factor * item.weight \in Nat /\ 7 * item.weight \in Nat
        BY DEF Items
      <3> QED
        BY <3>1 DEF computeDonationCo2Saved
    <2>2. co2 \in [1..Len(basket) -> Nat]
      BY <1>0, <2>1
    <2> QED
      BY <1>0, <2>2
  <1>3. Total(co2) \in Nat
    BY <1>2, TotalIsNumber
  <1>4. Total([i \in DOMAIN basket |-> basket[i].weight]) \in Nat
    <2>1. [i \in DOMAIN basket |-> basket[i].weight] \in Seq(Nat)
      BY <1>0 DEF Items
    <2> QED
      BY <2>1, TotalIsNumber
  <1>5. (IF category = "charity" THEN base + (base + 1) \div 2 ELSE base) \in Nat
    <2> HIDE DEF base
    <2> QED
      BY <1>1
  <1> HIDE DEF base, co2
  <1>6. computed(u, category, arrival, basket) =
          [user |-> u, status |-> arrival, items |-> basket, itemCo2 |-> co2, co2 |-> Total(co2),
           weight |-> Total([i \in DOMAIN basket |-> basket[i].weight]),
           points |-> IF category = "charity" THEN base + (base + 1) \div 2 ELSE base]
    BY DEF computed, base, co2
  <1> QED
    BY <1>2, <1>3, <1>4, <1>5, <1>6 DEF Gifts, Summed

LEMMA LevelOfPoints ==
    ASSUME NEW points \in Nat
    PROVE  resolveLevel(points) \in Levels
  BY DEF resolveLevel, Levels

LEMMA CreditedRow ==
    ASSUME NEW old \in RewardRows, NEW row \in Gifts
    PROVE  Credited(old, row) \in RewardRows
  <1>1. /\ old.points \in Nat /\ old.donations \in Nat /\ old.items \in Nat /\ old.weight \in Nat
        /\ old.co2 \in Nat
    BY DEF RewardRows
  <1>2. row.points \in Nat /\ Len(row.items) \in Nat /\ row.weight \in Nat /\ row.co2 \in Nat
    BY DEF Gifts
  <1>3. \A m, n \in Nat : m + n \in Nat
    OBVIOUS
  <1>4. /\ old.points + row.points \in Nat /\ old.donations + 1 \in Nat
        /\ old.items + Len(row.items) \in Nat /\ old.weight + row.weight \in Nat
        /\ old.co2 + row.co2 \in Nat
    <2>1. old.donations + 1 \in Nat
      BY ONLY <1>1
    <2> QED
      BY ONLY <1>1, <1>2, <1>3, <2>1, Zenon
  <1> QED
    BY <1>4, LevelOfPoints DEF Credited, RewardRows

LEMMA RunningRow ==
    ASSUME GivingTypes, NEW u \in Donors
    PROVE  Running(u) \in RewardRows
  BY DEF GivingTypes, Running, ZeroRow, RewardRows, Levels

LEMMA SortedGift ==
    ASSUME NEW row \in Gifts, NEW disposition \in Dispositions
    PROVE  /\ Sorted(row, disposition) \in Gifts
           /\ Summed(Sorted(row, disposition))
           /\ Sorted(row, disposition).user = row.user
           /\ Sorted(row, disposition).items = row.items
           /\ Sorted(row, disposition).points = row.points
  <1> DEFINE co2 == [i \in DOMAIN row.items |-> dispositionCo2Saved(disposition, row.items[i])]
  <1>1. row.items \in Seq(Items)
    BY DEF Gifts
  <1>2. ASSUME NEW item \in Items PROVE dispositionCo2Saved(disposition, item) \in Nat
    <2>1. 5 * item.factor * item.weight \in Nat /\ 7 * item.weight \in Nat
      BY DEF Items
    <2> QED
      BY <2>1 DEF dispositionCo2Saved, Dispositions
  <1>3. co2 \in Seq(Nat)
    BY <1>1, <1>2
  <1>4. Total(co2) \in Nat
    BY <1>3, TotalIsNumber
  <1>5. Sorted(row, disposition) = [row EXCEPT !.status = "completed", !.itemCo2 = co2, !.co2 = Total(co2)]
    BY DEF Sorted
  <1> HIDE DEF co2
  <1> QED
    BY <1>3, <1>4, <1>5 DEF Gifts, Summed

LEMMA Floor ==
    ASSUME NEW n \in Int
    PROVE  Max({0, n}) \in Nat /\ (n \in Nat => Max({0, n}) = n)
  <1>1. \E x \in {0, n} : \A y \in {0, n} : x >= y
    BY SMT
  <1>2. Max({0, n}) \in {0, n} /\ \A y \in {0, n} : Max({0, n}) >= y
    BY <1>1 DEF Max
  <1> QED
    BY <1>2

LEMMA AdjustedRow ==
    ASSUME NEW old \in RewardRows \cup {NoRewards}, NEW was \in Gifts, NEW row \in Gifts
    PROVE  Adjusted(old, was, row) \in RewardRows \cup {NoRewards}
  <1>1. CASE old \in RewardRows
    <2>0. old.co2 + (row.co2 - was.co2) \in Int
      BY <1>1 DEF RewardRows, Gifts
    <2>1. Max({0, old.co2 + (row.co2 - was.co2)}) \in Nat
      BY <2>0, Floor
    <2> QED
      BY <1>1, <2>1 DEF Adjusted, RewardRows
  <1> QED
    BY <1>1 DEF Adjusted

-----------------------------------------------------------------------------
LEMMA GivingStart ==
    ASSUME GivingInit
    PROVE  GivingInv
  <1>1. \A d \in DonationIds : donations[d] = Absent
    BY DEF GivingInit
  <1>2. \A r \in Servers : serving[r].step = "idle"
    BY DEF GivingInit, NotServing
  <1>3. GivingTypes
    <2>1. rewards \in [Donors -> RewardRows \cup {NoRewards}]
      BY DEF GivingInit, ZeroRow, RewardRows, Levels
    <2>2. IsFiniteSet(transactions)
      BY FS_EmptySet DEF GivingInit
    <2> QED
      BY <2>1, <2>2 DEF GivingInit, GivingTypes, NotServing, Servings
  <1>4. Apart /\ \A r \in Servers : StillHolds(r)
    BY <1>2 DEF Apart, StillHolds, Busy, HoldsRewards
  <1>5. \A u \in Donors : Given(u) = {} /\ Earned(u) = {}
    BY <1>1 DEF Given, Earned, GivingInit
  <1>6. ASSUME NEW u \in Donors PROVE Matches(u)
    <2>1. Running(u) = ZeroRow
      BY DEF GivingInit, Running
    <2>2. \A f : DOMAIN f = {} => SumFunction(f) = 0
      BY SumOfNone DEF SumFunction
    <2>3. Cardinality({}) = 0 /\ resolveLevel(0) = "Beginner"
      BY FS_EmptySet DEF resolveLevel
    <2>4. /\ Running(u).co2 = 0 /\ Running(u).points = 0 /\ Running(u).items = 0
          /\ Running(u).donations = 0 /\ Running(u).level = "Beginner"
      BY <2>1 DEF ZeroRow
    <2>5. /\ SumFunction([d \in Given(u) |-> Total(donations[d].itemCo2)]) = 0
          /\ SumFunction([d \in Given(u) |-> donations[d].co2]) = 0
          /\ SumFunction([d \in Given(u) |-> donations[d].points]) = 0
      BY <1>5, <2>2
    <2>6. /\ SumFunction([t \in Earned(u) |-> t.points]) = 0
          /\ SumFunction([d \in Given(u) |-> Len(donations[d].items)]) = 0
      BY <1>5, <2>2
    <2> QED
      BY <1>5, <2>3, <2>4, <2>5, <2>6 DEF Matches
  <1> QED
    BY <1>1, <1>3, <1>4, <1>6 DEF GivingInv, GivingInit

LEMMA TypesKept ==
    ASSUME GivingInv, GivingNext
    PROVE  GivingTypes'
  <1>0. GivingTypes
    BY DEF GivingInv
  <1> PICK r \in Servers :
        \/ \E u \in Donors, d \in DonationIds, category \in Categories, arrival \in Arrivals,
              basket \in Baskets : readMaterials(r, u, d, category, arrival, basket)
        \/ creditDonor(r)
        \/ commitDonation(r)
        \/ \E d \in DonationIds, disposition \in Dispositions : lockDonation(r, d, disposition)
        \/ sortDonation(r)
        \/ commitDisposition(r)
        \/ rollback(r)
    BY DEF GivingNext
  <1>1. ASSUME NEW u \in Donors, NEW d \in DonationIds, NEW category \in Categories,
               NEW arrival \in Arrivals, NEW basket \in Baskets,
               readMaterials(r, u, d, category, arrival, basket)
        PROVE  GivingTypes'
    <2>1. computed(u, category, arrival, basket) \in Gifts
      BY ComputedGift, DonationsAssumption DEF Items
    <2>2. serving' \in [Servers -> Servings]
      BY <1>0, <1>1, <2>1 DEF readMaterials, GivingTypes, Servings
    <2> QED
      BY <1>0, <1>1, <2>2 DEF readMaterials, GivingTypes
  <1>2. CASE creditDonor(r)
    <2>1. serving[r].donation \in DonationIds /\ serving[r].row \in Gifts
      BY <1>0, <1>2, BusySteps DEF creditDonor, Busy
    <2>2. Credited(Running(serving[r].row.user), serving[r].row) \in RewardRows
      BY <1>0, <2>1, RunningRow, CreditedRow DEF Gifts
    <2>3. serving' \in [Servers -> Servings]
      BY <1>0, <1>2, <2>1, <2>2 DEF creditDonor, GivingTypes, Servings, Running
    <2> QED
      BY <1>0, <1>2, <2>3 DEF creditDonor, GivingTypes
  <1>3. CASE commitDonation(r)
    <2>1. /\ serving[r].donation \in DonationIds /\ serving[r].row \in Gifts
          /\ serving[r].rewards \in RewardRows
      <3>1. serving[r].step = "credited" /\ Busy(r)
        BY <1>3 DEF commitDonation, Busy
      <3> QED
        BY <1>0, <3>1, BusySteps
    <2>2. serving' \in [Servers -> Servings]
      <3>1. serving' = [serving EXCEPT ![r] = NotServing] /\ NotServing \in Servings
        BY <1>3 DEF commitDonation, Servings, NotServing
      <3> QED
        BY <1>0, <3>1 DEF GivingTypes
    <2>3. /\ donations' \in [DonationIds -> Gifts \cup {Absent}]
          /\ rewards' \in [Donors -> RewardRows \cup {NoRewards}]
      <3>1. donations' = [donations EXCEPT ![serving[r].donation] = serving[r].row]
            /\ rewards' = [rewards EXCEPT ![serving[r].row.user] = serving[r].rewards]
        BY <1>3 DEF commitDonation
      <3> QED
        BY <1>0, <2>1, <3>1 DEF GivingTypes
    <2>4. transactions' = transactions \cup {[user |-> serving[r].row.user,
                            donation |-> serving[r].donation, points |-> serving[r].row.points]}
      BY <1>3 DEF commitDonation
    <2>5. IsFiniteSet(transactions')
      BY <1>0, <2>4, FS_AddElement DEF GivingTypes
    <2>6. transactions' \subseteq [user : Donors, donation : DonationIds, points : Nat]
      BY <1>0, <2>1, <2>4 DEF GivingTypes, Gifts
    <2> QED
      BY <2>2, <2>3, <2>5, <2>6 DEF GivingTypes
  <1>4. ASSUME NEW d \in DonationIds, NEW disposition \in Dispositions,
               lockDonation(r, d, disposition)
        PROVE  GivingTypes'
    <2>1. donations[d] \in Gifts
      BY <1>0, <1>4 DEF lockDonation, GivingTypes
    <2>2. serving' \in [Servers -> Servings]
      BY <1>0, <1>4, <2>1 DEF lockDonation, GivingTypes, Servings
    <2> QED
      BY <1>0, <1>4, <2>2 DEF lockDonation, GivingTypes
  <1>5. CASE sortDonation(r)
    <2> DEFINE row == serving[r].row
               sorted == Sorted(row, serving[r].disposition)
               new == Adjusted(rewards[row.user], row, sorted)
    <2>1. serving[r].donation \in DonationIds /\ row \in Gifts /\ serving[r].disposition \in Dispositions
      BY <1>0, <1>5, BusySteps DEF sortDonation, Busy
    <2>2. sorted \in Gifts
      BY <2>1, SortedGift
    <2>3. rewards[row.user] \in RewardRows \cup {NoRewards}
      BY <1>0, <2>1 DEF GivingTypes, Gifts
    <2>4. new \in RewardRows \cup {NoRewards}
      <3> HIDE DEF row, sorted
      <3> QED
        BY <2>1, <2>2, <2>3, AdjustedRow
    <2>5. serving' = [serving EXCEPT ![r] =
            [step |-> "sorted", donation |-> serving[r].donation, row |-> sorted, rewards |-> new]]
      BY <1>0, <1>5 DEF sortDonation, GivingTypes
    <2>6. serving' \in [Servers -> Servings]
      <3> HIDE DEF sorted, new
      <3> QED
        BY <1>0, <2>1, <2>2, <2>4, <2>5 DEF GivingTypes, Servings
    <2> QED
      BY <1>0, <1>5, <2>6 DEF sortDonation, GivingTypes
  <1>6. CASE commitDisposition(r)
    <2>1. /\ serving[r].donation \in DonationIds /\ serving[r].row \in Gifts
          /\ serving[r].rewards \in RewardRows \cup {NoRewards}
      BY <1>0, <1>6, BusySteps DEF commitDisposition, Busy
    <2> QED
      BY <1>0, <1>6, <2>1 DEF commitDisposition, GivingTypes, Servings, NotServing
  <1>7. CASE rollback(r)
    BY <1>0, <1>7 DEF rollback, GivingTypes, Servings, NotServing
  <1> QED
    BY <1>1, <1>2, <1>3, <1>4, <1>5, <1>6, <1>7

-----------------------------------------------------------------------------
(* Donations and rewards that do not move.                                  *)
LEMMA MatchesKept ==
    ASSUME NEW u \in Donors, Matches(u), Given(u)' = Given(u), Earned(u)' = Earned(u),
           \A d \in Given(u) : donations'[d] = donations[d], Running(u)' = Running(u)
    PROVE  Matches(u)'
  BY DEF Matches

LEMMA GivenFinite ==
    ASSUME GivingTypes, NEW u \in Donors
    PROVE  IsFiniteSet(Given(u)) /\ IsFiniteSet(Earned(u))
  BY DonationsAssumption, FS_Subset DEF Given, Earned, GivingTypes

LEMMA MatchesAfterDonation ==
    ASSUME GivingInv, NEW r \in Servers, commitDonation(r), NEW u \in Donors
    PROVE  Matches(u)'
  <1> DEFINE d == serving[r].donation
             row == serving[r].row
             t == [user |-> row.user, donation |-> d, points |-> row.points]
  <1>0. GivingTypes /\ Matches(u) /\ StillHolds(r)
    BY DEF GivingInv
  <1>1. d \in DonationIds /\ row \in Gifts /\ serving[r].rewards \in RewardRows
    BY <1>0, BusySteps DEF commitDonation, Busy
  <1>2. /\ donations[d] = Absent /\ serving[r].rewards = Credited(Running(row.user), row)
        /\ Summed(row)
    BY <1>0 DEF commitDonation, StillHolds, Busy
  <1>3. /\ donations' = [donations EXCEPT ![d] = row]
        /\ rewards' = [rewards EXCEPT ![row.user] = serving[r].rewards]
        /\ transactions' = transactions \cup {t}
    BY DEF commitDonation
  <1>4. row # Absent /\ row.user \in Donors /\ serving[r].rewards # NoRewards
    BY <1>1 DEF Gifts, Absent, Arrivals, RewardRows, NoRewards, Levels
  <1>5. CASE u # row.user
    <2>1. Given(u)' = Given(u) /\ \A x \in Given(u) : donations'[x] = donations[x]
      BY <1>0, <1>1, <1>2, <1>3, <1>4, <1>5 DEF Given, GivingTypes
    <2>2. Earned(u)' = Earned(u)
      BY <1>3, <1>5 DEF Earned
    <2>3. Running(u)' = Running(u)
      BY <1>0, <1>3, <1>5 DEF Running, GivingTypes
    <2> QED
      BY <1>0, <2>1, <2>2, <2>3, MatchesKept
  <1>6. CASE u = row.user
    <2> HIDE DEF d, row, t
    <2>1. /\ Given(u)' = Given(u) \cup {d} /\ d \notin Given(u) /\ donations'[d] = row
          /\ \A x \in Given(u) : donations'[x] = donations[x] /\ donations[x] \in Gifts
      BY <1>0, <1>1, <1>2, <1>3, <1>4, <1>6 DEF Given, GivingTypes
    <2>2. /\ Earned(u)' = Earned(u) \cup {t} /\ t \notin Earned(u)
          /\ t.points = row.points /\ row.points \in Nat
          /\ \A x \in Earned(u) : x.points \in Nat
      <3>1. t.donation = d /\ t.user = row.user /\ t.points = row.points
        BY DEF t
      <3>2. t \notin transactions
        BY <1>2, <3>1 DEF GivingInv
      <3> QED
        BY <1>0, <1>1, <1>3, <1>6, <3>1, <3>2 DEF Earned, GivingTypes, Gifts
    <2>3. /\ IsFiniteSet(Given(u)) /\ d \notin Given(u)
          /\ IsFiniteSet(Earned(u)) /\ t \notin Earned(u)
      BY <1>0, <2>1, <2>2, GivenFinite
    <2>4. Running(u)' = Credited(Running(u), row)
      BY <1>0, <1>2, <1>3, <1>4, <1>6 DEF Running, GivingTypes
    <2>5. SumFunction([x \in Given(u)' |-> donations'[x].co2])
            = SumFunction([x \in Given(u) |-> donations[x].co2]) + row.co2
      <3> DEFINE f == [x \in Given(u) |-> donations[x].co2]
                 g == [x \in Given(u) \cup {d} |-> donations'[x].co2]
      <3>1. \A x \in Given(u) : f[x] \in Int
        BY <2>1 DEF Gifts
      <3>2. \A x \in Given(u) : g[x] = f[x]
        BY <2>1
      <3>3. g[d] = row.co2 /\ g[d] \in Int
        BY <1>1, <2>1 DEF Gifts
      <3>4. f \in [Given(u) -> Int] /\ g \in [Given(u) \cup {d} -> Int]
        BY <3>1, <3>2, <3>3
      <3>5. SumFunction(g) = SumFunction(f) + g[d]
        <4> HIDE DEF f, g
        <4> QED
          BY <2>3, <3>2, <3>4, SumGrows
      <3> QED
        BY <2>1, <3>3, <3>5
    <2>6. SumFunction([x \in Given(u)' |-> Total(donations'[x].itemCo2)])
            = SumFunction([x \in Given(u)' |-> donations'[x].co2])
      <3>1. \A x \in Given(u)' : donations'[x].co2 = Total(donations'[x].itemCo2)
        BY <1>2, <2>1 DEF GivingInv, Summed, Given
      <3> QED
        BY <3>1
    <2>7. SumFunction([x \in Given(u)' |-> donations'[x].points])
            = SumFunction([x \in Given(u) |-> donations[x].points]) + row.points
      <3> DEFINE f == [x \in Given(u) |-> donations[x].points]
                 g == [x \in Given(u) \cup {d} |-> donations'[x].points]
      <3>1. \A x \in Given(u) : f[x] \in Int
        BY <2>1 DEF Gifts
      <3>2. \A x \in Given(u) : g[x] = f[x]
        BY <2>1
      <3>3. g[d] = row.points /\ row.points \in Int
        BY <1>1, <2>1 DEF Gifts
      <3>4. f \in [Given(u) -> Int] /\ g \in [Given(u) \cup {d} -> Int]
        BY <3>1, <3>2, <3>3
      <3>5. SumFunction(g) = SumFunction(f) + g[d]
        <4> HIDE DEF f, g
        <4> QED
          BY <2>3, <3>2, <3>4, SumGrows
      <3> QED
        BY <2>1, <3>3, <3>5
    <2>8. SumFunction([x \in Given(u)' |-> Len(donations'[x].items)])
            = SumFunction([x \in Given(u) |-> Len(donations[x].items)]) + Len(row.items)
      <3> DEFINE f == [x \in Given(u) |-> Len(donations[x].items)]
                 g == [x \in Given(u) \cup {d} |-> Len(donations'[x].items)]
      <3>1. \A x \in Given(u) : f[x] \in Int
        BY <2>1 DEF Gifts
      <3>2. \A x \in Given(u) : g[x] = f[x]
        BY <2>1
      <3>3. g[d] = Len(row.items) /\ Len(row.items) \in Int
        BY <1>1, <2>1 DEF Gifts
      <3>4. f \in [Given(u) -> Int] /\ g \in [Given(u) \cup {d} -> Int]
        BY <3>1, <3>2, <3>3
      <3>5. SumFunction(g) = SumFunction(f) + g[d]
        <4> HIDE DEF f, g
        <4> QED
          BY <2>3, <3>2, <3>4, SumGrows
      <3> QED
        BY <2>1, <3>3, <3>5
    <2>9. SumFunction([x \in Earned(u)' |-> x.points])
            = SumFunction([x \in Earned(u) |-> x.points]) + row.points
      <3> DEFINE f == [x \in Earned(u) |-> x.points]
                 g == [x \in Earned(u) \cup {t} |-> x.points]
      <3>1. \A x \in Earned(u) : f[x] \in Int
        BY <2>2
      <3>2. \A x \in Earned(u) : g[x] = f[x]
        OBVIOUS
      <3>3. g[t] = row.points /\ row.points \in Int
        BY <2>2
      <3>4. f \in [Earned(u) -> Int] /\ g \in [Earned(u) \cup {t} -> Int]
        BY <3>1, <3>2, <3>3
      <3>5. SumFunction(g) = SumFunction(f) + g[t]
        <4> HIDE DEF f, g
        <4> QED
          BY <2>3, <3>2, <3>4, SumGrows
      <3> QED
        BY <2>2, <3>3, <3>5
    <2>10. Cardinality(Given(u)') = Cardinality(Given(u)) + 1
      BY <2>1, <2>3, FS_AddElement
    <2> QED
      BY <1>0, <2>4, <2>5, <2>6, <2>7, <2>8, <2>9, <2>10 DEF Matches, Credited
  <1> QED
    BY <1>5, <1>6

LEMMA MatchesAfterDisposition ==
    ASSUME GivingInv, NEW r \in Servers, commitDisposition(r), NEW u \in Donors
    PROVE  Matches(u)'
  <1> DEFINE d == serving[r].donation
             row == serving[r].row
             was == donations[d]
  <1>0. GivingTypes /\ Matches(u) /\ StillHolds(r)
    BY DEF GivingInv
  <1>1. d \in DonationIds /\ row \in Gifts
    BY <1>0, BusySteps DEF commitDisposition, Busy
  <1>2. /\ was # Absent /\ Summed(row)
        /\ \E disposition \in Dispositions : row = Sorted(was, disposition)
        /\ serving[r].rewards = Adjusted(rewards[row.user], was, row)
    BY <1>0 DEF commitDisposition, StillHolds, Busy
  <1>3. /\ donations' = [donations EXCEPT ![d] = row]
        /\ rewards' = [rewards EXCEPT ![row.user] = serving[r].rewards]
        /\ transactions' = transactions
    BY DEF commitDisposition
  <1>4. was \in Gifts /\ row # Absent /\ row.user \in Donors
    BY <1>0, <1>1, <1>2 DEF Gifts, Absent, Arrivals, GivingTypes
  <1>5. /\ row.user = was.user /\ row.items = was.items /\ row.points = was.points
        /\ was.co2 \in Nat /\ row.co2 \in Nat
    <2>1. row.user = was.user /\ row.items = was.items /\ row.points = was.points
      BY <1>2, <1>4, SortedGift
    <2>2. was.co2 \in Nat /\ row.co2 \in Nat
      BY <1>1, <1>4 DEF Gifts
    <2> QED
      BY <2>1, <2>2
  <1> HIDE DEF d, row, was
  <1>6. /\ Given(u)' = Given(u) /\ donations'[d] = row
        /\ \A x \in Given(u) : donations[x] \in Gifts
        /\ \A x \in Given(u) \ {d} : donations'[x] = donations[x]
    BY <1>0, <1>1, <1>2, <1>3, <1>4, <1>5 DEF Given, GivingTypes, was
  <1>7. Earned(u)' = Earned(u)
    BY <1>3 DEF Earned
  <1>8. CASE u # row.user
    <2>1. d \notin Given(u)
      BY <1>5, <1>8 DEF Given, was
    <2>2. Running(u)' = Running(u)
      BY <1>0, <1>3, <1>8 DEF Running, GivingTypes
    <2> QED
      BY <1>0, <1>6, <1>7, <2>1, <2>2, MatchesKept
  <1>9. CASE u = row.user
    <2>1. IsFiniteSet(Given(u)) /\ d \in Given(u)
      BY <1>0, <1>1, <1>2, <1>5, <1>9, GivenFinite DEF Given, was
    <2>2. SumFunction([x \in Given(u) |-> donations'[x].co2])
            = SumFunction([x \in Given(u) |-> donations[x].co2]) - was.co2 + row.co2
      <3> DEFINE f == [x \in Given(u) |-> donations[x].co2]
                 g == [x \in Given(u) |-> donations'[x].co2]
      <3>1. \A x \in Given(u) : f[x] \in Int
        BY <1>6 DEF Gifts
      <3>2. \A x \in Given(u) \ {d} : g[x] = f[x]
        BY <1>6
      <3>3. f[d] = was.co2 /\ g[d] = row.co2 /\ g[d] \in Int
        BY <1>5, <1>6, <2>1 DEF was
      <3>4. f \in [Given(u) -> Int] /\ g \in [Given(u) -> Int]
        BY <3>1, <3>2, <3>3
      <3>5. SumFunction(g) = SumFunction(f) - f[d] + g[d]
        <4> HIDE DEF f, g
        <4> QED
          BY <2>1, <3>2, <3>4, SumChanges
      <3> QED
        BY <3>3, <3>5
    <2>3. /\ SumFunction([x \in Given(u) |-> donations[x].co2]) \in Nat
          /\ SumFunction([x \in Given(u) |-> donations[x].co2]) >= was.co2
      <3> DEFINE f == [x \in Given(u) |-> donations[x].co2]
      <3>1. (\A x \in Given(u) : f[x] \in Nat) /\ f[d] = was.co2 /\ DOMAIN f = Given(u)
        BY <1>6, <2>1 DEF Gifts, was
      <3>2. SumFunctionOnSet(f, Given(u)) \in Nat /\ SumFunctionOnSet(f, Given(u)) >= f[d]
        <4> HIDE DEF f
        <4> QED
          BY ONLY <2>1, <3>1, SumAtLeast, Z3
      <3> QED
        BY <3>1, <3>2 DEF SumFunction
    <2>4. SumFunction([x \in Given(u) |-> Total(donations'[x].itemCo2)])
            = SumFunction([x \in Given(u) |-> donations'[x].co2])
      <3>1. \A x \in Given(u) : donations'[x].co2 = Total(donations'[x].itemCo2)
        BY <1>2, <1>6 DEF GivingInv, Summed, Given
      <3> QED
        BY <3>1
    <2>5. [x \in Given(u) |-> donations'[x].points] = [x \in Given(u) |-> donations[x].points]
      BY <1>5, <1>6 DEF was
    <2>6. [x \in Given(u) |-> Len(donations'[x].items)] = [x \in Given(u) |-> Len(donations[x].items)]
      BY <1>5, <1>6 DEF was
    <2>7. rewards[u] # NoRewards
      <3>1. Cardinality(Given(u)) # 0
        BY <2>1, FS_EmptySet
      <3> QED
        BY <1>0, <3>1 DEF Matches, Running, ZeroRow
    <2>8. rewards[u] \in RewardRows /\ rewards[u] = Running(u) /\ serving[r].rewards # NoRewards
      <3>1. rewards[u] \in RewardRows
        BY <1>0, <2>7 DEF GivingTypes
      <3> QED
        BY <1>2, <1>9, <2>7, <3>1 DEF Running, Adjusted, RewardRows, NoRewards, Levels
    <2>9. Running(u)' = [Running(u) EXCEPT !.co2 = Max({0, @ + (row.co2 - was.co2)})]
      BY <1>0, <1>2, <1>3, <1>9, <2>7, <2>8 DEF Running, Adjusted, GivingTypes
    <2>10. Max({0, Running(u).co2 + (row.co2 - was.co2)}) = Running(u).co2 - was.co2 + row.co2
      <3>1. Running(u).co2 + (row.co2 - was.co2) \in Nat
        BY <1>0, <1>5, <2>3 DEF Matches
      <3>2. Max({0, Running(u).co2 + (row.co2 - was.co2)}) = Running(u).co2 + (row.co2 - was.co2)
        BY <3>1, Floor
      <3>3. Running(u).co2 \in Nat
        BY <1>0, <2>3 DEF Matches
      <3> QED
        BY <1>5, <3>2, <3>3
    <2>11. Running(u)' = [Running(u) EXCEPT !.co2 = Running(u).co2 - was.co2 + row.co2]
      BY <2>9, <2>10
    <2>12. /\ Running(u)'.co2 = Running(u).co2 - was.co2 + row.co2
           /\ Running(u)'.points = Running(u).points /\ Running(u)'.items = Running(u).items
           /\ Running(u)'.donations = Running(u).donations /\ Running(u)'.level = Running(u).level
      BY <2>8, <2>11 DEF RewardRows
    <2> QED
      BY <1>0, <1>6, <1>7, <2>2, <2>4, <2>5, <2>6, <2>12 DEF Matches
  <1> QED
    BY <1>8, <1>9

-----------------------------------------------------------------------------
(* What the others hold stays so, because rows are locked.                   *)
Step(r) ==
    \/ \E u \in Donors, d \in DonationIds, category \in Categories, arrival \in Arrivals,
          basket \in Baskets : readMaterials(r, u, d, category, arrival, basket)
    \/ creditDonor(r)
    \/ commitDonation(r)
    \/ \E d \in DonationIds, disposition \in Dispositions : lockDonation(r, d, disposition)
    \/ sortDonation(r)
    \/ commitDisposition(r)
    \/ rollback(r)

LEMMA OnlyOne ==
    ASSUME GivingTypes, NEW r \in Servers, Step(r), NEW q \in Servers, q # r
    PROVE  serving'[q] = serving[q]
  BY DEF Step, GivingTypes, readMaterials, creditDonor, commitDonation, lockDonation,
         sortDonation, commitDisposition, rollback

LEMMA ApartKept ==
    ASSUME GivingInv, NEW r \in Servers, Step(r)
    PROVE  Apart'
  <1>0. GivingTypes /\ Apart /\ \A q \in Servers : StillHolds(q)
    BY DEF GivingInv
  <1>1. \A q \in Servers \ {r} : serving'[q] = serving[q]
    BY <1>0, OnlyOne
  <1>2. SUFFICES ASSUME NEW q \in Servers, q # r
                 PROVE  /\ (Busy(q) /\ Busy(r) => serving[q].donation # serving[r].donation)'
                        /\ \A u \in Donors : ~(HoldsRewards(q, u) /\ HoldsRewards(r, u))'
    <2>1. \A q, p \in Servers : q # p /\ q # r /\ p # r =>
            /\ (Busy(q) /\ Busy(p) => serving[q].donation # serving[p].donation)'
            /\ \A u \in Donors : ~(HoldsRewards(q, u) /\ HoldsRewards(p, u))'
      BY <1>0, <1>1 DEF Apart, Busy, HoldsRewards
    <2> QED
      BY <1>2, <2>1 DEF Apart
  <1>3. (Busy(q)' <=> Busy(q)) /\ serving'[q] = serving[q]
    BY <1>1, <1>2 DEF Busy
  <1>4. ASSUME NEW u \in Donors, NEW d \in DonationIds, NEW category \in Categories,
               NEW arrival \in Arrivals, NEW basket \in Baskets,
               readMaterials(r, u, d, category, arrival, basket)
        PROVE  /\ (Busy(q) /\ Busy(r) => serving[q].donation # serving[r].donation)'
               /\ \A x \in Donors : ~(HoldsRewards(q, x) /\ HoldsRewards(r, x))'
    <2>1. serving'[r].step = "computed" /\ serving'[r].donation = d
      BY <1>0, <1>4 DEF readMaterials, GivingTypes
    <2>2. Busy(q) => serving[q].donation # d
      BY <1>4 DEF readMaterials
    <2> QED
      BY <1>3, <2>1, <2>2 DEF HoldsRewards
  <1>5. CASE creditDonor(r)
    <2>1. /\ serving'[r].donation = serving[r].donation /\ serving'[r].row = serving[r].row
          /\ Busy(r) /\ serving'[r].step = "credited"
      BY <1>0, <1>5 DEF creditDonor, GivingTypes, Busy
    <2>2. ~HoldsRewards(q, serving[r].row.user)
      BY <1>5 DEF creditDonor, RewardsFree
    <2> QED
      BY <1>0, <1>2, <1>3, <2>1, <2>2 DEF Apart, HoldsRewards
  <1>6. CASE sortDonation(r)
    <2>1. /\ serving'[r].donation = serving[r].donation /\ serving'[r].row.user = serving[r].row.user
          /\ Busy(r) /\ serving'[r].step = "sorted"
      <3>1. serving[r].row \in Gifts /\ serving[r].disposition \in Dispositions
        BY <1>0, <1>6, BusySteps DEF sortDonation, Busy
      <3>2. serving'[r].row = Sorted(serving[r].row, serving[r].disposition)
        BY <1>0, <1>6 DEF sortDonation, GivingTypes
      <3> QED
        BY <1>0, <1>6, <3>1, <3>2, SortedGift DEF sortDonation, GivingTypes, Busy
    <2>2. ~HoldsRewards(q, serving[r].row.user)
      BY <1>6 DEF sortDonation, RewardsFree
    <2> QED
      BY <1>0, <1>2, <1>3, <2>1, <2>2 DEF Apart, HoldsRewards
  <1>7. ASSUME NEW d \in DonationIds, NEW disposition \in Dispositions,
               lockDonation(r, d, disposition)
        PROVE  /\ (Busy(q) /\ Busy(r) => serving[q].donation # serving[r].donation)'
               /\ \A x \in Donors : ~(HoldsRewards(q, x) /\ HoldsRewards(r, x))'
    <2>1. serving'[r].step = "sort" /\ serving'[r].donation = d
      BY <1>0, <1>7 DEF lockDonation, GivingTypes
    <2>2. Busy(q) => serving[q].donation # d
      <3>0. donations[d] # Absent
        BY <1>7 DEF lockDonation
      <3>1. serving[q].step \in {"computed", "credited"} => donations[serving[q].donation] = Absent
        BY <1>0 DEF StillHolds
      <3>2. serving[q].step \in {"sort", "sorted"} => serving[q].donation # d
        BY <1>7 DEF lockDonation, HoldsDonation
      <3> QED
        BY <1>0, <3>0, <3>1, <3>2, BusySteps DEF Busy
    <2> QED
      BY <1>3, <2>1, <2>2 DEF HoldsRewards
  <1>8. CASE commitDonation(r) \/ commitDisposition(r) \/ rollback(r)
    <2>1. serving'[r].step = "idle"
      BY <1>0, <1>8 DEF commitDonation, commitDisposition, rollback, NotServing, GivingTypes
    <2> QED
      BY <1>3, <2>1 DEF HoldsRewards, Busy
  <1> QED
    BY <1>4, <1>5, <1>6, <1>7, <1>8 DEF Step

LEMMA OthersStillHold ==
    ASSUME GivingInv, NEW r \in Servers, Step(r), NEW q \in Servers, q # r
    PROVE  StillHolds(q)'
  <1> DEFINE d == serving[q].donation
             row == serving[q].row
  <1>0. GivingTypes /\ Apart /\ StillHolds(q) /\ StillHolds(r)
    BY DEF GivingInv
  <1>1. serving'[q] = serving[q]
    BY <1>0, OnlyOne
  <1>2. Busy(q) => d \in DonationIds /\ row \in Gifts
    BY <1>0, BusySteps
  <1>3. Busy(q) => donations'[d] = donations[d]
    <2>1. CASE commitDonation(r) \/ commitDisposition(r)
      <3>1. Busy(r) /\ donations' = [donations EXCEPT ![serving[r].donation] = serving[r].row]
        BY <2>1 DEF commitDonation, commitDisposition, Busy
      <3> QED
        BY <1>0, <1>2, <3>1 DEF Apart, GivingTypes
    <2>2. CASE ~(commitDonation(r) \/ commitDisposition(r))
      BY <2>2 DEF Step, readMaterials, creditDonor, lockDonation, sortDonation, rollback
    <2> QED
      BY <2>1, <2>2
  <1>4. serving[q].step \in {"credited", "sorted"} => rewards'[row.user] = rewards[row.user]
    <2> SUFFICES ASSUME serving[q].step \in {"credited", "sorted"}
                 PROVE  rewards'[row.user] = rewards[row.user]
      OBVIOUS
    <2>1. HoldsRewards(q, row.user) /\ row.user \in Donors
      BY <1>2 DEF HoldsRewards, Busy, Gifts
    <2>2. CASE commitDonation(r) \/ commitDisposition(r)
      <3>1. /\ rewards' = [rewards EXCEPT ![serving[r].row.user] = serving[r].rewards]
            /\ HoldsRewards(r, serving[r].row.user)
        BY <2>2 DEF commitDonation, commitDisposition, HoldsRewards
      <3> QED
        BY <1>0, <2>1, <3>1 DEF Apart, GivingTypes
    <2>3. CASE ~(commitDonation(r) \/ commitDisposition(r))
      BY <2>3 DEF Step, readMaterials, creditDonor, lockDonation, sortDonation, rollback
    <2> QED
      BY <2>2, <2>3
  <1>5. CASE Busy(q)
    <2>1. serving'[q] = serving[q] /\ donations'[d] = donations[d]
      BY <1>1, <1>3, <1>5
    <2>2. CASE serving[q].step = "credited"
      BY <1>0, <1>4, <2>1, <2>2 DEF StillHolds, Running, Busy, Summed, Priced
    <2>3. CASE serving[q].step = "sorted"
      <3>1. rewards'[row.user] = rewards[row.user]
        BY <1>4, <2>3
      <3> QED
        BY <1>0, <2>1, <2>3, <3>1 DEF StillHolds, Busy, Summed, Priced
    <2>4. CASE serving[q].step \notin {"credited", "sorted"}
      BY <1>0, <1>5, <2>1, <2>4 DEF StillHolds, Busy, Summed, Priced
    <2> QED
      BY <2>2, <2>3, <2>4
  <1>6. CASE ~Busy(q)
    BY <1>1, <1>6 DEF StillHolds, Busy
  <1> QED
    BY <1>5, <1>6

LEMMA OwnHolds ==
    ASSUME GivingInv, NEW r \in Servers, Step(r)
    PROVE  StillHolds(r)'
  <1>0. GivingTypes /\ StillHolds(r) /\ \A d \in DonationIds : donations[d] # Absent => Summed(donations[d])
    BY DEF GivingInv
  <1>1. ASSUME NEW u \in Donors, NEW d \in DonationIds, NEW category \in Categories,
               NEW arrival \in Arrivals, NEW basket \in Baskets,
               readMaterials(r, u, d, category, arrival, basket)
        PROVE  StillHolds(r)'
    <2>1. Summed(computed(u, category, arrival, basket))
      BY ComputedGift, DonationsAssumption DEF Items
    <2>2. /\ donations' = donations /\ donations[d] = Absent
          /\ serving'[r] = [step |-> "computed", donation |-> d,
                            row |-> computed(u, category, arrival, basket)]
      BY <1>0, <1>1 DEF readMaterials, GivingTypes
    <2>3. Priced(computed(u, category, arrival, basket))
      BY ComputedGift, DonationsAssumption DEF Items, Priced
    <2> QED
      BY <2>1, <2>2, <2>3 DEF StillHolds, Summed, Priced
  <1>2. CASE creditDonor(r)
    <2>1. /\ donations' = donations /\ rewards' = rewards /\ serving[r].step = "computed"
          /\ serving'[r] = [step |-> "credited", donation |-> serving[r].donation, row |-> serving[r].row,
                            rewards |-> Credited(Running(serving[r].row.user), serving[r].row)]
      BY <1>0, <1>2 DEF creditDonor, GivingTypes, Running
    <2>2. /\ Summed(serving[r].row) /\ Priced(serving[r].row)
          /\ donations[serving[r].donation] = Absent
      BY <1>0, <2>1 DEF StillHolds, Busy
    <2> QED
      BY <2>1, <2>2 DEF StillHolds, Summed, Running, Priced
  <1>3. ASSUME NEW d \in DonationIds, NEW disposition \in Dispositions,
               lockDonation(r, d, disposition)
        PROVE  StillHolds(r)'
    <2>1. /\ donations' = donations /\ donations[d] # Absent
          /\ serving'[r] = [step |-> "sort", donation |-> d, row |-> donations[d],
                            disposition |-> disposition]
      BY <1>0, <1>3 DEF lockDonation, GivingTypes
    <2> QED
      BY <1>0, <2>1 DEF StillHolds, Summed
  <1>4. CASE sortDonation(r)
    <2> DEFINE row == serving[r].row
               sorted == Sorted(row, serving[r].disposition)
    <2>1. /\ serving[r].donation \in DonationIds /\ row \in Gifts
          /\ donations[serving[r].donation] = row /\ serving[r].disposition \in Dispositions
      BY <1>0, <1>4, BusySteps DEF sortDonation, Busy, StillHolds
    <2>2. /\ donations' = donations /\ rewards' = rewards
          /\ serving'[r] = [step |-> "sorted", donation |-> serving[r].donation, row |-> sorted,
                            rewards |-> Adjusted(rewards[row.user], row, sorted)]
      BY <1>0, <1>4 DEF sortDonation, GivingTypes
    <2>3. Summed(sorted) /\ sorted.user = row.user /\ row # Absent
      <3>1. Summed(sorted) /\ sorted.user = row.user
        BY <2>1, SortedGift
      <3>2. row # Absent
        BY <2>1 DEF Gifts, Absent, Arrivals
      <3> QED
        BY <3>1, <3>2
    <2>4. \E disposition \in Dispositions : sorted = Sorted(row, disposition)
      BY <2>1
    <2> HIDE DEF sorted, row
    <2>5. /\ serving'[r].step = "sorted" /\ serving'[r].donation = serving[r].donation
          /\ serving'[r].row = sorted
          /\ serving'[r].rewards = Adjusted(rewards[row.user], row, sorted)
      BY <2>2
    <2>6. StillHolds(r)' <=>
            /\ Summed(sorted)
            /\ donations'[serving'[r].donation] # Absent
            /\ \E disposition \in Dispositions :
                 sorted = Sorted(donations'[serving'[r].donation], disposition)
            /\ serving'[r].rewards =
                 Adjusted(rewards'[sorted.user], donations'[serving'[r].donation], sorted)
      BY <2>5 DEF StillHolds, Busy, Summed
    <2> QED
      BY <2>1, <2>2, <2>3, <2>4, <2>5, <2>6
  <1>5. CASE commitDonation(r) \/ commitDisposition(r) \/ rollback(r)
    <2>1. serving'[r].step = "idle"
      BY <1>0, <1>5 DEF commitDonation, commitDisposition, rollback, NotServing, GivingTypes
    <2> QED
      BY <2>1 DEF StillHolds, Busy
  <1> QED
    BY <1>1, <1>2, <1>3, <1>4, <1>5 DEF Step

LEMMA TablesKept ==
    ASSUME GivingInv, NEW r \in Servers, Step(r)
    PROVE  /\ \A d \in DonationIds : donations'[d] # Absent => Summed(donations'[d])
           /\ \A t \in transactions' : donations'[t.donation] # Absent
  <1>0. GivingTypes /\ StillHolds(r)
    BY DEF GivingInv
  <1>1. CASE commitDonation(r) \/ commitDisposition(r)
    <2>1. /\ donations' = [donations EXCEPT ![serving[r].donation] = serving[r].row]
          /\ serving[r].donation \in DonationIds /\ serving[r].row \in Gifts
          /\ Summed(serving[r].row)
      BY <1>0, <1>1, BusySteps DEF commitDonation, commitDisposition, Busy, StillHolds
    <2>2. serving[r].row # Absent
      BY <2>1 DEF Gifts, Absent, Arrivals
    <2>3. \A t \in transactions' : t \in transactions \/ t.donation = serving[r].donation
      BY <1>1 DEF commitDonation, commitDisposition
    <2>4. \A t \in transactions : t.donation \in DonationIds
      BY <1>0 DEF GivingTypes
    <2> QED
      BY <1>0, <2>1, <2>2, <2>3, <2>4 DEF GivingInv, GivingTypes
  <1>2. CASE ~(commitDonation(r) \/ commitDisposition(r))
    BY <1>2 DEF Step, readMaterials, creditDonor, lockDonation, sortDonation, rollback, GivingInv
  <1> QED
    BY <1>1, <1>2

LEMMA MatchesAlways ==
    ASSUME GivingInv, NEW r \in Servers, Step(r), NEW u \in Donors
    PROVE  Matches(u)'
  <1>1. CASE commitDonation(r)
    BY <1>1, MatchesAfterDonation
  <1>2. CASE commitDisposition(r)
    BY <1>2, MatchesAfterDisposition
  <1>3. CASE ~(commitDonation(r) \/ commitDisposition(r))
    <2>1. UNCHANGED <<donations, rewards, transactions>>
      BY <1>3 DEF Step, readMaterials, creditDonor, lockDonation, sortDonation, rollback
    <2> QED
      BY <2>1, MatchesKept DEF Given, Earned, Running, GivingInv
  <1> QED
    BY <1>1, <1>2, <1>3

LEMMA GivingInvariant == GivingSpec => []GivingInv
  <1>1. GivingInit => GivingInv
    BY GivingStart
  <1>2. ASSUME GivingInv, [GivingNext]_givingVars
        PROVE  GivingInv'
    <2>1. CASE GivingNext
      <3>1. PICK r \in Servers : Step(r)
        BY <2>1 DEF GivingNext, Step
      <3>2. GivingTypes' /\ Apart'
        BY <1>2, <2>1, <3>1, TypesKept, ApartKept
      <3>3. \A q \in Servers : StillHolds(q)'
        BY <1>2, <3>1, OwnHolds, OthersStillHold
      <3> QED
        BY <1>2, <3>1, <3>2, <3>3, TablesKept, MatchesAlways DEF GivingInv, Summed
    <2>2. CASE UNCHANGED givingVars
      <3>0. /\ donations' = donations /\ rewards' = rewards
            /\ transactions' = transactions /\ serving' = serving
        BY <2>2 DEF givingVars
      <3>1. GivingTypes' /\ Apart'
        BY <1>2, <3>0 DEF GivingInv, GivingTypes, Apart, Busy, HoldsRewards
      <3>2. \A r \in Servers : StillHolds(r)'
        BY <1>2, <3>0 DEF GivingInv, StillHolds, Busy, Running, Summed
      <3>3. \A u \in Donors : Matches(u)'
        BY <1>2, <3>0, MatchesKept DEF GivingInv, Given, Earned, Running
      <3> QED
        BY <1>2, <3>0, <3>1, <3>2, <3>3 DEF GivingInv, Summed
    <2> QED
      BY <1>2, <2>1, <2>2
  <1> QED
    BY <1>1, <1>2, PTL DEF GivingSpec

(* The totals a donor is shown are those of the donor's donations, for any number of donors,
   donations and requests at once (services/b2cService.js, createDonation and
   recordDonationDisposition). *)
THEOREM TotalsAreSums == GivingSpec => []RewardsMatchDonations
  <1>1. GivingInv => RewardsMatchDonations
    BY DEF GivingInv, Matches, Running, RewardsMatchDonations
  <1> QED
    BY <1>1, GivingInvariant, PTL

LEMMA DonationIsGiven ==
    ASSUME GivingInv, NEW r \in Servers, commitDonation(r)
    PROVE  OneAtATime
  <1> DEFINE d == serving[r].donation
             row == serving[r].row
  <1>0. GivingTypes /\ StillHolds(r)
    BY DEF GivingInv
  <1>1. d \in DonationIds /\ row.user \in Donors
    BY <1>0, BusySteps DEF commitDonation, Busy, Gifts
  <1>2. /\ donations[d] = Absent /\ Priced(row)
        /\ serving[r].rewards = Credited(Running(row.user), row)
    BY <1>0 DEF commitDonation, StillHolds
  <1>3. /\ donations' = [donations EXCEPT ![d] = row]
        /\ rewards' = [rewards EXCEPT ![row.user] = Credited(Running(row.user), row)]
        /\ transactions' = transactions \cup
             {[user |-> row.user, donation |-> d, points |-> row.points]}
    BY <1>2 DEF commitDonation
  <1>4. PICK category \in Categories, arrival \in Arrivals, basket \in Baskets :
          row = computed(row.user, category, arrival, basket)
    BY <1>2 DEF Priced
  <1> HIDE DEF d, row
  <1>5. Give(row.user, d, category, arrival, basket)
    BY <1>2, <1>3, <1>4 DEF Give
  <1> QED
    BY <1>1, <1>5 DEF OneAtATime

LEMMA DispositionIsSorted ==
    ASSUME GivingInv, NEW r \in Servers, commitDisposition(r)
    PROVE  OneAtATime
  <1> DEFINE d == serving[r].donation
             row == serving[r].row
             was == donations[d]
  <1>0. GivingTypes /\ StillHolds(r)
    BY DEF GivingInv
  <1>1. d \in DonationIds /\ row \in Gifts
    BY <1>0, BusySteps DEF commitDisposition, Busy
  <1>2. /\ was # Absent
        /\ \E disposition \in Dispositions : row = Sorted(was, disposition)
        /\ serving[r].rewards = Adjusted(rewards[row.user], was, row)
    BY <1>0 DEF commitDisposition, StillHolds
  <1>3. /\ donations' = [donations EXCEPT ![d] = row]
        /\ rewards' = [rewards EXCEPT ![row.user] = Adjusted(rewards[row.user], was, row)]
        /\ transactions' = transactions
    BY <1>2 DEF commitDisposition
  <1>4. PICK disposition \in Dispositions : row = Sorted(was, disposition)
    BY <1>2
  <1>5. was \in Gifts
    BY <1>0, <1>1, <1>2 DEF GivingTypes
  <1>6. row.user = was.user
    <2> HIDE DEF was, row
    <2> QED
      BY <1>4, <1>5, SortedGift
  <1>7. /\ rewards' = [rewards EXCEPT ![was.user] = Adjusted(rewards[was.user], was, row)]
        /\ donations[d] = was
    BY <1>3, <1>6
  <1> HIDE DEF row, was
  <1>8. Sort(d, disposition)
    BY <1>2, <1>3, <1>4, <1>7 DEF Sort
  <1> QED
    BY <1>1, <1>8 DEF OneAtATime

(* Requests at once leave what they would leave one after the other: every change of the tables
   is a whole donation, or a whole disposition, computed from what is stored when it commits
   (services/b2cService.js, the locks of createDonation and recordDonationDisposition). *)
THEOREM RequestsRunSerially == GivingSpec => RequestsAreSerial
  <1>1. ASSUME GivingInv, [GivingNext]_givingVars
        PROVE  [OneAtATime]_<<donations, rewards, transactions>>
    <2>1. CASE GivingNext
      <3>1. PICK r \in Servers : Step(r)
        BY <2>1 DEF GivingNext, Step
      <3>2. CASE commitDonation(r)
        BY <1>1, <3>2, DonationIsGiven
      <3>3. CASE commitDisposition(r)
        BY <1>1, <3>3, DispositionIsSorted
      <3>4. CASE ~(commitDonation(r) \/ commitDisposition(r))
        BY <3>1, <3>4 DEF Step, readMaterials, creditDonor, lockDonation, sortDonation, rollback
      <3> QED
        BY <3>2, <3>3, <3>4
    <2>2. CASE UNCHANGED givingVars
      BY <2>2 DEF givingVars
    <2> QED
      BY <1>1, <2>1, <2>2
  <1> QED
    BY <1>1, GivingInvariant, PTL DEF GivingSpec, RequestsAreSerial

-----------------------------------------------------------------------------
(* Criticality, for any documents, suppliers, hazards, scenarios, scores and models.    *)

(* What the score under way has read is still there, as rows are never changed.         *)
ScoringRight ==
    /\ scoring \in [step : {"none", "model", "carbon", "subject", "climate", "insert"},
                    subject : Nat, model : Nat, carbon : Nat, relationship : Nat,
                    climate : SUBSET Nat]
    /\ scoring.step \in {"carbon", "subject", "climate", "insert"} => scoring.model \in Rows("model")
    /\ scoring.step = "insert" => SameScenario(ledger, scoring.climate)

(* The members of a portfolio of scores have a model and a scenario in common.           *)
MembersAlike ==
    \A p \in portfolios : p.kind = "criticality" =>
        /\ p.members \subseteq Rows("scored")
        /\ \A i, j \in p.members :
            /\ ledger[i].basis.model = ledger[j].basis.model
            /\ \A c \in ledger[i].basis.climate, d \in ledger[j].basis.climate :
                ledger[c].scenario = ledger[d].scenario

(* A portfolio of climate rows keeps the shares it was made with.                        *)
SharesRight ==
    SharesAddUp /\ \A p \in portfolios : p.kind = "climate" => p.members \subseteq Rows("climate")

CriticalityInv == RowsRight(ledger) /\ ScoringRight /\ MembersAlike /\ SharesRight

LEMMA SequenceOfRange ==
    ASSUME NEW S, NEW s \in Seq(S)
    PROVE  s \in Seq(Range(s))
  <1>1. Len(s) \in Nat /\ s \in [1..Len(s) -> S]
    OBVIOUS
  <1>2. s \in [1..Len(s) -> Range(s)]
    BY <1>1 DEF Range
  <1> QED
    BY <1>1, <1>2

LEMMA LongerLedger ==
    ASSUME NEW rows, rows \in Seq(Range(rows)), NEW row
    PROVE  LET more == Append(rows, row)
           IN  /\ more \in Seq(Range(more)) /\ DOMAIN rows \subseteq Nat
               /\ DOMAIN more = DOMAIN rows \cup {Len(rows) + 1}
               /\ \A i \in DOMAIN rows : more[i] = rows[i]
               /\ more[Len(rows) + 1] = row
  <1> DEFINE S == Range(rows) \cup {row}
             more == Append(rows, row)
  <1>1. rows \in Seq(S)
    OBVIOUS
  <1>2. /\ more \in Seq(S) /\ Len(more) = Len(rows) + 1
        /\ \A i \in 1..Len(rows) : more[i] = rows[i]
        /\ more[Len(rows) + 1] = row /\ DOMAIN rows = 1..Len(rows) /\ DOMAIN more = 1..(Len(rows) + 1)
    <2> HIDE DEF S
    <2> QED
      BY <1>1 DEF S
  <1>3. Len(rows) \in Nat
    BY <1>1
  <1>4. more \in Seq(Range(more))
    <2> HIDE DEF more, S
    <2> QED
      BY <1>2, SequenceOfRange
  <1> QED
    BY <1>2, <1>3, <1>4

(* What is said of rows stays true when a row is added.                               *)
LEMMA ScoredStays ==
    ASSUME NEW rows, rows \in Seq(Range(rows)), NEW row, NEW scored, ScoredRight(rows, scored)
    PROVE  ScoredRight(Append(rows, row), scored)
  <1> DEFINE more == Append(rows, row)
  <1>1. DOMAIN rows \subseteq DOMAIN more /\ \A i \in DOMAIN rows : more[i] = rows[i]
    BY LongerLedger
  <1> HIDE DEF more
  <1>2. ScoredRight(more, scored)
    BY <1>1 DEF ScoredRight, SameScenario
  <1> QED
    BY <1>2 DEF more

LEMMA RowsStay ==
    ASSUME NEW rows, RowsRight(rows), NEW row,
           row.kind = "model" => ModelRight(row.model),
           row.kind = "climate" => row.band \in 1..3 /\ row.percent \in Nat,
           row.kind = "scored" => ScoredRight(rows, row)
    PROVE  RowsRight(Append(rows, row))
  <1> DEFINE more == Append(rows, row)
  <1>1. /\ more \in Seq(Range(more)) /\ DOMAIN more = DOMAIN rows \cup {Len(rows) + 1}
        /\ \A i \in DOMAIN rows : more[i] = rows[i]
        /\ more[Len(rows) + 1] = row
    BY LongerLedger DEF RowsRight
  <1>2. \A scored : ScoredRight(rows, scored) => ScoredRight(more, scored)
    BY ScoredStays DEF RowsRight
  <1> HIDE DEF more
  <1>3. RowsRight(more)
    BY <1>1, <1>2 DEF RowsRight
  <1> QED
    BY <1>3 DEF more

(* A row is added and the score under way stays, or ends.                              *)
LEMMA InsertStep ==
    ASSUME CriticalityInv, NEW row, Insert(row),
           scoring' = scoring \/ scoring' = NoScoring,
           row.kind = "model" => ModelRight(row.model),
           row.kind = "climate" => row.band \in 1..3 /\ row.percent \in Nat,
           row.kind = "scored" => ScoredRight(ledger, row)
    PROVE  CriticalityInv'
  <1>1. ledger' = Append(ledger, row) /\ portfolios' = portfolios
    BY DEF Insert
  <1>2. RowsRight(ledger')
    BY <1>1, RowsStay DEF CriticalityInv
  <1>3. DOMAIN ledger \subseteq DOMAIN ledger' /\ \A i \in DOMAIN ledger : ledger'[i] = ledger[i]
    BY <1>1, LongerLedger DEF CriticalityInv, RowsRight
  <1>4. ScoringRight'
    <2>1. CASE scoring' = scoring
      BY <1>3, <2>1 DEF CriticalityInv, ScoringRight, SameScenario, Rows
    <2>2. CASE scoring' = NoScoring
      BY <2>2 DEF ScoringRight, NoScoring
    <2> QED
      BY <2>1, <2>2
  <1>5. MembersAlike'
    <2> SUFFICES ASSUME NEW p \in portfolios, p.kind = "criticality"
                 PROVE  /\ p.members \subseteq Rows("scored")'
                        /\ \A i, j \in p.members :
                            /\ ledger'[i].basis.model = ledger'[j].basis.model
                            /\ \A c \in ledger'[i].basis.climate, d \in ledger'[j].basis.climate :
                                ledger'[c].scenario = ledger'[d].scenario
      BY <1>1 DEF MembersAlike
    <2>1. p.members \subseteq Rows("scored")
      BY DEF CriticalityInv, MembersAlike
    <2>2. \A i \in p.members : /\ i \in DOMAIN ledger /\ ledger[i].kind = "scored"
                               /\ ledger'[i] = ledger[i]
      BY <1>3, <2>1 DEF Rows
    <2>3. \A i \in p.members : ledger[i].basis.climate \subseteq DOMAIN ledger
      BY <2>2 DEF CriticalityInv, RowsRight, ScoredRight, SameScenario
    <2>4. \A i, j \in p.members :
            /\ ledger[i].basis.model = ledger[j].basis.model
            /\ \A c \in ledger[i].basis.climate, d \in ledger[j].basis.climate :
                ledger[c].scenario = ledger[d].scenario
      BY DEF CriticalityInv, MembersAlike
    <2>5. p.members \subseteq Rows("scored")'
      BY <1>3, <2>2 DEF Rows
    <2>6. ASSUME NEW i \in p.members, NEW j \in p.members,
                 NEW c \in ledger'[i].basis.climate, NEW d \in ledger'[j].basis.climate
          PROVE  ledger'[c].scenario = ledger'[d].scenario
      <3>1. c \in DOMAIN ledger /\ d \in DOMAIN ledger
        BY <2>2, <2>3, <2>6
      <3> QED
        BY <1>3, <2>2, <2>4, <2>6, <3>1
    <2> QED
      BY <2>2, <2>4, <2>5, <2>6
  <1>6. SharesRight'
    <2>1. \A c \in Rows("climate") : c \in Rows("climate")' /\ ledger'[c] = ledger[c]
      BY <1>3 DEF Rows
    <2>2. SharesRight
      BY DEF CriticalityInv
    <2>3. \A p \in portfolios : p.kind = "climate" => \A c \in p.members : c \in Rows("climate")
      BY <2>2 DEF SharesRight
    <2> SUFFICES ASSUME NEW p \in portfolios, p.kind = "climate"
                 PROVE  /\ p.members \subseteq Rows("climate")'
                        /\ p.percents[1] + p.percents[2] + p.percents[3] = 100
                        /\ \A c \in p.members :
                             ledger'[c].band = 3 => p.percents[3] >= ledger'[c].percent
      BY <1>1 DEF SharesRight, SharesAddUp
    <2> QED
      BY <2>1, <2>2, <2>3 DEF SharesRight, SharesAddUp
  <1> QED
    BY <1>2, <1>4, <1>5, <1>6 DEF CriticalityInv

(* A read of the score under way.                                                     *)
LEMMA ReadStep ==
    ASSUME CriticalityInv, UNCHANGED <<ledger, portfolios>>, ScoringRight'
    PROVE  CriticalityInv'
  BY DEF CriticalityInv, MembersAlike, SharesRight, SharesAddUp, Rows

LEMMA ReadsStep ==
    ASSUME CriticalityInv,
           readModel \/ readCarbon \/ _criticalitySubject \/ _criticalityClimate
    PROVE  CriticalityInv'
  <1>1. DOMAIN ledger \subseteq Nat
    <2>1. ledger \in Seq(Range(ledger))
      BY DEF CriticalityInv, RowsRight
    <2> QED
      BY <2>1, LongerLedger
  <1>2. UNCHANGED <<ledger, portfolios>>
    BY DEF readModel, readCarbon, _criticalitySubject, _criticalityClimate, ReadRow
  <1>3. CASE readModel
    <2>1. PICK model \in Rows("model") : ReadRow("model", "carbon", "model", model)
      BY <1>3 DEF readModel
    <2>2. model \in Nat /\ scoring' = [scoring EXCEPT !.step = "carbon", !.model = model]
      BY <1>1, <2>1 DEF ReadRow, Rows
    <2>3. ScoringRight'
      BY <1>2, <2>1, <2>2 DEF CriticalityInv, ScoringRight, Rows
    <2> QED
      BY <1>2, <2>3, ReadStep
  <1>4. CASE readCarbon
    <2>1. PICK carbon \in Rows("carbon") : ReadRow("carbon", "subject", "carbon", carbon)
      BY <1>4 DEF readCarbon
    <2>2. /\ carbon \in Nat /\ scoring.step = "carbon"
          /\ scoring' = [scoring EXCEPT !.step = "subject", !.carbon = carbon]
      BY <1>1, <2>1 DEF ReadRow, Rows
    <2>3. ScoringRight'
      BY <1>2, <2>2 DEF CriticalityInv, ScoringRight, Rows
    <2> QED
      BY <1>2, <2>3, ReadStep
  <1>5. CASE _criticalitySubject
    <2>1. PICK relationship \in Nat : ReadRow("subject", "climate", "relationship", relationship)
      BY <1>1, <1>5 DEF _criticalitySubject, Rows
    <2>2. /\ scoring.step = "subject"
          /\ scoring' = [scoring EXCEPT !.step = "climate", !.relationship = relationship]
      BY <2>1 DEF ReadRow
    <2>3. ScoringRight'
      BY <1>2, <2>2 DEF CriticalityInv, ScoringRight, Rows
    <2> QED
      BY <1>2, <2>3, ReadStep
  <1>6. CASE _criticalityClimate
    <2>1. PICK climate \in SUBSET Rows("climate") :
            /\ Cardinality(climate) \in 1..3 /\ OneScenario(climate)
            /\ ReadRow("climate", "insert", "climate", climate)
      BY <1>6 DEF _criticalityClimate
    <2>2. climate # {}
      BY <2>1, FS_EmptySet
    <2>3. climate \subseteq DOMAIN ledger /\ climate \in SUBSET Nat
      BY <1>1 DEF Rows
    <2>4. /\ scoring.step = "climate"
          /\ scoring' = [scoring EXCEPT !.step = "insert", !.climate = climate]
      BY <2>1 DEF ReadRow
    <2>5. SameScenario(ledger, climate)
      BY <2>1, <2>2, <2>3 DEF SameScenario, OneScenario
    <2>6. ScoringRight'
      BY <1>2, <2>3, <2>4, <2>5 DEF CriticalityInv, ScoringRight, Rows
    <2> QED
      BY <1>2, <2>6, ReadStep
  <1> QED
    BY <1>3, <1>4, <1>5, <1>6

(* The score that is inserted, with a model and climate rows that are still there.        *)
LEMMA CreateCriticalityStep ==
    ASSUME CriticalityInv, createCriticality
    PROVE  CriticalityInv'
  <1> DEFINE model == ledger[scoring.model].model
  <1>1. scoring.step = "insert" /\ scoring' = NoScoring
    BY DEF createCriticality
  <1>2. PICK scores \in [1..3 -> Scores] :
          Insert([kind |-> "scored", basis |-> scoring, score |-> weightedScore(model, scores),
                  band |-> priorityBand(model, scores)])
    BY DEF createCriticality
  <1>3. /\ scoring.model \in DOMAIN ledger /\ ledger[scoring.model].kind = "model"
        /\ SameScenario(ledger, scoring.climate)
    BY <1>1 DEF CriticalityInv, ScoringRight, Rows
  <1>4. ModelRight(model)
    BY <1>3 DEF CriticalityInv, RowsRight
  <1> HIDE DEF model
  <1>5. weightedScore(model, scores) \in Nat
    <2>1. scores[1] \in Nat /\ scores[2] \in Nat /\ scores[3] \in Nat
      <3>1. scores \in [1..3 -> Scores] /\ 1 \in 1..3 /\ 2 \in 1..3 /\ 3 \in 1..3
        BY <1>2
      <3> QED
        BY <3>1, CriticalityAssumption
    <2>2. model.carbon \in Nat /\ model.climate \in Nat /\ model.dependency \in Nat
      BY <1>4, CriticalityAssumption DEF ModelRight
    <2>3. \A m, n \in Nat : m * n \in Nat
      OBVIOUS
    <2>4. \A k, m, n \in Nat : k + m + n \in Nat
      OBVIOUS
    <2> QED
      BY <2>1, <2>2, <2>3, <2>4 DEF weightedScore
  <1>6. priorityBand(model, scores) = bandOf(model, weightedScore(model, scores))
    BY DEF priorityBand, bandOf
  <1> DEFINE row == [kind |-> "scored", basis |-> scoring, score |-> weightedScore(model, scores),
                     band |-> priorityBand(model, scores)]
  <1>7. /\ row.kind = "scored" /\ row.basis = scoring /\ row.score = weightedScore(model, scores)
        /\ row.band = priorityBand(model, scores) /\ Insert(row)
    BY <1>2
  <1> HIDE DEF row
  <1>8. ScoredRight(ledger, row)
    BY <1>3, <1>5, <1>6, <1>7 DEF ScoredRight, model
  <1> QED
    BY <1>1, <1>7, <1>8, InsertStep

(* The loop of createClimatePortfolio leaves a facility with the worst of its bands.      *)
Worse(band, c, facility) ==
    IF Facility(c) = facility /\ ledger[c].band > band THEN ledger[c].band ELSE band

Bands(g, rows, facility, domain) ==
    g = [s \in domain |-> IF s = {} THEN 0
                          ELSE Worse(g[s \ {Max(s)}], rows[Max(s)], facility)]

Loop(rows, facility) == CHOOSE g : Bands(g, rows, facility, SUBSET DOMAIN rows)

LEMMA WorstByLoop ==
    ASSUME NEW rows, NEW facility
    PROVE  Worst(rows, facility) = Loop(rows, facility)[DOMAIN rows]
  BY DEF Worst, FoldLeft, MapThenFoldSet, Loop, Bands, Worse

LEMMA LastPlace ==
    ASSUME NEW n \in Nat, NEW s \in SUBSET (1..n), s # {}
    PROVE  /\ Max(s) \in s /\ s \ {Max(s)} \in SUBSET (1..n)
           /\ Cardinality(s) \in Nat \ {0} /\ Cardinality(s \ {Max(s)}) = Cardinality(s) - 1
  <1>0. IsFiniteSet(1..n)
    BY FS_Interval
  <1>1. IsFiniteSet(s)
    BY <1>0, FS_Subset
  <1>2. \E x \in s : \A y \in s : x >= y
    <2> DEFINE Above == {k \in Nat : \A y \in s : y <= k}
    <2>1. n \in Above
      OBVIOUS
    <2>2. PICK k \in Above : \A m \in Above : k <= m
      BY <2>1, SmallestNumber
    <2>3. k \in s
      <3> SUFFICES ASSUME k \notin s PROVE FALSE
        OBVIOUS
      <3>1. \A y \in s : y <= k - 1 /\ y \in Nat /\ y >= 1
        BY <2>2
      <3>2. k - 1 \in Nat
        <4>1. PICK y \in s : TRUE
          OBVIOUS
        <4> QED
          BY <2>2, <3>1, <4>1
      <3>3. k - 1 \in Above
        BY <3>1, <3>2
      <3> QED
        BY <2>2, <3>3
    <2> QED
      BY <2>2, <2>3
  <1>3. Max(s) \in s
    BY <1>2 DEF Max
  <1> QED
    BY <1>1, <1>3, FS_RemoveElement, FS_CardinalityType, FS_EmptySet

LEMMA LoopExtends ==
    ASSUME NEW n \in Nat, NEW rows, NEW facility, NEW k \in Nat \ {0},
           NEW g, Bands(g, rows, facility, Small(1..n, k - 1))
    PROVE  \E h : Bands(h, rows, facility, Small(1..n, k))
  <1> DEFINE h == [s \in Small(1..n, k) |-> IF s = {} THEN 0
                          ELSE Worse(g[s \ {Max(s)}], rows[Max(s)], facility)]
  <1>1. \A s \in Small(1..n, k - 1) : s \in Small(1..n, k) /\ h[s] = g[s]
    <2> TAKE s \in Small(1..n, k - 1)
    <2>1. s \in SUBSET (1..n) /\ Cardinality(s) <= k - 1
      BY DEF Small
    <2>2. Cardinality(s) \in Nat
      <3>1. IsFiniteSet(1..n)
        BY FS_Interval
      <3> QED
        BY <2>1, <3>1, FS_Subset, FS_CardinalityType
    <2>3. s \in Small(1..n, k)
      BY <2>1, <2>2 DEF Small
    <2> QED
      BY <2>3 DEF Bands
  <1>2. \A s \in Small(1..n, k) : s # {} => s \ {Max(s)} \in Small(1..n, k - 1)
    <2> HIDE DEF h
    <2> TAKE s \in Small(1..n, k)
    <2> HAVE s # {}
    <2>1. s \in SUBSET (1..n) /\ Cardinality(s) <= k
      BY DEF Small
    <2>2. /\ s \ {Max(s)} \in SUBSET (1..n) /\ Cardinality(s) \in Nat
          /\ Cardinality(s \ {Max(s)}) = Cardinality(s) - 1
      BY <2>1, LastPlace
    <2> QED
      BY <2>1, <2>2 DEF Small
  <1>3. Bands(h, rows, facility, Small(1..n, k))
    BY <1>1, <1>2 DEF Bands
  <1> QED
    BY <1>3

LEMMA LoopExists ==
    ASSUME NEW rows, NEW n \in Nat, DOMAIN rows = 1..n, NEW facility
    PROVE  Bands(Loop(rows, facility), rows, facility, SUBSET (1..n))
  <1> DEFINE Missing == {k \in Nat : ~\E g : Bands(g, rows, facility, Small(1..n, k))}
  <1>0. IsFiniteSet(1..n)
    BY FS_Interval
  <1>1. 0 \notin Missing
    <2>1. Small(1..n, 0) = {{}}
      BY <1>0, FS_Subset, FS_EmptySet, FS_CardinalityType DEF Small
    <2>2. Bands([s \in {{}} |-> 0], rows, facility, Small(1..n, 0))
      BY <2>1 DEF Bands
    <2> QED
      BY <2>2
  <1>2. Missing = {}
    <2> SUFFICES ASSUME Missing # {} PROVE FALSE
      OBVIOUS
    <2>1. PICK k \in Missing : \A m \in Missing : k <= m
      BY SmallestNumber
    <2>2. PICK g : Bands(g, rows, facility, Small(1..n, k - 1))
      BY <1>1, <2>1
    <2> QED
      BY <1>1, <2>1, <2>2, LoopExtends
  <1>3. PICK g : Bands(g, rows, facility, Small(1..n, Cardinality(1..n)))
    BY <1>0, <1>2, FS_CardinalityType
  <1>4. Small(1..n, Cardinality(1..n)) = SUBSET (1..n)
    BY <1>0, FS_Subset DEF Small
  <1> QED
    BY <1>3, <1>4 DEF Loop

LEMMA WorstBand ==
    ASSUME NEW rows, NEW n \in Nat, DOMAIN rows = 1..n, NEW facility,
           \A i \in 1..n : ledger[rows[i]].band \in 1..3
    PROVE  /\ Worst(rows, facility) \in 0..3
           /\ \A i \in 1..n : Facility(rows[i]) = facility =>
                Worst(rows, facility) >= ledger[rows[i]].band
  <1> DEFINE g == Loop(rows, facility)
             Right(s) == /\ g[s] \in 0..3
                         /\ \A i \in s : Facility(rows[i]) = facility => g[s] >= ledger[rows[i]].band
             Bad == {s \in SUBSET (1..n) : ~Right(s)}
  <1>0. Bands(g, rows, facility, SUBSET (1..n))
    BY LoopExists
  <1>1. IsFiniteSet(1..n)
    BY FS_Interval
  <1> HIDE DEF g
  <1>2. Bad = {}
    <2> SUFFICES ASSUME Bad # {} PROVE FALSE
      OBVIOUS
    <2>1. PICK s \in Bad : \A t \in Bad : Cardinality(s) <= Cardinality(t)
      <3>1. Bad \in SUBSET SUBSET (1..n)
        OBVIOUS
      <3> HIDE DEF Bad
      <3> QED
        BY <1>1, <3>1, SmallestSubset
    <2>2. s # {}
      BY <1>0, <2>1 DEF Bands
    <2> DEFINE top == Max(s)
               below == s \ {Max(s)}
    <2>3. /\ top \in s /\ below \in SUBSET (1..n)
          /\ Cardinality(s) \in Nat /\ Cardinality(below) = Cardinality(s) - 1
      BY <2>2, LastPlace
    <2>4. Right(below)
      <3>1. ~(Cardinality(s) <= Cardinality(below))
        BY <2>3
      <3>2. below \notin Bad
        BY <2>1, <3>1
      <3> QED
        BY <2>3, <3>2
    <2>5. g[s] = Worse(g[below], rows[top], facility)
      BY <1>0, <2>2 DEF Bands
    <2>6. \A i \in s : i = top \/ i \in below
      OBVIOUS
    <2> HIDE DEF top, below
    <2>7. ledger[rows[top]].band \in 1..3
      BY <2>3
    <2>8. g[s] \in 0..3 /\ g[s] >= g[below]
          /\ (Facility(rows[top]) = facility => g[s] >= ledger[rows[top]].band)
      BY <2>4, <2>5, <2>7 DEF Worse
    <2>9. \A i \in s : Facility(rows[i]) = facility => g[s] >= ledger[rows[i]].band
      <3> TAKE i \in s
      <3> HAVE Facility(rows[i]) = facility
      <3>1. CASE i = top
        BY <2>8, <3>1
      <3>2. CASE i \in below
        <4>1. g[below] >= ledger[rows[i]].band /\ ledger[rows[i]].band \in 1..3 /\ g[below] \in 0..3
          BY <2>4, <3>2
        <4> QED
          BY <2>8, <4>1
      <3> QED
        BY <2>6, <3>1, <3>2
    <2> QED
      BY <2>8, <2>9
  <1>3. Right(1..n)
    BY <1>2
  <1>4. Worst(rows, facility) = g[1..n]
    BY WorstByLoop DEF g
  <1> QED
    BY <1>3, <1>4

(* The shares of a new portfolio of climate rows.                                       *)
LEMMA ClimatePortfolioStep ==
    ASSUME RowsRight(ledger), SharesRight, createClimatePortfolio
    PROVE  SharesRight'
  <1>1. PICK members \in SUBSET {c \in Rows("climate") : ledger[ledger[c].subject].kind = "facility"} :
          LET facilities == {Facility(c) : c \in members}
              percent == [f \in facilities |-> PercentOf(members, f)]
          IN  /\ \A c, d \in members : c # d /\ Facility(c) = Facility(d) =>
                   ledger[c].percent = ledger[d].percent
              /\ SumFunctionOnSet(percent, facilities) = 100
              /\ \E rows \in SetToSeqs(members) :
                   portfolios' = portfolios \cup
                     {[kind |-> "climate", members |-> members,
                       percents |-> [b \in 1..3 |->
                         SumFunctionOnSet(percent, {f \in facilities : Worst(rows, f) = b})]]}
    BY ZenonT(30) DEF createClimatePortfolio
  <1> DEFINE facilities == {Facility(c) : c \in members}
             percent == [f \in facilities |-> PercentOf(members, f)]
  <1>2. PICK rows \in SetToSeqs(members) :
          portfolios' = portfolios \cup
            {[kind |-> "climate", members |-> members,
              percents |-> [b \in 1..3 |->
                SumFunctionOnSet(percent, {f \in facilities : Worst(rows, f) = b})]]}
    BY <1>1
  <1>3. /\ \A c, d \in members : Facility(c) = Facility(d) => ledger[c].percent = ledger[d].percent
        /\ SumFunctionOnSet(percent, facilities) = 100
    BY <1>1
  <1>4. ledger' = ledger
    BY DEF createClimatePortfolio
  <1>5. members \subseteq Rows("climate")
        /\ \A c \in members : ledger[c].band \in 1..3 /\ ledger[c].percent \in Nat
    BY DEF Rows, RowsRight
  <1>6. IsFiniteSet(members)
    <2>1. ledger \in Seq(Range(ledger))
      BY DEF RowsRight
    <2>2. DOMAIN ledger = 1..Len(ledger) /\ Len(ledger) \in Nat
      BY <2>1
    <2>3. IsFiniteSet(DOMAIN ledger) /\ members \subseteq DOMAIN ledger
      BY <1>5, <2>2, FS_Interval DEF Rows
    <2> QED
      BY <2>3, FS_Subset
  <1> HIDE DEF percent
  <1>7. IsFiniteSet(facilities)
    <2> DEFINE place == [c \in members |-> Facility(c)]
    <2>1. place \in Surjection(members, facilities)
      BY DEF Surjection
    <2> HIDE DEF facilities, place
    <2> QED
      BY <1>6, <2>1, FS_Surjection
  <1>8. \A f \in facilities : percent[f] \in Nat
    BY <1>5 DEF percent, PercentOf
  <1>9. \A c \in members : percent[Facility(c)] = ledger[c].percent
    BY <1>3 DEF percent, PercentOf
  <1> DEFINE n == Cardinality(members)
  <1>10. n \in Nat /\ DOMAIN rows = 1..n /\ \A i \in 1..n : rows[i] \in members
    BY <1>6, FS_CardinalityType DEF SetToSeqs
  <1>11. \A c \in members : \E i \in 1..n : rows[i] = c
    <2>1. rows \in Injection(1..n, members)
      BY DEF SetToSeqs, Injection, IsInjective
    <2>2. Cardinality(1..n) = Cardinality(members)
      BY <1>10, FS_Interval
    <2>3. rows \in Surjection(1..n, members)
      BY <1>6, <2>1, <2>2, FS_Injection
    <2> QED
      BY <2>3 DEF Surjection
  <1>12. \A i \in 1..n : ledger[rows[i]].band \in 1..3
    BY <1>5, <1>10
  <1>13. \A f \in facilities : Worst(rows, f) \in 0..3
    <2> HIDE DEF facilities, n
    <2> QED
      BY <1>10, <1>12, WorstBand
  <1>14. \A c \in members : Worst(rows, Facility(c)) >= ledger[c].band
    <2> HIDE DEF facilities, n
    <2> QED
      BY <1>10, <1>11, <1>12, WorstBand
  <1> DEFINE Of(b) == {f \in facilities : Worst(rows, f) = b}
  <1>15. \A f \in facilities : Worst(rows, f) \in 1..3
    <2> TAKE f \in facilities
    <2>1. PICK c \in members : Facility(c) = f
      OBVIOUS
    <2>2. Worst(rows, f) >= ledger[c].band /\ ledger[c].band \in 1..3 /\ Worst(rows, f) \in 0..3
      BY <1>5, <1>13, <1>14, <2>1
    <2> QED
      BY <2>2
  <1> HIDE DEF facilities, n
  <1>16. SumFunctionOnSet(percent, Of(1)) + SumFunctionOnSet(percent, Of(2))
           + SumFunctionOnSet(percent, Of(3)) = 100
    <2>1. facilities \ Of(1) = Of(2) \cup Of(3) /\ (Of(2) \cup Of(3)) \ Of(2) = Of(3)
      BY <1>15
    <2>2. SumFunctionOnSet(percent, facilities)
            = SumFunctionOnSet(percent, Of(1)) + SumFunctionOnSet(percent, Of(2) \cup Of(3))
      BY <1>7, <1>8, <2>1, SumOfParts
    <2>3. IsFiniteSet(Of(2) \cup Of(3)) /\ \A f \in Of(2) \cup Of(3) : percent[f] \in Int
      BY <1>7, <1>8, FS_Subset
    <2>4. SumFunctionOnSet(percent, Of(2) \cup Of(3))
            = SumFunctionOnSet(percent, Of(2)) + SumFunctionOnSet(percent, Of(3))
      BY <2>1, <2>3, SumOfParts
    <2>5. \A b \in 1..3 : SumFunctionOnSet(percent, Of(b)) \in Int
      <3> TAKE b \in 1..3
      <3>1. IsFiniteSet(Of(b)) /\ \A f \in Of(b) : percent[f] \in Int
        BY <1>7, <1>8, FS_Subset
      <3> QED
        BY <3>1, SumIsNumber
    <2> QED
      BY <1>3, <2>2, <2>4, <2>5
  <1>17. \A c \in members : ledger[c].band = 3 =>
           SumFunctionOnSet(percent, Of(3)) >= ledger[c].percent
    <2> TAKE c \in members
    <2> HAVE ledger[c].band = 3
    <2>1. Facility(c) \in facilities
      BY DEF facilities
    <2>2. Worst(rows, Facility(c)) = 3
      BY <1>13, <1>14, <2>1
    <2>3. Facility(c) \in Of(3) /\ IsFiniteSet(Of(3)) /\ \A f \in Of(3) : percent[f] \in Nat
      BY <1>7, <1>8, <2>1, <2>2, FS_Subset
    <2>4. SumFunctionOnSet(percent, Of(3)) >= percent[Facility(c)]
      BY <2>3, SumAtLeast
    <2> QED
      BY <1>9, <2>4
  <1> DEFINE made == [kind |-> "climate", members |-> members,
                      percents |-> [b \in 1..3 |-> SumFunctionOnSet(percent, Of(b))]]
  <1>18. portfolios' = portfolios \cup {made}
    BY <1>2 DEF facilities
  <1>19. /\ made.members = members /\ made.percents[1] = SumFunctionOnSet(percent, Of(1))
         /\ made.percents[2] = SumFunctionOnSet(percent, Of(2))
         /\ made.percents[3] = SumFunctionOnSet(percent, Of(3))
    OBVIOUS
  <1> HIDE DEF made, Of
  <1>20. \A p \in portfolios' : p.kind = "climate" => p.members \subseteq Rows("climate")'
    BY <1>4, <1>5, <1>18, <1>19 DEF SharesRight, Rows
  <1>21. SharesAddUp'
    BY <1>4, <1>16, <1>17, <1>18, <1>19 DEF SharesRight, SharesAddUp
  <1> QED
    BY <1>20, <1>21 DEF SharesRight

LEMMA PortfolioStep ==
    ASSUME CriticalityInv, createPortfolio \/ createClimatePortfolio
    PROVE  CriticalityInv'
  <1>1. UNCHANGED <<ledger, scoring>>
    BY DEF createPortfolio, createClimatePortfolio
  <1>2. CASE createPortfolio
    <2>1. PICK members \in SUBSET Rows("scored"), first \in Rows("scored") :
            /\ first \in members /\ \A i \in members : Comparable(first, i)
            /\ portfolios' = portfolios \cup {[kind |-> "criticality", members |-> members]}
      BY <1>2 DEF createPortfolio
    <2>2. PICK h \in ledger[first].basis.climate : TRUE
      BY <2>1 DEF Rows, CriticalityInv, RowsRight, ScoredRight, SameScenario
    <2>3. \A i \in members : /\ ledger[i].basis.model = ledger[first].basis.model
                             /\ \A c \in ledger[i].basis.climate : ledger[c].scenario = ledger[h].scenario
      BY <2>1, <2>2 DEF Comparable
    <2>4. MembersAlike'
      BY <1>1, <2>1, <2>3 DEF MembersAlike, CriticalityInv, Rows
    <2>5. SharesRight'
      BY <1>1, <2>1 DEF SharesRight, SharesAddUp, CriticalityInv, Rows
    <2> QED
      BY <1>1, <2>4, <2>5 DEF CriticalityInv, ScoringRight, Rows
  <1>3. CASE createClimatePortfolio
    <2>1. \A p \in portfolios' \ portfolios : p.kind # "criticality"
      BY <1>3 DEF createClimatePortfolio
    <2>2. MembersAlike'
      BY <1>1, <2>1 DEF MembersAlike, CriticalityInv, Rows
    <2>3. SharesRight'
      BY <1>3, ClimatePortfolioStep DEF CriticalityInv
    <2> QED
      BY <1>1, <2>2, <2>3 DEF CriticalityInv, ScoringRight, Rows
  <1> QED
    BY <1>2, <1>3

(* The rows that are written alone: models are right, and none is a score.                *)
LEMMA WrittenAloneStep ==
    ASSUME CriticalityInv,
           \/ createProfile \/ createSite \/ createLocation \/ createRelationship
           \/ createSupplierClimate \/ createAssessment \/ createCarbonSnapshot \/ createModel
    PROVE  CriticalityInv'
  <1>1. ASSUME NEW row, Insert(row), UNCHANGED scoring, row.kind \notin {"model", "scored", "climate"}
        PROVE  CriticalityInv'
    BY <1>1, InsertStep
  <1>2. CASE createProfile
    <2>1. PICK reference \in Suppliers, document \in controlled :
            Insert([kind |-> "supplier", reference |-> reference, document |-> document])
      BY <1>2 DEF createProfile
    <2> QED
      BY <1>1, <1>2, <2>1 DEF createProfile
  <1>3. ASSUME NEW kind, Place(kind) PROVE CriticalityInv'
    <2>1. PICK subject \in Rows(kind), document \in controlled :
            Insert([kind |-> "place", subject |-> subject, document |-> document])
      BY <1>3 DEF Place
    <2> QED
      BY <1>1, <1>3, <2>1 DEF Place
  <1>4. CASE createRelationship
    <2>1. PICK subject \in Rows("supplier"), document \in controlled, effective \in BOOLEAN :
            Insert([kind |-> "relationship", subject |-> subject, document |-> document,
                    effective |-> effective])
      BY <1>4 DEF createRelationship
    <2> QED
      BY <1>1, <1>4, <2>1 DEF createRelationship
  <1>5. ASSUME NEW kind, NEW said \in climateAssessment \cup assessment, Climate(kind, said)
        PROVE  CriticalityInv'
    <2>1. PICK place \in Rows("place"), document \in controlled :
            Insert([kind |-> "climate", subject |-> ledger[place].subject, place |-> place,
                    document |-> document, hazard |-> said.hazard,
                    scenario |-> said.scenario, band |-> said.band,
                    percent |-> said.percent])
      BY <1>5 DEF Climate
    <2>2. said.band \in 1..3 /\ said.percent \in Nat
      <3>1. CASE said \in climateAssessment
        BY <3>1 DEF climateAssessment
      <3>2. CASE said \in assessment
        BY <3>2, CriticalityAssumption DEF assessment
      <3> QED
        BY <1>5, <3>1, <3>2
    <2> QED
      BY <1>5, <2>1, <2>2, InsertStep DEF Climate
  <1>6. CASE createCarbonSnapshot
    <2>1. PICK subject \in Subjects, document \in controlled, covers \in BOOLEAN :
            Insert([kind |-> "carbon", subject |-> subject, document |-> document, covers |-> covers])
      BY <1>6 DEF createCarbonSnapshot
    <2> QED
      BY <1>1, <1>6, <2>1 DEF createCarbonSnapshot
  <1>7. CASE createModel
    <2>1. PICK model \in Models, document \in controlled, approved \in BOOLEAN :
            /\ criticalityModel(model)
            /\ Insert([kind |-> "model", model |-> model, document |-> document, approved |-> approved])
      BY <1>7 DEF createModel
    <2>2. ModelRight(model)
      BY <2>1 DEF ModelRight
    <2> QED
      BY <1>7, <2>1, <2>2, InsertStep DEF createModel
  <1> QED
    BY <1>2, <1>3, <1>4, <1>5, <1>6, <1>7
       DEF createSite, createLocation, createSupplierClimate, createAssessment

(* Both kinds of portfolio compare like with like, whatever rows are added and however the   *)
(* documents change between the reads of a score, for any scores, models, percentages and    *)
(* bands. Every score is banded by the model it names, and the members of a portfolio of      *)
(* scores name the same one; the shares of a portfolio of climate rows are those of its        *)
(* facilities, each in one band, so that they add up to 100 as the request was asked to, and   *)
(* no band of a facility is worse than the one its share counts in.                          *)
THEOREM PortfoliosAreComparable == CriticalitySpec => []PortfoliosCompare
  <1>1. CriticalityInit => CriticalityInv
    BY LedgerAssumption
       DEF CriticalityInit, CriticalityInv, ScoringRight, NoScoring, MembersAlike,
           SharesRight, SharesAddUp
  <1>2. CriticalityInv /\ [CriticalityNext]_criticalityVars => CriticalityInv'
    <2> SUFFICES ASSUME CriticalityInv, [CriticalityNext]_criticalityVars PROVE CriticalityInv'
      OBVIOUS
    <2>1. CASE UNCHANGED <<ledger, scoring, portfolios>>
      BY <2>1 DEF CriticalityInv, ScoringRight, MembersAlike, SharesRight, SharesAddUp, Rows
    <2>2. CASE BeginCriticality
      <3>1. DOMAIN ledger \subseteq Nat
        <4>1. ledger \in Seq(Range(ledger))
          BY DEF CriticalityInv, RowsRight
        <4> QED
          BY <4>1, LongerLedger
      <3>2. PICK subject \in Nat :
              scoring' = [NoScoring EXCEPT !.step = "model", !.subject = subject]
        BY <2>2, <3>1 DEF BeginCriticality, Subjects, Rows
      <3>3. ScoringRight'
        BY <3>2 DEF ScoringRight, NoScoring
      <3> QED
        BY <2>2, <3>3, ReadStep DEF BeginCriticality
    <2>3. CASE refuseCriticality
      <3>1. ScoringRight'
        BY <2>3 DEF refuseCriticality, ScoringRight, NoScoring
      <3> QED
        BY <2>3, <3>1, ReadStep DEF refuseCriticality
    <2>4. CASE createCriticality
      BY <2>4, CreateCriticalityStep
    <2> QED
      BY <2>1, <2>2, <2>3, <2>4, ReadsStep, PortfolioStep, WrittenAloneStep
         DEF CriticalityNext, ChangeDocument, criticalityVars
  <1>3. CriticalityInv => ScoresCompare
    <2> SUFFICES ASSUME CriticalityInv, NEW p \in portfolios, p.kind = "criticality"
                 PROVE  /\ \A i, j \in p.members :
                            ledger[i].score > ledger[j].score => ledger[i].band >= ledger[j].band
                        /\ OneScenario(UNION {ledger[i].basis.climate : i \in p.members})
      BY DEF ScoresCompare
    <2>1. /\ p.members \subseteq Rows("scored")
          /\ \A i, j \in p.members :
              /\ ledger[i].basis.model = ledger[j].basis.model
              /\ \A c \in ledger[i].basis.climate, d \in ledger[j].basis.climate :
                  ledger[c].scenario = ledger[d].scenario
      BY DEF CriticalityInv, MembersAlike
    <2>2. ASSUME NEW i \in p.members, NEW j \in p.members, ledger[i].score > ledger[j].score
          PROVE  ledger[i].band >= ledger[j].band
      <3>1. ScoredRight(ledger, ledger[i]) /\ ScoredRight(ledger, ledger[j])
        BY <2>1 DEF Rows, CriticalityInv, RowsRight
      <3>2. PICK model : model = ledger[ledger[i].basis.model].model
        OBVIOUS
      <3>3. ModelRight(model)
        BY <3>1, <3>2 DEF ScoredRight, CriticalityInv, RowsRight
      <3>4. model = ledger[ledger[j].basis.model].model
        BY <2>1, <3>2
      <3>5. /\ ledger[i].score \in Nat /\ ledger[i].band = bandOf(model, ledger[i].score)
            /\ ledger[j].score \in Nat /\ ledger[j].band = bandOf(model, ledger[j].score)
        BY <3>1, <3>2, <3>4 DEF ScoredRight
      <3>6. \A m, n \in Nat : m > n => bandOf(model, m) >= bandOf(model, n)
        <4>1. model.medium \in Nat /\ model.high \in Nat
          BY <3>3, CriticalityAssumption DEF ModelRight
        <4>2. model.medium < model.high
          BY <3>3 DEF ModelRight, criticalityModel
        <4> QED
          BY <4>1, <4>2 DEF bandOf
      <3> QED
        BY <2>2, <3>5, <3>6
    <2>3. OneScenario(UNION {ledger[i].basis.climate : i \in p.members})
      BY <2>1 DEF OneScenario
    <2> QED
      BY <2>2, <2>3
  <1>4. CriticalityInv => PortfoliosCompare
    BY <1>3 DEF CriticalityInv, SharesRight, PortfoliosCompare
  <1> QED
    BY <1>1, <1>2, <1>4, PTL DEF CriticalitySpec

=============================================================================
