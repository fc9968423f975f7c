------------------------------ MODULE Logistics ------------------------------
(***************************************************************************)
(* The status of a shipment. It is moved by people, or simulated: a clock     *)
(* (pending_until, estimated_arrival_at) says what it is, and every request    *)
(* that lists or shows shipments first writes what the clocks say            *)
(* (syncCompanyShipmentSimulation), over a reading it has taken without a      *)
(* lock. Creation and edits compute the clock anew; so does an update of the   *)
(* product shipped. Hours, distances and countries only decide what the clock  *)
(* is, and how long a transit takes is a choice; weights, emissions, legs and   *)
(* dates of arrival are left out. A step is a statement, or a transaction      *)
(* that holds the row.                                                       *)
(***************************************************************************)
EXTENDS Naturals

CONSTANTS
    Consignments, Callers,
    MaxTime              \* bound of the clock

VARIABLES
    now,
    shipments,   \* shipments[s]: its status and its clock; 0 stands for NULL
    call      \* request[r]: the statement that is next and what it has read

logisticsVars == <<now, shipments, call>>

Statuses == {"pending", "in_transit", "delivered", "cancelled"}
NoTime == 0

Off == [simulated |-> FALSE, pendingUntil |-> NoTime, arrival |-> NoTime]
Unset == [simulated |-> TRUE, pendingUntil |-> NoTime, arrival |-> NoTime]  \* the column's default
On(until) == {[simulated |-> TRUE, pendingUntil |-> until, arrival |-> t] : t \in until + 1 .. MaxTime + 1}

ShipmentRow(status, clock) == [status |-> status, clock |-> clock]
NoShipment == ShipmentRow("none", Off)
Present(s) == shipments[s].status \in Statuses

NoCall == [step |-> "idle", rows |-> [s \in Consignments |-> NoShipment], at |-> 0]

LogisticsInit ==
    /\ now = 0
    /\ shipments = [s \in Consignments |-> NoShipment]
    /\ call = [r \in Callers |-> NoCall]

Tick == now < MaxTime /\ now' = now + 1 /\ UNCHANGED <<shipments, call>>

Put(s, row) == shipments' = [shipments EXCEPT ![s] = row]
Resume(r, state) == call' = [call EXCEPT ![r] = state]

-----------------------------------------------------------------------------
(* The clock. A time until which a shipment is pending is kept; a new one is   *)
(* random, counted from the creation, which may be long past. Without legs or   *)
(* distances, or for a demo user, there is no clock.                         *)

buildShipmentSimulationState(clock) ==
    {Off} \cup (IF clock.pendingUntil = NoTime THEN UNION {On(until) : until \in 1..MaxTime}
                ELSE On(clock.pendingUntil))

resolveEffectiveShipmentStatus(row, t) ==
    IF row.status \in {"cancelled", "delivered"} \/ ~row.clock.simulated
       \/ NoTime \in {row.clock.pendingUntil, row.clock.arrival} THEN row.status
    ELSE IF t >= row.clock.arrival THEN "delivered"
    ELSE IF t >= row.clock.pendingUntil THEN "in_transit"
    ELSE "pending"

\* syncShipmentSimulationById, in the transaction that holds the row.
Synced(status, clock) ==
    ShipmentRow(resolveEffectiveShipmentStatus(ShipmentRow(status, clock), now), clock)

-----------------------------------------------------------------------------
(* Creation, edits and deletion.                                             *)

Create(s, clocks) ==
    /\ shipments[s].status = "none"
    /\ \E clock \in clocks : Put(s, ShipmentRow("pending", clock))
    /\ UNCHANGED <<now, call>>

NewClocks == {Off} \cup UNION {On(until) : until \in now + 1 .. MaxTime}

createShipment(s) == Create(s, NewClocks)
createShipmentFromProduct(s) == Create(s, NewClocks)
publishBatch(s) == Create(s, {Unset})

EditShipment(s) ==
    /\ shipments[s].status = "pending" /\ shipments[s].clock.simulated
    /\ \E clock \in buildShipmentSimulationState(shipments[s].clock) :
         Put(s, Synced("pending", clock))
    /\ UNCHANGED <<now, call>>

updateShipment(s) == EditShipment(s)        \* with another country; any edit synchronises
replaceShipmentLegs(s) == EditShipment(s)

\* Of a shipment with one product, whatever its status.
syncShipmentFromProduct(s) ==
    /\ Present(s)
    /\ \E clock \in buildShipmentSimulationState(shipments[s].clock) :
         Put(s, Synced(shipments[s].status, clock))
    /\ UNCHANGED <<now, call>>

deleteProduct(s) ==     \* the last one of the shipment
    /\ Present(s) /\ Put(s, ShipmentRow("deleted", Off))
    /\ UNCHANGED <<now, call>>

-----------------------------------------------------------------------------
(* What a request does first: repair the clocks that are not set, then write   *)
(* what the clocks say. Each reads the rows, then writes them by id. A company  *)
(* with a demo member skips both.                                            *)

Read(r, step, rows) ==
    /\ call[r].step = "idle"
    /\ Resume(r, [step |-> step, at |-> now,
                rows |-> [s \in Consignments |-> IF s \in rows THEN shipments[s] ELSE NoShipment]])
    /\ UNCHANGED <<now, shipments>>

\* It also reads delivered shipments that lack a date of arrival.
backfillCompanyShipments(r) ==
    \E delivered \in SUBSET {s \in Consignments : shipments[s].status = "delivered"} :
       Read(r, "backfill", delivered \cup {s \in Consignments : Present(s) /\ shipments[s].clock = Unset})

WriteBackfill(r) ==
    /\ call[r].step = "backfill"
    /\ \E clock \in [Consignments -> buildShipmentSimulationState(Unset)] :
         shipments' = [s \in Consignments |->
           LET read == call[r].rows[s]
           IN  IF ~Present(s) \/ read = NoShipment THEN shipments[s]
               ELSE ShipmentRow(shipments[s].status, IF read.clock = Unset THEN clock[s] ELSE read.clock)]
    /\ Resume(r, NoCall) /\ UNCHANGED now

syncCompanyShipmentSimulation(r) ==
    Read(r, "sync", {s \in Consignments : Present(s) /\ shipments[s].clock.simulated
                                       /\ shipments[s].status # "cancelled"})

syncShipmentSimulationRecord(r) ==
    /\ call[r].step = "sync"
    /\ shipments' = [s \in Consignments |->
         LET read == call[r].rows[s]
             next == resolveEffectiveShipmentStatus(read, call[r].at)
         IN  IF Present(s) /\ next # read.status
             THEN ShipmentRow(next, shipments[s].clock) ELSE shipments[s]]
    /\ Resume(r, NoCall) /\ UNCHANGED now

-----------------------------------------------------------------------------
(* A change of status by hand: of a simulated shipment only its cancellation   *)
(* while it is pending. The update requires the status that was read.         *)

validTransitions == {<<"pending", "in_transit">>, <<"pending", "cancelled">>,
                     <<"in_transit", "delivered">>, <<"in_transit", "cancelled">>}

updateShipmentStatus(r, s) ==
    /\ Present(s)
    /\ Read(r, "status", {s})

\* A variant, never taken: the update requires no status.
CompareAndSet_Blind(r, s) ==
    LET read == call[r].rows[s]
    IN  /\ call[r].step = "status" /\ read # NoShipment /\ Resume(r, NoCall) /\ UNCHANGED now
        /\ Present(s)
        /\ \E status \in Statuses :
             /\ IF read.clock.simulated THEN read.status = "pending" /\ status = "cancelled"
                ELSE <<read.status, status>> \in validTransitions
             /\ Put(s, ShipmentRow(status, shipments[s].clock))

CompareAndSet(r, s) ==
    LET read == call[r].rows[s]
    IN  /\ call[r].step = "status" /\ read # NoShipment /\ Resume(r, NoCall) /\ UNCHANGED now
        /\ \/ /\ shipments[s].status = read.status
              /\ \E status \in Statuses :
                   /\ IF read.clock.simulated THEN read.status = "pending" /\ status = "cancelled"
                      ELSE <<read.status, status>> \in validTransitions
                   /\ Put(s, ShipmentRow(status, shipments[s].clock))
           \/ UNCHANGED shipments

-----------------------------------------------------------------------------
LogisticsNext ==
    \/ Tick
    \/ \E s \in Consignments :
         \/ createShipment(s) \/ createShipmentFromProduct(s) \/ publishBatch(s)
         \/ updateShipment(s) \/ replaceShipmentLegs(s)
         \/ syncShipmentFromProduct(s) \/ deleteProduct(s)
    \/ \E r \in Callers :
         \/ backfillCompanyShipments(r) \/ WriteBackfill(r)
         \/ syncCompanyShipmentSimulation(r) \/ syncShipmentSimulationRecord(r)
         \/ \E s \in Consignments : updateShipmentStatus(r, s) \/ CompareAndSet(r, s)

LogisticsSpec == LogisticsInit /\ [][LogisticsNext]_logisticsVars

-----------------------------------------------------------------------------
(* A shipment moves forward: a cancelled one stays cancelled, a delivered one  *)
(* delivered (validTransitions, logisticsService.js:858), and one in transit    *)
(* is pending again only when its clock was set anew. What can break this is a  *)
(* synchronisation that writes over a status or a clock it has not read.     *)
Forward == validTransitions \cup {<<"pending", "delivered">>}

WritesOverUnread(s) ==
    \E r \in Callers :
       /\ call[r].step = "sync" /\ call'[r].step = "idle"
       /\ call[r].rows[s] # shipments[s]

ClockSays(s, status) ==
    \E t \in {now} \cup {call[r].at : r \in {q \in Callers : call[q].step = "sync"}} :
       resolveEffectiveShipmentStatus(shipments'[s], t) = status

Moves(s) ==
    LET from == shipments[s].status  to == shipments'[s].status
    IN  from # to /\ from \in Statuses /\ to # "deleted" =>
          \/ <<from, to>> \in Forward
          \/ <<from, to>> = <<"in_transit", "pending">> /\ ClockSays(s, "pending")
          \/ WritesOverUnread(s)

StatusMovesForward == [][\A s \in Consignments : Moves(s)]_logisticsVars
================================================================================
