------------------------------ MODULE WeaveNode ------------------------------
(***************************************************************************)
(* Signed ingestion for one provisioned device                             *)
(* (services/weavenodeService.js over the tables of migrations 044 and     *)
(* 048): packets and health reports arrive lost, repeated, reordered and   *)
(* with a reused sequence number; an administrator records calibrations,   *)
(* replays the buffered packets into activities and revokes the device.    *)
(* The tables are append-only (reject_industrial_core_mutation).           *)
(*                                                                         *)
(* Statements outside a transaction are steps of their own. ingest, revoke *)
(* and replay lock the device's row first, so the first two are one step   *)
(* each; a replay is a sequence of steps by the holder of the lock.        *)
(***************************************************************************)
EXTENDS Integers, Sequences, FiniteSets, FiniteSetsExt

CONSTANTS
    Requests,      \* requests being served, the device's and the administrators'
    Times,         \* recordedAt of the measurements; a payload is told apart by it
    LastSequence,  \* bound: the highest sequence number a packet carries
    LastReport,    \* bound: the highest sequence number a health report carries
    Documents,     \* evidence documents calibrations refer to
    BatchLimit,    \* the LIMIT of a replay's packets
    NoPayload,     \* a sequence number that is unused
    NoRequest      \* nobody holds the device's row

ASSUME TimesAssumption == Times \subseteq Nat /\ NoPayload \notin Times
ASSUME BoundsAssumption == LastSequence \in Nat /\ LastReport \in Nat
ASSUME BatchLimitAssumption == BatchLimit \in Nat \ {0}
ASSUME NoRequestAssumption == NoRequest \notin Requests

VARIABLES
    revoked,       \* a 'revoked' event of the device is recorded
    controlled,    \* the documents that are locked or third-party verified
    calibrations,  \* the calibration revisions recorded
    packets,       \* packets[s]: payload stored under sequence number s
    health,        \* health[s]: the health report with sequence number s
    acked,         \* what the gateway was told is stored, 'buffered' or 'duplicate'
    activities,    \* the activities with their acceptances, in commit order
    holder,        \* the request whose transaction holds the device's row
    batch,         \* the activities that transaction has inserted so far
    request        \* request[r]: what a request goes on with after its first statement

vars == <<revoked, controlled, calibrations, packets, health, acked,
          activities, holder, batch, request>>
stores == <<packets, health, acked>>
replays == <<activities, holder, batch>>

SequenceNumbers == 1..LastSequence
Packets == SequenceNumbers \X Times
Reports == (1..LastReport) \X Times
Calibrations == {c \in [from : Times, to : Times, document : Documents] : c.from <= c.to}
Idle == [op |-> "none"]

Init ==
    /\ revoked = FALSE
    /\ controlled = {}
    /\ calibrations = {}
    /\ packets = [s \in SequenceNumbers |-> NoPayload]
    /\ health = [s \in 1..LastReport |-> NoPayload]
    /\ acked = {}
    /\ activities = <<>>
    /\ holder = NoRequest
    /\ batch = <<>>
    /\ request = [r \in Requests |-> Idle]

Begin(r, op, data) ==
    /\ request[r] = Idle /\ holder # r
    /\ request' = [request EXCEPT ![r] = [op |-> op, data |-> data]]

End(r) == request' = [request EXCEPT ![r] = Idle]

-----------------------------------------------------------------------------
(* ingest: the device is read and the signature verified, then the packet   *)
(* is stored under the lock.                                               *)

BeginIngest(r, p) ==
    /\ ~revoked
    /\ Begin(r, "ingest", p)
    /\ UNCHANGED <<revoked, controlled, calibrations, stores, replays>>

(* INSERT ... ON CONFLICT DO NOTHING.                                      *)
InsertOnce(table, p) ==
    IF table[p[1]] = NoPayload THEN [table EXCEPT ![p[1]] = p[2]] ELSE table

(* The sender is told 'buffered', 'recorded' or 'duplicate', unless the      *)
(* number turns out to be used for another payload.                         *)
Answer_Duplicate(kind, table, p) == acked' = acked \cup {<<kind, p>>}

Answer(kind, table, p) ==
    acked' = IF table[p[1]] = p[2] THEN acked \cup {<<kind, p>>} ELSE acked

Ingest_NotRechecked(r) ==
    /\ request[r].op = "ingest" /\ holder = NoRequest
    /\ packets' = InsertOnce(packets, request[r].data)
    /\ Answer("packet", packets', request[r].data)
    /\ End(r)
    /\ UNCHANGED <<revoked, controlled, calibrations, health, replays>>

Ingest(r) ==
    /\ request[r].op = "ingest" /\ holder = NoRequest
    /\ \/ revoked /\ UNCHANGED <<packets, acked>>
       \/ /\ ~revoked
          /\ packets' = InsertOnce(packets, request[r].data)
          /\ Answer("packet", packets', request[r].data)
    /\ End(r)
    /\ UNCHANGED <<revoked, controlled, calibrations, health, replays>>

(* ingestHealth takes no lock and checks revocation only in its first        *)
(* statement.                                                               *)
BeginHealth(r, p) ==
    /\ ~revoked
    /\ Begin(r, "health", p)
    /\ UNCHANGED <<revoked, controlled, calibrations, stores, replays>>

RecordHealth(r) ==
    /\ request[r].op = "health"
    /\ health' = InsertOnce(health, request[r].data)
    /\ Answer("health", health', request[r].data)
    /\ End(r)
    /\ UNCHANGED <<revoked, controlled, calibrations, packets, replays>>

-----------------------------------------------------------------------------
(* revoke: one event, under the lock.                                      *)
Revoke ==
    /\ holder = NoRequest
    /\ revoked' = TRUE
    /\ UNCHANGED <<controlled, calibrations, stores, replays, request>>

(* calibrate is one INSERT ... SELECT: its conditions are those of its       *)
(* snapshot, and its foreign key waits for whoever holds the device's row.   *)
BeginCalibrate(r, c) ==
    /\ ~revoked /\ c.document \in controlled
    /\ Begin(r, "calibrate", c)
    /\ UNCHANGED <<revoked, controlled, calibrations, stores, replays>>

Calibrate(r) ==
    /\ request[r].op = "calibrate" /\ holder = NoRequest
    /\ calibrations' = calibrations \cup {request[r].data}
    /\ End(r)
    /\ UNCHANGED <<revoked, controlled, stores, replays>>

(* Evidence: a document is locked; the extraction job sets its status to     *)
(* 'ocr_parsed' or 'extract_failed' whatever it was.                         *)
LockEvidence(d) ==
    /\ controlled' = controlled \cup {d}
    /\ UNCHANGED <<revoked, calibrations, stores, replays, request>>

OverwriteStatus(d) ==
    /\ controlled' = controlled \ {d}
    /\ UNCHANGED <<revoked, calibrations, stores, replays, request>>

-----------------------------------------------------------------------------
(* replay: accept the packets that are next in turn, in one transaction.    *)

BeginReplay(r) ==
    /\ request[r] = Idle /\ holder = NoRequest /\ ~revoked
    /\ holder' = r
    /\ UNCHANGED <<revoked, controlled, calibrations, stores, activities, batch, request>>

(* MAX(sequence_number) of the acceptances.                                *)
LastAccepted ==
    IF activities = <<>> THEN 0 ELSE Max({activities[i].sequence : i \in DOMAIN activities})

Expected == LastAccepted + Len(batch) + 1

(* The calibrations whose window covers a measurement and whose evidence is  *)
(* controlled at this moment; the code takes the newest of them.            *)
Valid_AnyWindow(t) == {c \in calibrations : c.document \in controlled}

Valid(t) == {c \in calibrations : c.from <= t /\ t <= c.to /\ c.document \in controlled}

(* The queued packet the loop goes on with, if no sequence number is missing *)
(* before it and a calibration is valid for it.                             *)
Later == {s \in SequenceNumbers : s >= Expected /\ packets[s] # NoPayload}

Queued == {s \in Later : Len(batch) < BatchLimit /\ \A q \in Later : s <= q}

Due_SkipsGaps == {s \in Queued : Valid(packets[s]) # {}}

Due == {s \in Queued : s = Expected /\ Valid(packets[s]) # {}}

AcceptNext(r) ==
    /\ holder = r
    /\ \E s \in Due : \E c \in Valid(packets[s]) :
         batch' = Append(batch, [sequence |-> s, payload |-> packets[s], calibration |-> c])
    /\ UNCHANGED <<revoked, controlled, calibrations, stores, activities, holder, request>>

(* COMMIT, when the queue is exhausted or the loop met a blocker.           *)
CommitReplay(r) ==
    /\ holder = r /\ Due = {}
    /\ activities' = activities \o batch
    /\ holder' = NoRequest /\ batch' = <<>>
    /\ UNCHANGED <<revoked, controlled, calibrations, stores, request>>

AbortReplay(r) ==
    /\ holder = r
    /\ holder' = NoRequest /\ batch' = <<>>
    /\ UNCHANGED <<revoked, controlled, calibrations, stores, activities, request>>

(* A request ends without its second statement: an error, a lost process.   *)
Drop(r) ==
    /\ request[r] # Idle /\ End(r)
    /\ UNCHANGED <<revoked, controlled, calibrations, stores, replays>>

-----------------------------------------------------------------------------
RequestStep(r) ==
    \/ \E p \in Packets : BeginIngest(r, p)
    \/ \E p \in Reports : BeginHealth(r, p)
    \/ \E c \in Calibrations : BeginCalibrate(r, c)
    \/ Ingest(r) \/ RecordHealth(r) \/ Calibrate(r) \/ Drop(r)
    \/ BeginReplay(r) \/ AcceptNext(r) \/ CommitReplay(r) \/ AbortReplay(r)

Next ==
    \/ \E r \in Requests : RequestStep(r)
    \/ Revoke
    \/ \E d \in Documents : LockEvidence(d) \/ OverwriteStatus(d)

Spec == Init /\ [][Next]_vars
-----------------------------------------------------------------------------
(* Properties.                                                             *)

Activities == [sequence : SequenceNumbers, payload : Times, calibration : Calibrations]

Operations ==
    {Idle} \cup [op : {"ingest"}, data : Packets]
           \cup [op : {"health"}, data : Reports]
           \cup [op : {"calibrate"}, data : Calibrations]

(* Types; a replay inserts at most BatchLimit activities.                  *)
TypeOK ==
    /\ revoked \in BOOLEAN
    /\ controlled \subseteq Documents
    /\ calibrations \subseteq Calibrations
    /\ packets \in [SequenceNumbers -> Times \cup {NoPayload}]
    /\ health \in [1..LastReport -> Times \cup {NoPayload}]
    /\ acked \subseteq ({"packet"} \X Packets) \cup ({"health"} \X Reports)
    /\ activities \in Seq(Activities)
    /\ holder \in Requests \cup {NoRequest}
    /\ batch \in Seq(Activities) /\ Len(batch) <= BatchLimit
    /\ request \in [Requests -> Operations]

(* "Replay is serialized per device": whatever order packets arrived in and  *)
(* however many replays ran or were aborted, the accepted packets are those  *)
(* with sequence numbers 1, 2, 3, ..., one activity each, with the payload   *)
(* stored under that number.                                               *)
AcceptedInOrder ==
    \A i \in DOMAIN activities :
        /\ activities[i].sequence = i
        /\ activities[i].payload = packets[i]

(* Whatever a sender was told is stored, and so may have been erased from    *)
(* the gateway's buffer, is stored and stays what is stored: a reused number *)
(* is never answered as a duplicate of another payload.                     *)
AcknowledgedIsStored ==
    /\ \A s \in SequenceNumbers, t \in Times :
         <<"packet", <<s, t>>>> \in acked => packets[s] = t
    /\ \A s \in 1..LastReport, t \in Times :
         <<"health", <<s, t>>>> \in acked => health[s] = t

Calibrated(activity) ==
    /\ activity.calibration \in calibrations
    /\ activity.calibration.from <= activity.payload
    /\ activity.payload <= activity.calibration.to

(* Every activity rests on a calibration revision that is recorded and whose *)
(* window covers the moment its measurement was recorded.                   *)
AcceptedIsCalibrated == \A i \in DOMAIN activities : Calibrated(activities[i])

(* "A revoked device cannot ingest or replay", each number is stored once    *)
(* and the log only grows: the ledger above is implemented, with the         *)
(* committed activities as the log.                                        *)
Ledger == INSTANCE DeviceLedger WITH
    stored <- packets, closed <- revoked,
    log <- [i \in DOMAIN activities |-> activities[i].payload]

ImplementsLedger == Ledger!LedgerSpec
=============================================================================
