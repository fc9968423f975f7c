----------------------------- MODULE ServicesProofs -----------------------------
(***************************************************************************)
(* Theorems about the services of MCServices, each about its own specification.   *)
(*                                                                         *)
(* WeaveNode, for any requests, times, documents and bounds. What is committed    *)
(* is right because what the transaction in progress has inserted is right:        *)
(* BatchInOrder says it continues the log, LockHeld that only a holder of the       *)
(* device's row has inserted anything and that the device is not revoked while      *)
(* a replay holds it.                                                          *)
(*                                                                         *)
(* Accounts, for any requests, addresses, accounts and companies. The invariant    *)
(* follows the inviters: every membership names one, an inviter is the admin of     *)
(* the company, and no request that is about to invite or to change a member holds  *)
(* anything that could undo that.                                               *)
(*                                                                         *)
(* Logistics, for any shipments, requests and clock. The argument needs no          *)
(* invariant of the rows: each statement keeps the order of what it has read, but   *)
(* for a synchronisation over what it has not read.                              *)
(*                                                                         *)
(* The meter hierarchy, for any meters, references, times and bounds. That the     *)
(* links are a forest is proved for one request at a time, which is what the code's  *)
(* check is right for: what is below a meter is the least set that holds its         *)
(* children and is closed, so a link that CheckCycle lets through cannot be the last  *)
(* of a cycle.                                                               *)
(***************************************************************************)
EXTENDS WeaveNode, Accounts, Logistics, MeterHierarchy, TLAPS

-----------------------------------------------------------------------------
(* WeaveNode.                                                                *)

LockHeld ==
    /\ holder = NoRequest => batch = <<>>
    /\ holder # NoRequest => ~revoked

BatchInOrder ==
    \A i \in DOMAIN batch :
        /\ batch[i].sequence = Len(activities) + i
        /\ batch[i].payload = packets[Len(activities) + i]
        /\ Calibrated(batch[i])

LedgerInv ==
    /\ TypeOK /\ LockHeld /\ BatchInOrder
    /\ AcceptedInOrder /\ AcknowledgedIsStored /\ AcceptedIsCalibrated

-----------------------------------------------------------------------------
(* What a request in progress carries.                                     *)
LEMMA PendingData ==
    ASSUME TypeOK, NEW r \in Requests
    PROVE  /\ request[r].op = "ingest" => request[r].data \in Packets
           /\ request[r].op = "health" => request[r].data \in Reports
           /\ request[r].op = "calibrate" => request[r].data \in Calibrations
  <1>1. request[r] \in Operations
    BY DEF TypeOK
  <1> QED
    BY <1>1 DEF Operations, Idle

(* A table keeps what it has; a number that was free gets the new payload.  *)
LEMMA InsertOnceKeeps ==
    ASSUME NEW n \in Nat, NEW table \in [1..n -> Times \cup {NoPayload}],
           NEW s \in 1..n, NEW t \in Times
    PROVE  /\ InsertOnce(table, <<s, t>>) \in [1..n -> Times \cup {NoPayload}]
           /\ \A q \in 1..n : table[q] # NoPayload => InsertOnce(table, <<s, t>>)[q] = table[q]
           /\ \A q \in 1..n : InsertOnce(table, <<s, t>>)[q] # table[q] =>
                table[q] = NoPayload /\ q = s /\ InsertOnce(table, <<s, t>>)[q] = t
  BY DEF InsertOnce

(* The number after the last accepted one follows the committed activities. *)
LEMMA LastIsLength ==
    ASSUME TypeOK, AcceptedInOrder
    PROVE  LastAccepted = Len(activities)
  <1>1. CASE activities = <<>>
    BY <1>1 DEF LastAccepted
  <1>2. CASE activities # <<>>
    <2> DEFINE S == {activities[i].sequence : i \in DOMAIN activities}
    <2>1. Len(activities) \in Nat \ {0} /\ DOMAIN activities = 1..Len(activities)
      BY <1>2 DEF TypeOK
    <2>2. S = 1..Len(activities)
      BY <2>1 DEF AcceptedInOrder
    <2> HIDE DEF S
    <2>3. Len(activities) \in S /\ \A y \in S : y \in Nat /\ Len(activities) >= y
      BY <2>1, <2>2
    <2>4. \A x \in S : (\A y \in S : x >= y) => x = Len(activities)
      BY <2>1, <2>3
    <2>5. Max(S) \in S /\ \A y \in S : Max(S) >= y
      BY <2>3 DEF Max
    <2>6. LastAccepted = Max(S)
      BY <1>2 DEF LastAccepted, S
    <2> QED
      BY <2>4, <2>5, <2>6
  <1> QED
    BY <1>1, <1>2

(* What replay appends next.                                               *)
LEMMA AcceptedNext ==
    ASSUME TypeOK, AcceptedInOrder, NEW r, AcceptNext(r)
    PROVE  \E a \in Activities :
             /\ batch' = Append(batch, a)
             /\ Len(batch) < BatchLimit
             /\ a.sequence = Len(activities) + Len(batch) + 1
             /\ a.payload = packets[a.sequence]
             /\ Calibrated(a)
  <1>1. PICK s \in Due : \E c \in Valid(packets[s]) :
          batch' = Append(batch, [sequence |-> s, payload |-> packets[s], calibration |-> c])
    BY DEF AcceptNext
  <1>2. PICK c \in Valid(packets[s]) :
          batch' = Append(batch, [sequence |-> s, payload |-> packets[s], calibration |-> c])
    BY <1>1
  <1>3. /\ s \in SequenceNumbers /\ packets[s] # NoPayload
        /\ s = Len(activities) + Len(batch) + 1 /\ Len(batch) < BatchLimit
    BY <1>1, LastIsLength DEF Due, Queued, Later, Expected
  <1>4. packets[s] \in Times
    BY <1>3 DEF TypeOK
  <1>5. /\ c \in calibrations /\ c \in Calibrations
        /\ c.from <= packets[s] /\ packets[s] <= c.to
    BY <1>2 DEF Valid, TypeOK
  <1> DEFINE a == [sequence |-> s, payload |-> packets[s], calibration |-> c]
  <1>6. a \in Activities
    BY <1>3, <1>4, <1>5 DEF Activities
  <1>7. a.sequence = s /\ a.payload = packets[s] /\ a.calibration = c
    OBVIOUS
  <1> QED
    BY <1>2, <1>3, <1>5, <1>6, <1>7 DEF Calibrated
-----------------------------------------------------------------------------
LEMMA LedgerInitial ==
    ASSUME Init
    PROVE  LedgerInv
  <1>1. TypeOK
    <2>1. activities \in Seq(Activities) /\ batch \in Seq(Activities) /\ Len(batch) <= BatchLimit
      BY BatchLimitAssumption DEF Init
    <2>2. request \in [Requests -> Operations]
      BY DEF Init, Operations
    <2>3. /\ packets \in [SequenceNumbers -> Times \cup {NoPayload}]
          /\ health \in [1..LastReport -> Times \cup {NoPayload}]
      BY DEF Init
    <2> QED
      BY <2>1, <2>2, <2>3 DEF Init, TypeOK
  <1>2. LockHeld /\ BatchInOrder /\ AcceptedInOrder /\ AcceptedIsCalibrated
    BY DEF Init, LockHeld, BatchInOrder, AcceptedInOrder, AcceptedIsCalibrated
  <1>3. AcknowledgedIsStored
    BY DEF Init, AcknowledgedIsStored
  <1> QED
    BY <1>1, <1>2, <1>3 DEF LedgerInv

(* How the stores change: an ingested packet, a health report, nothing.      *)
StoresStep ==
    \/ \E s \in SequenceNumbers, t \in Times :
         /\ ~revoked /\ holder = NoRequest
         /\ packets' = InsertOnce(packets, <<s, t>>)
         /\ Answer("packet", packets', <<s, t>>)
         /\ UNCHANGED health
    \/ \E s \in 1..LastReport, t \in Times :
         /\ health' = InsertOnce(health, <<s, t>>)
         /\ Answer("health", health', <<s, t>>)
         /\ UNCHANGED packets
    \/ UNCHANGED stores

(* How the lock, the transaction and the log change.                        *)
ReplayStep ==
    \/ UNCHANGED replays
    \/ holder = NoRequest /\ ~revoked /\ holder' \in Requests /\ UNCHANGED <<activities, batch>>
    \/ holder # NoRequest /\ UNCHANGED <<activities, holder>> /\ \E r \in Requests : AcceptNext(r)
    \/ activities' = activities \o batch /\ holder # NoRequest
         /\ holder' = NoRequest /\ batch' = <<>>
    \/ holder' = NoRequest /\ batch' = <<>> /\ UNCHANGED activities

(* Every step of the module in those terms; revocation needs the lock, only  *)
(* calibrate adds a calibration, and replay steps change neither.            *)
LEMMA StepShape ==
    ASSUME TypeOK, [Next]_vars
    PROVE  /\ StoresStep
           /\ ReplayStep
           /\ revoked' = revoked \/ (revoked' = TRUE /\ holder = NoRequest /\ UNCHANGED <<stores, replays>>)
           /\ calibrations \subseteq calibrations' /\ calibrations' \subseteq Calibrations
           /\ controlled' \subseteq Documents
           /\ request' \in [Requests -> Operations]
           /\ UNCHANGED stores \/ UNCHANGED replays
  <1> USE DEF StoresStep, ReplayStep, stores, replays
  <1>0. /\ calibrations \subseteq Calibrations /\ controlled \subseteq Documents
        /\ request \in [Requests -> Operations]
    BY DEF TypeOK
  <1>1. ASSUME NEW r \in Requests, NEW p \in Packets, BeginIngest(r, p)
        PROVE  /\ UNCHANGED <<revoked, controlled, calibrations, stores, replays>>
               /\ request' \in [Requests -> Operations]
    BY <1>0, <1>1 DEF BeginIngest, Begin, Operations
  <1>2. ASSUME NEW r \in Requests, NEW p \in Reports, BeginHealth(r, p)
        PROVE  /\ UNCHANGED <<revoked, controlled, calibrations, stores, replays>>
               /\ request' \in [Requests -> Operations]
    BY <1>0, <1>2 DEF BeginHealth, Begin, Operations
  <1>3. ASSUME NEW r \in Requests, NEW c \in Calibrations, BeginCalibrate(r, c)
        PROVE  /\ UNCHANGED <<revoked, controlled, calibrations, stores, replays>>
               /\ request' \in [Requests -> Operations]
    BY <1>0, <1>3 DEF BeginCalibrate, Begin, Operations
  <1>4. ASSUME NEW r \in Requests, End(r)
        PROVE  request' \in [Requests -> Operations]
    BY <1>0, <1>4 DEF End, Operations
  <1>5. ASSUME NEW r \in Requests, Ingest(r)
        PROVE  StoresStep /\ UNCHANGED <<revoked, controlled, calibrations, replays>> /\ End(r)
    <2>1. request[r].data \in Packets
      BY <1>5, PendingData DEF Ingest
    <2>2. PICK s \in SequenceNumbers, t \in Times : request[r].data = <<s, t>>
      BY <2>1 DEF Packets
    <2> QED
      BY <1>5, <2>2 DEF Ingest
  <1>6. ASSUME NEW r \in Requests, RecordHealth(r)
        PROVE  StoresStep /\ UNCHANGED <<revoked, controlled, calibrations, replays>> /\ End(r)
    <2>1. request[r].data \in Reports
      BY <1>6, PendingData DEF RecordHealth
    <2>2. PICK s \in 1..LastReport, t \in Times : request[r].data = <<s, t>>
      BY <2>1 DEF Reports
    <2> QED
      BY <1>6, <2>2 DEF RecordHealth
  <1>7. ASSUME NEW r \in Requests, Calibrate(r)
        PROVE  /\ UNCHANGED <<revoked, controlled, stores, replays>> /\ End(r)
               /\ calibrations \subseteq calibrations' /\ calibrations' \subseteq Calibrations
    BY <1>0, <1>7, PendingData DEF Calibrate
  <1>8. ASSUME NEW r \in Requests, Drop(r)
        PROVE  UNCHANGED <<revoked, controlled, calibrations, stores, replays>> /\ End(r)
    BY <1>8 DEF Drop
  <1>9. ASSUME NEW r \in Requests,
               BeginReplay(r) \/ AcceptNext(r) \/ CommitReplay(r) \/ AbortReplay(r)
        PROVE  ReplayStep /\ UNCHANGED <<revoked, controlled, calibrations, stores, request>>
    <2>1. r # NoRequest
      BY NoRequestAssumption
    <2>2. CASE BeginReplay(r)
      BY <2>2 DEF BeginReplay
    <2>3. CASE AcceptNext(r)
      BY <2>1, <2>3 DEF AcceptNext
    <2>4. CASE CommitReplay(r)
      BY <2>1, <2>4 DEF CommitReplay
    <2>5. CASE AbortReplay(r)
      BY <2>5 DEF AbortReplay
    <2> QED
      BY <1>9, <2>2, <2>3, <2>4, <2>5
  <1>10. CASE Revoke
    BY <1>0, <1>10 DEF Revoke
  <1>11. ASSUME NEW d \in Documents, LockEvidence(d) \/ OverwriteStatus(d)
         PROVE  /\ UNCHANGED <<revoked, calibrations, stores, replays, request>>
                /\ controlled' \subseteq Documents
    BY <1>0, <1>11 DEF LockEvidence, OverwriteStatus
  <1>12. CASE UNCHANGED vars
    BY <1>0, <1>12 DEF vars
  <1>13. ASSUME NEW r \in Requests, RequestStep(r)
         PROVE  /\ StoresStep /\ ReplayStep /\ UNCHANGED <<revoked, controlled>>
                /\ calibrations \subseteq calibrations' /\ calibrations' \subseteq Calibrations
                /\ request' \in [Requests -> Operations]
                /\ UNCHANGED stores \/ UNCHANGED replays
    <2>1. CASE \E p \in Packets : BeginIngest(r, p)
      BY <1>0, <1>1, <2>1
    <2>2. CASE \E p \in Reports : BeginHealth(r, p)
      BY <1>0, <1>2, <2>2
    <2>3. CASE \E c \in Calibrations : BeginCalibrate(r, c)
      BY <1>0, <1>3, <2>3
    <2>4. CASE Ingest(r)
      BY <1>0, <1>4, <1>5, <2>4
    <2>5. CASE RecordHealth(r)
      BY <1>0, <1>4, <1>6, <2>5
    <2>6. CASE Calibrate(r)
      BY <1>4, <1>7, <2>6
    <2>7. CASE Drop(r)
      BY <1>0, <1>4, <1>8, <2>7
    <2>8. CASE BeginReplay(r) \/ AcceptNext(r) \/ CommitReplay(r) \/ AbortReplay(r)
      BY <1>0, <1>9, <2>8
    <2> QED
      BY <1>13, <2>1, <2>2, <2>3, <2>4, <2>5, <2>6, <2>7, <2>8 DEF RequestStep
  <1> QED
    BY <1>0, <1>10, <1>11, <1>12, <1>13 DEF Next

-----------------------------------------------------------------------------
(* One step from a state of the invariant.                                  *)

LEMMA StoresKept ==
    ASSUME TypeOK, StoresStep
    PROVE  /\ packets' \in [SequenceNumbers -> Times \cup {NoPayload}]
           /\ health' \in [1..LastReport -> Times \cup {NoPayload}]
           /\ acked' \subseteq ({"packet"} \X Packets) \cup ({"health"} \X Reports)
           /\ \A q \in SequenceNumbers : packets[q] # NoPayload => packets'[q] = packets[q]
           /\ \A q \in 1..LastReport : health[q] # NoPayload => health'[q] = health[q]
  <1> USE DEF SequenceNumbers
  <1>0. /\ packets \in [SequenceNumbers -> Times \cup {NoPayload}]
        /\ health \in [1..LastReport -> Times \cup {NoPayload}]
        /\ acked \subseteq ({"packet"} \X Packets) \cup ({"health"} \X Reports)
    BY DEF TypeOK
  <1>1. ASSUME NEW s \in SequenceNumbers, NEW t \in Times,
               packets' = InsertOnce(packets, <<s, t>>), Answer("packet", packets', <<s, t>>),
               UNCHANGED health
        PROVE  /\ packets' \in [SequenceNumbers -> Times \cup {NoPayload}]
               /\ \A q \in SequenceNumbers : packets[q] # NoPayload => packets'[q] = packets[q]
               /\ acked' \subseteq ({"packet"} \X Packets) \cup ({"health"} \X Reports)
    <2>1. <<s, t>> \in Packets
      BY DEF Packets
    <2>2. /\ InsertOnce(packets, <<s, t>>) \in [1..LastSequence -> Times \cup {NoPayload}]
          /\ \A q \in 1..LastSequence : packets[q] # NoPayload => InsertOnce(packets, <<s, t>>)[q] = packets[q]
      BY <1>0, InsertOnceKeeps, BoundsAssumption
    <2>3. acked' \subseteq acked \cup {<<"packet", <<s, t>>>>}
      BY <1>1 DEF Answer
    <2>4. <<"packet", <<s, t>>>> \in {"packet"} \X Packets
      BY <2>1
    <2> QED
      BY <1>0, <1>1, <2>2, <2>3, <2>4
  <1>2. ASSUME NEW s \in 1..LastReport, NEW t \in Times,
               health' = InsertOnce(health, <<s, t>>), Answer("health", health', <<s, t>>),
               UNCHANGED packets
        PROVE  /\ health' \in [1..LastReport -> Times \cup {NoPayload}]
               /\ \A q \in 1..LastReport : health[q] # NoPayload => health'[q] = health[q]
               /\ acked' \subseteq ({"packet"} \X Packets) \cup ({"health"} \X Reports)
    <2>1. <<s, t>> \in Reports
      BY DEF Reports
    <2>2. /\ InsertOnce(health, <<s, t>>) \in [1..LastReport -> Times \cup {NoPayload}]
          /\ \A q \in 1..LastReport : health[q] # NoPayload => InsertOnce(health, <<s, t>>)[q] = health[q]
      BY <1>0, InsertOnceKeeps, BoundsAssumption
    <2>3. acked' \subseteq acked \cup {<<"health", <<s, t>>>>}
      BY <1>2 DEF Answer
    <2>4. <<"health", <<s, t>>>> \in {"health"} \X Reports
      BY <2>1
    <2> QED
      BY <1>0, <1>2, <2>2, <2>3, <2>4
  <1> QED
    BY <1>0, <1>1, <1>2 DEF StoresStep, stores

LEMMA AnswersKept ==
    ASSUME TypeOK, AcknowledgedIsStored, StoresStep
    PROVE  AcknowledgedIsStored'
  <1>1. NoPayload \notin Times
    BY TimesAssumption
  <1>2. \A q \in SequenceNumbers, u \in Times :
          <<"packet", <<q, u>>>> \in acked' => packets'[q] = u
    <2> SUFFICES ASSUME NEW q \in SequenceNumbers, NEW u \in Times,
                        <<"packet", <<q, u>>>> \in acked'
                 PROVE  packets'[q] = u
      OBVIOUS
    <2>1. CASE <<"packet", <<q, u>>>> \in acked
      BY <1>1, <2>1, StoresKept DEF AcknowledgedIsStored
    <2>2. CASE <<"packet", <<q, u>>>> \notin acked
      <3>1. acked' # acked
        BY <2>2
      <3>2. \E s, t : /\ acked' = acked \cup {<<"packet", <<s, t>>>>}
                      /\ packets'[s] = t
        <4>1. CASE \E s, t : Answer("packet", packets', <<s, t>>)
          BY <3>1, <4>1 DEF Answer
        <4>2. CASE \E s, t : Answer("health", health', <<s, t>>)
          BY <2>2, <4>2 DEF Answer
        <4> QED
          BY <3>1, <4>1, <4>2 DEF StoresStep, stores
      <3> QED
        BY <2>2, <3>2
    <2> QED
      BY <2>1, <2>2
  <1>3. \A q \in 1..LastReport, u \in Times :
          <<"health", <<q, u>>>> \in acked' => health'[q] = u
    <2> SUFFICES ASSUME NEW q \in 1..LastReport, NEW u \in Times,
                        <<"health", <<q, u>>>> \in acked'
                 PROVE  health'[q] = u
      OBVIOUS
    <2>1. CASE <<"health", <<q, u>>>> \in acked
      BY <1>1, <2>1, StoresKept DEF AcknowledgedIsStored
    <2>2. CASE <<"health", <<q, u>>>> \notin acked
      <3>1. acked' # acked
        BY <2>2
      <3>2. \E s, t : /\ acked' = acked \cup {<<"health", <<s, t>>>>}
                      /\ health'[s] = t
        <4>1. CASE \E s, t : Answer("health", health', <<s, t>>)
          BY <3>1, <4>1 DEF Answer
        <4>2. CASE \E s, t : Answer("packet", packets', <<s, t>>)
          BY <2>2, <4>2 DEF Answer
        <4> QED
          BY <3>1, <4>1, <4>2 DEF StoresStep, stores
      <3> QED
        BY <2>2, <3>2
    <2> QED
      BY <2>1, <2>2
  <1> QED
    BY <1>2, <1>3 DEF AcknowledgedIsStored

(* The log and the transaction in progress.                                 *)
LogOK ==
    /\ activities \in Seq(Activities)
    /\ batch \in Seq(Activities) /\ Len(batch) <= BatchLimit
    /\ BatchInOrder /\ AcceptedInOrder /\ AcceptedIsCalibrated

LEMMA LogKept ==
    ASSUME LedgerInv, ReplayStep, calibrations \subseteq calibrations',
           \A q \in SequenceNumbers : packets[q] # NoPayload => packets'[q] = packets[q]
    PROVE  LogOK'
  <1>0. /\ TypeOK /\ BatchInOrder /\ AcceptedInOrder /\ AcceptedIsCalibrated
        /\ activities \in Seq(Activities) /\ batch \in Seq(Activities)
        /\ Len(batch) <= BatchLimit /\ BatchLimit \in Nat /\ NoPayload \notin Times
    BY BatchLimitAssumption, TimesAssumption DEF LedgerInv, TypeOK
  (* What is stored for the activities stays stored.                        *)
  <1>1. ASSUME NEW i \in DOMAIN activities
        PROVE  /\ activities[i].sequence = i /\ activities[i].payload = packets'[i]
               /\ activities[i].calibration \in calibrations'
               /\ activities[i].calibration.from <= activities[i].payload
               /\ activities[i].payload <= activities[i].calibration.to
    <2>1. activities[i] \in Activities
      BY <1>0
    <2>2. i \in SequenceNumbers /\ packets[i] \in Times
      BY <1>0, <2>1 DEF Activities, AcceptedInOrder
    <2> QED
      BY <1>0, <2>2 DEF AcceptedInOrder, AcceptedIsCalibrated, Calibrated
  <1>2. ASSUME NEW i \in DOMAIN batch
        PROVE  /\ batch[i].sequence = Len(activities) + i
               /\ batch[i].payload = packets'[Len(activities) + i]
               /\ batch[i].calibration \in calibrations'
               /\ batch[i].calibration.from <= batch[i].payload
               /\ batch[i].payload <= batch[i].calibration.to
    <2>1. batch[i] \in Activities
      BY <1>0
    <2>2. Len(activities) + i \in SequenceNumbers /\ packets[Len(activities) + i] \in Times
      BY <1>0, <2>1 DEF Activities, BatchInOrder
    <2> QED
      BY <1>0, <2>2 DEF BatchInOrder, Calibrated
  <1> USE DEF LogOK, BatchInOrder, AcceptedInOrder, AcceptedIsCalibrated, Calibrated
  <1>3. CASE UNCHANGED <<activities, batch>>
    BY <1>0, <1>1, <1>2, <1>3
  <1>4. ASSUME NEW r \in Requests, AcceptNext(r), UNCHANGED activities
        PROVE  LogOK'
    <2>1. PICK a \in Activities :
             /\ batch' = Append(batch, a)
             /\ Len(batch) < BatchLimit
             /\ a.sequence = Len(activities) + Len(batch) + 1
             /\ a.payload = packets[a.sequence]
             /\ Calibrated(a)
      <3> HIDE DEF LogOK, BatchInOrder, AcceptedInOrder, AcceptedIsCalibrated, Calibrated
      <3> QED BY <1>0, <1>4, AcceptedNext
    <2>2. /\ a.payload = packets'[Len(activities) + Len(batch) + 1]
          /\ a.calibration \in calibrations'
          /\ a.calibration.from <= a.payload /\ a.payload <= a.calibration.to
      BY <1>0, <2>1 DEF Activities
    <2>3. batch' \in Seq(Activities) /\ Len(batch') <= BatchLimit
      BY <1>0, <2>1
    <2>4. ASSUME NEW i \in DOMAIN batch'
          PROVE  IF i \in DOMAIN batch THEN batch'[i] = batch[i]
                                       ELSE i = Len(batch) + 1 /\ batch'[i] = a
      BY <1>0, <2>1
    <2>5. ASSUME NEW i \in DOMAIN batch'
          PROVE  /\ batch'[i].sequence = Len(activities) + i
                 /\ batch'[i].payload = packets'[Len(activities) + i]
                 /\ batch'[i].calibration \in calibrations'
                 /\ batch'[i].calibration.from <= batch'[i].payload
                 /\ batch'[i].payload <= batch'[i].calibration.to
      <3>1. CASE i \in DOMAIN batch
        BY <1>2, <2>4, <3>1
      <3>2. CASE i \notin DOMAIN batch
        <4>1. i = Len(batch) + 1 /\ batch'[i] = a
          BY <2>4, <3>2
        <4>2. Len(batch) \in Nat /\ Len(activities) \in Nat
          BY <1>0
        <4>3. Len(activities) + i = Len(activities) + Len(batch) + 1
          BY <4>1, <4>2
        <4> QED
          BY <2>1, <2>2, <4>1, <4>3
      <3> QED
        BY <3>1, <3>2
    <2>6. BatchInOrder'
      BY <1>4, <2>5
    <2> QED
      BY <1>0, <1>1, <1>4, <2>3, <2>6
  <1>5. CASE activities' = activities \o batch /\ batch' = <<>>
    <2>1. activities' \in Seq(Activities) /\ batch' \in Seq(Activities) /\ Len(batch') <= BatchLimit
      BY <1>0, <1>5
    <2>2. ASSUME NEW i \in DOMAIN activities'
          PROVE  \/ i \in DOMAIN activities /\ activities'[i] = activities[i]
                 \/ /\ i - Len(activities) \in DOMAIN batch
                    /\ activities'[i] = batch[i - Len(activities)]
      BY <1>0, <1>5
    <2>3. ASSUME NEW i \in DOMAIN activities'
          PROVE  /\ activities'[i].sequence = i /\ activities'[i].payload = packets'[i]
                 /\ activities'[i].calibration \in calibrations'
                 /\ activities'[i].calibration.from <= activities'[i].payload
                 /\ activities'[i].payload <= activities'[i].calibration.to
      <3>1. CASE i \in DOMAIN activities /\ activities'[i] = activities[i]
        BY <1>1, <3>1
      <3>2. CASE i - Len(activities) \in DOMAIN batch
                 /\ activities'[i] = batch[i - Len(activities)]
        <4>1. Len(activities) \in Nat /\ i \in Int
          BY <1>0, <1>5
        <4>2. Len(activities) + (i - Len(activities)) = i
          BY <4>1
        <4> QED
          BY <1>2, <3>2, <4>2
      <3> QED
        BY <2>2, <3>1, <3>2
    <2> QED
      BY <1>5, <2>1, <2>3
  <1>6. CASE UNCHANGED activities /\ batch' = <<>>
    BY <1>0, <1>1, <1>6
  <1> QED
    BY <1>3, <1>4, <1>5, <1>6 DEF ReplayStep, replays

LEMMA LockKept ==
    ASSUME LedgerInv, [Next]_vars
    PROVE  LockHeld' /\ holder' \in Requests \cup {NoRequest} /\ revoked' \in BOOLEAN
  <1>1. /\ ReplayStep
        /\ revoked' = revoked \/ (revoked' = TRUE /\ holder = NoRequest /\ UNCHANGED <<stores, replays>>)
    BY StepShape DEF LedgerInv
  <1>2. revoked \in BOOLEAN /\ holder \in Requests \cup {NoRequest}
    BY DEF LedgerInv, TypeOK
  <1>3. LockHeld
    BY DEF LedgerInv
  <1>4. \A r \in Requests : AcceptNext(r) => UNCHANGED <<revoked, holder>> /\ holder = r
    BY DEF AcceptNext
  <1>5. CASE revoked' = revoked
    BY <1>1, <1>2, <1>3, <1>4, <1>5, NoRequestAssumption DEF LockHeld, ReplayStep, replays
  <1>6. CASE revoked' = TRUE /\ holder = NoRequest /\ UNCHANGED <<stores, replays>>
    BY <1>2, <1>3, <1>6 DEF LockHeld, replays
  <1> QED
    BY <1>1, <1>5, <1>6

(* Each step of requests, administrators and replays keeps the invariant.     *)
THEOREM LedgerStep ==
    ASSUME LedgerInv, [Next]_vars
    PROVE  LedgerInv'
  <1>1. TypeOK /\ AcknowledgedIsStored
    BY DEF LedgerInv
  <1>2. /\ StoresStep /\ ReplayStep
        /\ calibrations \subseteq calibrations' /\ calibrations' \subseteq Calibrations
        /\ controlled' \subseteq Documents
        /\ request' \in [Requests -> Operations]
    BY <1>1, StepShape
  <1>3. LogOK'
    BY <1>1, <1>2, StoresKept, LogKept
  <1>4. TypeOK'
    BY <1>1, <1>2, <1>3, StoresKept, LockKept DEF LogOK, TypeOK
  <1>5. AcknowledgedIsStored'
    BY <1>1, <1>2, AnswersKept
  <1> QED
    BY <1>3, <1>4, <1>5, LockKept DEF LedgerInv, LogOK

(* The invariant holds in every state the service reaches.                    *)
THEOREM LedgerInvariant == Spec => []LedgerInv
  BY LedgerInitial, LedgerStep, PTL DEF Spec

(* Every state has the types of TypeOK; a replay stays within its limit.    *)
THEOREM TypeCorrect == Spec => []TypeOK
  <1>1. LedgerInv => TypeOK
    BY DEF LedgerInv
  <1> QED
    BY <1>1, LedgerInvariant, PTL

(* The accepted packets are those numbered 1, 2, 3, ..., one activity each,  *)
(* with the payload stored under the number, for any number of concurrent    *)
(* ingests, replays and aborted transactions.                               *)
THEOREM InOrder == Spec => []AcceptedInOrder
  <1>1. LedgerInv => AcceptedInOrder
    BY DEF LedgerInv
  <1> QED
    BY <1>1, LedgerInvariant, PTL

(* What a sender was told is stored is stored for good.                     *)
THEOREM AcksHold == Spec => []AcknowledgedIsStored
  <1>1. LedgerInv => AcknowledgedIsStored
    BY DEF LedgerInv
  <1> QED
    BY <1>1, LedgerInvariant, PTL

(* Every activity rests on a recorded calibration that covers it.           *)
THEOREM CalibrationHolds == Spec => []AcceptedIsCalibrated
  <1>1. LedgerInv => AcceptedIsCalibrated
    BY DEF LedgerInv
  <1> QED
    BY <1>1, LedgerInvariant, PTL

-----------------------------------------------------------------------------
(* The implementation of DeviceLedger.                                      *)

Log == [i \in DOMAIN activities |-> activities[i].payload]

(* A commit appends to the log what the numbers next in turn hold.          *)
LEMMA CommitAppends ==
    ASSUME LedgerInv, activities' = activities \o batch, UNCHANGED packets
    PROVE  /\ Log' = Log \o [i \in 1..Len(batch) |-> packets[Len(Log) + i]]
           /\ \A i \in 1..Len(batch) : Len(Log) + i \in SequenceNumbers
                                       /\ packets[Len(Log) + i] # NoPayload
           /\ batch # <<>> => Len(batch) \in SequenceNumbers
  <1>0. /\ activities \in Seq(Activities) /\ batch \in Seq(Activities)
        /\ BatchInOrder /\ NoPayload \notin Times
    BY TimesAssumption DEF LedgerInv, TypeOK
  <1>1. Log \in Seq(Times) /\ Len(Log) = Len(activities)
    <2>1. \A i \in DOMAIN activities : activities[i].payload \in Times
      <3>1. \A i \in DOMAIN activities : activities[i] \in Activities
        BY <1>0
      <3>2. \A a \in Activities : a.payload \in Times
        BY DEF Activities
      <3> QED
        BY <3>1, <3>2
    <2>2. DOMAIN activities = 1..Len(activities) /\ Len(activities) \in Nat
      BY <1>0
    <2> QED
      BY <2>1, <2>2 DEF Log
  <1> DEFINE next == [i \in 1..Len(batch) |-> packets[Len(Log) + i]]
  <1>2. ASSUME NEW i \in 1..Len(batch)
        PROVE  /\ batch[i].payload = packets[Len(Log) + i]
               /\ Len(Log) + i \in SequenceNumbers
               /\ packets[Len(Log) + i] # NoPayload /\ packets[Len(Log) + i] \in Times
    <2>1. batch[i] \in Activities /\ i \in DOMAIN batch
      BY <1>0
    <2>2. batch[i].sequence = Len(activities) + i /\ batch[i].payload = packets[Len(activities) + i]
      BY <1>0, <2>1 DEF BatchInOrder
    <2>3. batch[i].sequence \in SequenceNumbers /\ batch[i].payload \in Times
      BY <2>1 DEF Activities
    <2> QED
      BY <1>0, <1>1, <2>2, <2>3
  <1>3. next \in Seq(Times) /\ Len(next) = Len(batch)
    BY <1>0, <1>2
  <1>4. /\ activities' \in Seq(Activities) /\ Len(activities') = Len(activities) + Len(batch)
        /\ \A i \in 1..Len(activities') :
             activities'[i] = IF i <= Len(activities) THEN activities[i]
                                                     ELSE batch[i - Len(activities)]
    BY <1>0
  <1>5. Log' \in Seq(Times) /\ Len(Log') = Len(activities')
    <2>1. \A i \in DOMAIN activities' : activities'[i].payload \in Times
      <3>1. \A i \in DOMAIN activities' : activities'[i] \in Activities
        BY <1>4
      <3>2. \A a \in Activities : a.payload \in Times
        BY DEF Activities
      <3> QED
        BY <3>1, <3>2
    <2>2. DOMAIN activities' = 1..Len(activities') /\ Len(activities') \in Nat
      BY <1>4
    <2> QED
      BY <2>1, <2>2 DEF Log
  <1>6. /\ Log \o next \in Seq(Times) /\ Len(Log \o next) = Len(activities')
        /\ \A i \in 1..Len(activities') :
             (Log \o next)[i] = IF i <= Len(activities) THEN Log[i]
                                                       ELSE next[i - Len(activities)]
    <2> HIDE DEF next
    <2> QED
      BY <1>0, <1>1, <1>3, <1>4
  <1>7. ASSUME NEW i \in 1..Len(activities')
        PROVE  Log'[i] = (Log \o next)[i]
    <2>1. Log'[i] = activities'[i].payload
      BY <1>4 DEF Log
    <2>2. CASE i <= Len(activities)
      BY <1>0, <1>4, <1>6, <2>1, <2>2 DEF Log
    <2>3. CASE ~(i <= Len(activities))
      <3>1. i - Len(activities) \in 1..Len(batch)
        BY <1>0, <1>4, <2>3
      <3> QED
        BY <1>2, <1>4, <1>6, <2>1, <2>3, <3>1
    <2> QED
      BY <2>2, <2>3
  <1>8. Log' = Log \o next
    <2> HIDE DEF next
    <2> QED
      BY <1>5, <1>6, <1>7
  <1>9. batch # <<>> => Len(batch) \in SequenceNumbers
    <2> SUFFICES ASSUME batch # <<>>
                 PROVE  Len(batch) \in SequenceNumbers
      OBVIOUS
    <2>1. Len(batch) \in 1..Len(batch) /\ Len(Log) \in Nat
      BY <1>0, <1>1
    <2>2. Len(Log) + Len(batch) \in SequenceNumbers
      BY <1>2, <2>1
    <2> QED
      BY <2>1, <2>2, BoundsAssumption DEF SequenceNumbers
  <1> QED
    BY <1>2, <1>8, <1>9

(* WeaveNode implements DeviceLedger: each number stored once, the log the   *)
(* stored payloads in order of number, nothing stored or accepted after the   *)
(* revocation.                                                              *)
THEOREM LedgerImplemented == Spec => ImplementsLedger
  <1> USE DEF Ledger!SequenceNumbers, SequenceNumbers
  <1>1. Init => Ledger!LedgerInit
    BY DEF Init, Ledger!LedgerInit
  <1>2. ASSUME LedgerInv, [Next]_vars
        PROVE  [Ledger!LedgerNext]_<<packets, Log, revoked>>
    <2>1. /\ StoresStep /\ ReplayStep
          /\ revoked' = revoked \/ (revoked' = TRUE /\ holder = NoRequest /\ UNCHANGED <<stores, replays>>)
          /\ UNCHANGED stores \/ UNCHANGED replays
      BY <1>2, StepShape DEF LedgerInv
    <2>2. UNCHANGED activities => UNCHANGED Log
      BY DEF Log
    <2>3. CASE revoked' = TRUE /\ UNCHANGED <<stores, replays>>
      BY <2>2, <2>3 DEF Ledger!LedgerNext, Ledger!Close, Log, stores, replays
    <2>4. CASE revoked' = revoked /\ UNCHANGED replays
      <3>1. CASE UNCHANGED packets
        BY <2>2, <2>4, <3>1 DEF replays
      <3>2. ASSUME NEW s \in SequenceNumbers, NEW t \in Times,
                   ~revoked, packets' = InsertOnce(packets, <<s, t>>), packets' # packets
            PROVE  Ledger!Store(s, t)
        BY <2>2, <2>4, <3>2 DEF Ledger!Store, InsertOnce, Log, replays
      <3> QED
        BY <2>1, <3>1, <3>2 DEF StoresStep, stores, Ledger!LedgerNext
    <2>5. CASE revoked' = revoked /\ UNCHANGED stores /\ ~UNCHANGED replays
      <3>1. CASE UNCHANGED activities
        BY <2>2, <2>5, <3>1 DEF stores
      <3>2. CASE activities' = activities \o batch /\ holder # NoRequest
        <4>1. ~revoked /\ UNCHANGED packets
          BY <1>2, <2>5, <3>2 DEF LedgerInv, LockHeld, stores
        <4>2. CASE batch = <<>>
          BY <1>2, <2>2, <3>1, <3>2, <4>2 DEF LedgerInv, TypeOK
        <4>3. CASE batch # <<>>
          <5>1. PICK n \in SequenceNumbers : n = Len(batch)
            BY <1>2, <3>2, <4>1, <4>3, CommitAppends
          <5>2. Ledger!Accept(n)
            BY <1>2, <2>5, <3>2, <4>1, <5>1, CommitAppends DEF Ledger!Accept, Log
          <5> QED
            BY <5>2 DEF Ledger!LedgerNext
        <4> QED
          BY <4>2, <4>3
      <3> QED
        BY <2>1, <2>5, <3>1, <3>2 DEF ReplayStep
    <2> QED
      BY <2>1, <2>3, <2>4, <2>5
  <1> QED
    BY <1>1, <1>2, LedgerInvariant, PTL DEF Spec, ImplementsLedger, Ledger!LedgerSpec, Log

-----------------------------------------------------------------------------
(* Accounts.                                                                 *)

MemberRows == [role : {"admin", "member"}, status : {"invited", "active", "disabled"}, by : Ids]

AccountShapes ==
    /\ accounts = [u \in Ids |-> accounts[u]]
    /\ requests = [r \in Clients |-> requests[r]]
    /\ members = [c \in Companies |-> [u \in Ids |-> members[c][u]]]
    /\ companies \subseteq Companies

(* Memberships are of stored accounts in founded companies.                 *)
MembersStored ==
    \A c \in Companies, u \in Ids :
        \/ Row(c, u) = NotMember
        \/ Row(c, u) \in MemberRows /\ c \in companies /\ Exists(u)

(* An admin is active and was invited by nobody else.                       *)
Founders ==
    \A c \in Companies, u \in Ids :
        Row(c, u) # NotMember /\ Row(c, u).role = "admin"
            => Row(c, u).status = "active" /\ Row(c, u).by = u

IsFounder(c, u) == u \in Ids /\ Exists(u) /\ Row(c, u) # NotMember /\ Row(c, u).role = "admin"

Inviters ==
    \A c \in Companies, u \in Ids : Row(c, u) # NotMember => IsFounder(c, Row(c, u).by)

(* A request about to invite was sent by the company's admin, if he exists.   *)
InviteHolds(q) ==
    q.step \in {"invite", "insert"} =>
        /\ q.by \in Ids /\ q.company \in companies
        /\ accounts[q.by].state # "fresh"
        /\ Exists(q.by) => IsFounder(q.company, q.by)

(* A request about to change a member does not name an admin.               *)
ChangeHolds(q) ==
    q.step \in {"active", "disabled", "remove"} =>
        /\ q.user \in Ids /\ q.company \in companies
        /\ ~IsFounder(q.company, q.user)

RequestsHold == \A r \in Clients : InviteHolds(requests[r]) /\ ChangeHolds(requests[r])

AccountsInv == AccountShapes /\ MembersStored /\ Founders /\ Inviters /\ RequestsHold

Pending == {"invite", "insert", "active", "disabled", "remove"}

(* The invariant gives the admin.                                          *)
LEMMA AdminGiven == AccountsInv => AdminRemains
  BY DEF AccountsInv, AccountShapes, MembersStored, Founders, Inviters, IsFounder, AdminRemains

LEMMA AccountsInitial == AccountsInit => AccountsInv
  BY DEF AccountsInit, AccountsInv, AccountShapes, MembersStored, Founders, Inviters, IsFounder, RequestsHold, InviteHolds,
         ChangeHolds, Row, NothingRead, Fresh, Exists

(* A request that has read goes on with something the invariant allows.       *)
LEMMA RequestReplaced ==
    ASSUME AccountsInv, NEW r \in Clients, NEW q, InviteHolds(q) /\ ChangeHolds(q),
           requests' = [requests EXCEPT ![r] = q], UNCHANGED <<accounts, companies, members>>
    PROVE  AccountsInv'
  <1>1. AccountShapes'
    BY DEF AccountsInv, AccountShapes
  <1>2. MembersStored' /\ Founders' /\ Inviters'
    BY DEF AccountsInv, MembersStored, Founders, Inviters, IsFounder, Row, Exists
  <1>3. \A p : InviteHolds(p)' <=> InviteHolds(p)
    BY DEF InviteHolds, IsFounder, Row, Exists
  <1>4. \A p : ChangeHolds(p)' <=> ChangeHolds(p)
    BY DEF ChangeHolds, IsFounder, Row, Exists
  <1>5. \A p \in Clients : requests'[p] = q \/ requests'[p] = requests[p]
    BY DEF AccountsInv, AccountShapes
  <1>6. RequestsHold'
    <2> SUFFICES ASSUME NEW p \in Clients
                 PROVE  InviteHolds(requests[p])' /\ ChangeHolds(requests[p])'
      BY DEF RequestsHold
    <2>1. PICK d : d = requests'[p]
      OBVIOUS
    <2>2. InviteHolds(d) /\ ChangeHolds(d)
      BY <2>1, <1>5 DEF AccountsInv, RequestsHold
    <2>3. InviteHolds(d)' /\ ChangeHolds(d)'
      BY <2>2, <1>3, <1>4
    <2> QED
      BY <2>1, <2>3
  <1> QED
    BY <1>1, <1>2, <1>6 DEF AccountsInv

(* A request that has only read, and holds nothing the invariant is about.    *)
LEMMA ReadsKeep ==
    ASSUME AccountsInv, NEW r \in Clients, NEW q, q.step \notin Pending,
           requests' = [requests EXCEPT ![r] = q], UNCHANGED <<accounts, companies, members>>
    PROVE  AccountsInv'
  <1>1. InviteHolds(q) /\ ChangeHolds(q)
    BY DEF InviteHolds, ChangeHolds, Pending
  <1> QED
    BY <1>1, RequestReplaced

(* What a change of the tables must keep for the requests under way: the same  *)
(* founders among the accounts that remain, and no account come back.        *)
Keeps ==
    /\ companies \subseteq companies'
    /\ \A c \in companies, u \in Ids : Exists(u)' => (IsFounder(c, u)' <=> IsFounder(c, u))
    /\ \A u \in Ids : accounts[u].state # "fresh" => accounts'[u].state # "fresh"
    /\ \A u \in Ids : Exists(u)' => Exists(u) \/ accounts[u].state = "fresh"

LEMMA RequestsKeep ==
    ASSUME AccountsInv, AccountShapes', MembersStored', Founders', Inviters', Keeps,
           \A q \in Clients : requests'[q].step \in Pending => requests'[q] = requests[q]
    PROVE  AccountsInv'
  <1>1. ASSUME NEW p, InviteHolds(p) PROVE InviteHolds(p)'
    BY <1>1 DEF InviteHolds, Keeps
  <1>2. ASSUME NEW p, ChangeHolds(p) PROVE ChangeHolds(p)'
    <2> SUFFICES ASSUME p.step \in {"active", "disabled", "remove"}
                 PROVE  p.user \in Ids /\ p.company \in companies' /\ ~IsFounder(p.company, p.user)'
      BY DEF ChangeHolds
    <2>1. p.user \in Ids /\ p.company \in companies /\ ~IsFounder(p.company, p.user)
      BY <1>2 DEF ChangeHolds
    <2>2. IsFounder(p.company, p.user)' => Exists(p.user)'
      BY DEF IsFounder
    <2> QED
      BY <2>1, <2>2 DEF Keeps
  <1>3. RequestsHold'
    <2> SUFFICES ASSUME NEW r \in Clients
                 PROVE  InviteHolds(requests[r])' /\ ChangeHolds(requests[r])'
      BY DEF RequestsHold
    <2>1. PICK d : d = requests'[r]
      OBVIOUS
    <2>2. CASE d.step \in Pending
      <3>1. InviteHolds(d) /\ ChangeHolds(d)
        BY <2>1, <2>2 DEF AccountsInv, RequestsHold
      <3>2. InviteHolds(d)' /\ ChangeHolds(d)'
        BY <3>1, <1>1, <1>2
      <3> QED
        BY <2>1, <3>2
    <2>3. CASE d.step \notin Pending
      <3>1. InviteHolds(d)' /\ ChangeHolds(d)'
        BY <2>3 DEF InviteHolds, ChangeHolds, Pending
      <3> QED
        BY <2>1, <3>1
    <2> QED
      BY <2>2, <2>3
  <1> QED
    BY <1>3 DEF AccountsInv
RequestsEnd ==
    /\ requests' = [r \in Clients |-> requests'[r]]
    /\ \A q \in Clients : requests'[q].step \in Pending => requests'[q] = requests[q]

(* The accounts that exist stay, perhaps changed.                           *)
LEMMA AccountsKeep ==
    ASSUME AccountsInv, accounts' = [u \in Ids |-> accounts'[u]], UNCHANGED <<companies, members>>,
           \A u \in Ids : Exists(u)' <=> Exists(u),
           \A u \in Ids : accounts[u].state # "fresh" => accounts'[u].state # "fresh",
           RequestsEnd
    PROVE  AccountsInv'
  <1>1. AccountShapes'
    BY DEF AccountsInv, AccountShapes, RequestsEnd
  <1>2. \A c, u : Row(c, u)' = Row(c, u)
    BY DEF Row
  <1>3. \A c, u : IsFounder(c, u)' <=> IsFounder(c, u)
    BY <1>2 DEF IsFounder
  <1>4. MembersStored' /\ Founders' /\ Inviters'
    <2>1. MembersStored'
      BY <1>2 DEF AccountsInv, MembersStored
    <2>2. Founders'
      BY <1>2 DEF AccountsInv, Founders
    <2>3. Inviters'
      <3> SUFFICES ASSUME NEW c \in Companies, NEW u \in Ids, Row(c, u)' # NotMember
                   PROVE  IsFounder(c, Row(c, u).by)'
        BY DEF Inviters
      <3>1. PICK f : f = Row(c, u).by
        OBVIOUS
      <3>2. IsFounder(c, f)
        BY <3>1, <1>2 DEF AccountsInv, Inviters
      <3> QED
        BY <3>1, <3>2, <1>2, <1>3
    <2> QED
      BY <2>1, <2>2, <2>3
  <1>5. Keeps
    BY <1>3 DEF Keeps
  <1> QED
    BY <1>1, <1>4, <1>5, RequestsKeep DEF RequestsEnd

(* One membership that is not an admin's is written or deleted.              *)
LEMMA RowKeeps ==
    ASSUME AccountsInv, accounts' = [u \in Ids |-> accounts'[u]], UNCHANGED companies, RequestsEnd,
           NEW c \in companies, NEW u \in Ids, NEW row,
           Row(c, u) = NotMember \/ Row(c, u).role = "member",
           row = NotMember \/ (/\ row \in MemberRows /\ row.role = "member"
                              /\ Exists(u)' /\ IsFounder(c, row.by)),
           members' = [members EXCEPT ![c][u] = row],
           \A v \in Ids : Exists(v) => Exists(v)',
           \A v \in Ids : Exists(v)' => Exists(v) \/ accounts[v].state = "fresh",
           \A v \in Ids : accounts[v].state # "fresh" => accounts'[v].state # "fresh"
    PROVE  AccountsInv'
  <1>1. AccountShapes'
    BY DEF AccountsInv, AccountShapes, RequestsEnd
  <1>2. /\ Row(c, u)' = row
        /\ \A d \in Companies, v \in Ids : d # c \/ v # u => Row(d, v)' = Row(d, v)
    BY DEF AccountsInv, AccountShapes, Row
  <1>3. ASSUME NEW d \in Companies, NEW v \in Ids, IsFounder(d, v) PROVE IsFounder(d, v)'
    BY <1>2, <1>3 DEF IsFounder
  <1>4. ASSUME NEW d \in Companies, NEW v \in Ids, IsFounder(d, v)' PROVE IsFounder(d, v)
    <2>1. d # c \/ v # u
      BY <1>2, <1>4 DEF IsFounder, MemberRows
    <2>2. Row(d, v)' = Row(d, v)
      BY <1>2, <2>1
    <2>3. Exists(v)
      BY <1>4, <2>2 DEF IsFounder, AccountsInv, MembersStored
    <2> QED
      BY <1>4, <2>2, <2>3 DEF IsFounder
  <1>5. MembersStored'
    BY <1>1, <1>2 DEF AccountsInv, MembersStored, AccountShapes
  <1>6. Founders'
    BY <1>2 DEF AccountsInv, Founders, MemberRows
  <1>7. Inviters'
    <2> SUFFICES ASSUME NEW d \in Companies, NEW v \in Ids, Row(d, v)' # NotMember
                 PROVE  IsFounder(d, Row(d, v).by)'
      BY DEF Inviters
    <2>1. PICK f : f = Row(d, v)'.by
      OBVIOUS
    <2>2. IsFounder(d, f)
      <3>1. CASE d = c /\ v = u
        BY <3>1, <1>2, <2>1
      <3>2. CASE d # c \/ v # u
        BY <3>2, <1>2, <2>1 DEF AccountsInv, Inviters
      <3> QED
        BY <3>1, <3>2
    <2>3. IsFounder(d, f)'
      BY <2>2, <1>3 DEF IsFounder
    <2> QED
      BY <2>1, <2>3
  <1>8. Keeps
    BY <1>3, <1>4 DEF Keeps, AccountsInv, AccountShapes
  <1> QED
    BY <1>1, <1>5, <1>6, <1>7, <1>8, RequestsKeep DEF RequestsEnd

(* An account is stored or replaced, perhaps with a company it founds.        *)
LEMMA StoreKeeps ==
    ASSUME AccountsInv, RequestsEnd, NEW u \in Ids, NEW account, Store(u, account),
           account.state = "stored", account.company \in {None} \cup Unfounded,
           Exists(u) \/ accounts[u] = Fresh
    PROVE  AccountsInv'
  <1>1. /\ accounts' = [v \in Ids |-> accounts'[v]]
        /\ \A v \in Ids : Exists(v) => Exists(v)'
        /\ \A v \in Ids : Exists(v)' => Exists(v) \/ accounts[v].state = "fresh"
        /\ \A v \in Ids : accounts[v].state # "fresh" => accounts'[v].state # "fresh"
        /\ Exists(u)'
    <2>1. accounts' = [accounts EXCEPT ![u] = account]
      BY DEF Store
    <2>2. accounts = [v \in Ids |-> accounts[v]]
      BY DEF AccountsInv, AccountShapes
    <2>3. /\ accounts' = [v \in Ids |-> accounts'[v]]
          /\ \A v \in Ids : accounts'[v] = IF v = u THEN account ELSE accounts[v]
      BY <2>1, <2>2
    <2>4. accounts[u].state = "stored" \/ accounts[u].state = "fresh"
      BY DEF Exists, Fresh
    <2> QED
      BY <2>3, <2>4 DEF Exists
  <1>2. CASE account.company = None
    <2>1. UNCHANGED <<companies, members>>
      BY <1>2 DEF Store
    <2>2. AccountShapes'
      BY <2>1, <1>1 DEF AccountsInv, AccountShapes, RequestsEnd
    <2>3. \A c, v : Row(c, v)' = Row(c, v)
      BY <2>1 DEF Row
    <2>4. ASSUME NEW c \in Companies, NEW v \in Ids PROVE IsFounder(c, v)' <=> IsFounder(c, v)
      BY <2>3, <1>1 DEF IsFounder, AccountsInv, MembersStored
    <2>5. MembersStored' /\ Founders'
      BY <2>1, <2>3, <1>1 DEF AccountsInv, MembersStored, Founders
    <2>6. Inviters'
      <3> SUFFICES ASSUME NEW c \in Companies, NEW v \in Ids, Row(c, v)' # NotMember
                   PROVE  IsFounder(c, Row(c, v).by)'
        BY DEF Inviters
      <3>1. PICK f : f = Row(c, v).by
        OBVIOUS
      <3>2. IsFounder(c, f)
        BY <3>1, <2>3 DEF AccountsInv, Inviters
      <3>3. f \in Ids
        BY <3>2 DEF IsFounder
      <3> QED
        BY <3>1, <3>2, <3>3, <2>3, <2>4
    <2>7. Keeps
      BY <2>1, <2>4, <1>1 DEF Keeps, AccountsInv, AccountShapes
    <2> QED
      BY <2>2, <2>5, <2>6, <2>7, RequestsKeep DEF RequestsEnd
  <1>3. CASE account.company # None
    <2> DEFINE new == account.company
    <2>1. new \in Companies \ companies /\ companies' = companies \cup {new}
      BY <1>3 DEF Store, Unfounded
    <2>2. members' = [members EXCEPT ![new][u] = Membership("admin", "active", u)]
      BY <1>3 DEF Store
    <2> HIDE DEF new
    <2>3. AccountShapes'
      BY <2>1, <2>2, <1>1 DEF AccountsInv, AccountShapes, RequestsEnd
    <2>4. /\ Row(new, u)' = Membership("admin", "active", u)
          /\ \A c \in Companies, v \in Ids : c # new \/ v # u => Row(c, v)' = Row(c, v)
          /\ \A v \in Ids : Row(new, v) = NotMember
      <3>1. \A v \in Ids : Row(new, v) = NotMember
        BY <2>1 DEF AccountsInv, MembersStored
      <3> QED
        BY <3>1, <2>1, <2>2 DEF AccountsInv, AccountShapes, Row
    <2>5. ASSUME NEW c \in companies, NEW v \in Ids PROVE IsFounder(c, v)' <=> IsFounder(c, v)
      <3>1. Row(c, v)' = Row(c, v) /\ c \in Companies
        BY <2>1, <2>4 DEF AccountsInv, AccountShapes
      <3> QED
        BY <3>1, <1>1 DEF IsFounder, AccountsInv, MembersStored
    <2>6. IsFounder(new, u)'
      BY <2>4, <1>1 DEF IsFounder, Membership, NotMember
    <2>7. Membership("admin", "active", u) \in MemberRows
      BY DEF Membership, MemberRows
    <2>8. MembersStored'
      BY <2>1, <2>4, <2>7, <1>1 DEF AccountsInv, MembersStored
    <2>9. Founders'
      BY <2>4 DEF AccountsInv, Founders, Membership
    <2>10. Inviters'
      <3> SUFFICES ASSUME NEW c \in Companies, NEW v \in Ids, Row(c, v)' # NotMember
                   PROVE  IsFounder(c, Row(c, v).by)'
        BY DEF Inviters
      <3>1. PICK f : f = Row(c, v)'.by
        OBVIOUS
      <3>2. CASE c = new
        <4>1. v = u /\ f = u
          BY <3>1, <3>2, <2>4 DEF Membership
        <4> QED
          BY <4>1, <3>1, <3>2, <2>6
      <3>3. CASE c # new
        <4>1. c \in companies /\ IsFounder(c, f) /\ f \in Ids
          BY <3>1, <3>3, <2>4 DEF AccountsInv, Inviters, MembersStored, IsFounder
        <4> QED
          BY <4>1, <3>1, <2>5
      <3> QED
        BY <3>2, <3>3
    <2>11. Keeps
      BY <2>1, <2>5, <1>1 DEF Keeps
    <2> QED
      BY <2>3, <2>8, <2>9, <2>10, <2>11, RequestsKeep DEF RequestsEnd
  <1> QED
    BY <1>2, <1>3

(* The tables stay as they are, except for a company without members.        *)
LEMMA CompaniesGrow ==
    ASSUME AccountsInv, UNCHANGED <<accounts, members>>, RequestsEnd,
           companies \subseteq companies', companies' \subseteq Companies
    PROVE  AccountsInv'
  <1>1. AccountShapes'
    BY DEF AccountsInv, AccountShapes, RequestsEnd
  <1>2. /\ \A c, u : Row(c, u)' = Row(c, u)
        /\ \A u : Exists(u)' <=> Exists(u)
    BY DEF Row, Exists
  <1>3. \A c, u : IsFounder(c, u)' <=> IsFounder(c, u)
    BY <1>2 DEF IsFounder
  <1>4. MembersStored' /\ Founders'
    BY <1>2 DEF AccountsInv, MembersStored, Founders
  <1>5. Inviters'
    BY DEF AccountsInv, Inviters, IsFounder, Row, Exists
  <1>6. Keeps
    BY <1>2, <1>3 DEF Keeps
  <1> QED
    BY <1>1, <1>4, <1>5, <1>6, RequestsKeep DEF RequestsEnd

(* An account nobody else's membership names is deleted with its memberships. *)
LEMMA DeletionKeeps ==
    ASSUME AccountsInv, RequestsEnd, NEW u \in Ids, Cascade(u), UNCHANGED companies,
           \A c \in companies, v \in Ids \ {u} : Row(c, v) # NotMember => Row(c, v).by # u
    PROVE  AccountsInv'
  <1>1. /\ AccountShapes'
        /\ \A v \in Ids : accounts'[v] = IF v = u THEN Gone ELSE accounts[v]
    BY DEF Cascade, AccountsInv, AccountShapes, RequestsEnd
  <1>2. \A c \in Companies, v \in Ids : Row(c, v)' = IF v = u THEN NotMember ELSE Row(c, v)
    BY DEF Cascade, AccountsInv, AccountShapes, Row
  <1>3. ~Exists(u)' /\ \A v \in Ids \ {u} : Exists(v)' <=> Exists(v)
    BY <1>1 DEF Exists, Gone
  <1>4. ASSUME NEW c \in Companies, NEW v \in Ids \ {u} PROVE IsFounder(c, v)' <=> IsFounder(c, v)
    BY <1>2, <1>3 DEF IsFounder
  <1>5. MembersStored' /\ Founders'
    BY <1>2, <1>3 DEF AccountsInv, MembersStored, Founders
  <1>6. Inviters'
    <2> SUFFICES ASSUME NEW c \in Companies, NEW v \in Ids, Row(c, v)' # NotMember
                 PROVE  IsFounder(c, Row(c, v).by)'
      BY DEF Inviters
    <2>1. PICK f : f = Row(c, v)'.by
      OBVIOUS
    <2>2. v # u /\ Row(c, v)' = Row(c, v)
      BY <1>2
    <2>3. IsFounder(c, f) /\ f \in Ids \ {u}
      BY <2>1, <2>2 DEF AccountsInv, Inviters, MembersStored, IsFounder
    <2> QED
      BY <2>1, <2>3, <1>4
  <1>7. Keeps
    <2>1. \A v \in Ids : accounts[v].state # "fresh" => accounts'[v].state # "fresh"
      BY <1>1 DEF Gone
    <2> QED
      BY <2>1, <1>3, <1>4 DEF Keeps, AccountsInv, AccountShapes
  <1> QED
    BY <1>1, <1>5, <1>6, <1>7, RequestsKeep DEF RequestsEnd
-----------------------------------------------------------------------------
(* A statement about a membership outside the table changes nothing.          *)
LEMMA NoSuchRow ==
    ASSUME AccountShapes, NEW c, NEW u, c \notin Companies \/ u \notin Ids, NEW row,
           members' = [members EXCEPT ![c][u] = row]
    PROVE  members' = members
  <1> DEFINE rows == [members[c] EXCEPT ![u] = row]
  <1>1. members = [d \in Companies |-> members[d]]
    BY DEF AccountShapes
  <1>2. [members EXCEPT ![c][u] = row] = [members EXCEPT ![c] = rows]
    OBVIOUS
  <1>3. CASE c \notin Companies
    BY <1>1, <1>2, <1>3
  <1>4. CASE c \in Companies /\ u \notin Ids
    <2>1. members[c] = [v \in Ids |-> members[c][v]]
      BY <1>4 DEF AccountShapes
    <2>2. rows = members[c]
      BY <1>4, <2>1
    <2> HIDE DEF rows
    <2> QED
      BY <1>1, <1>2, <2>2
  <1> QED
    BY <1>3, <1>4

LEMMA AccountsPreserved == AccountsInv /\ [AccountsNext]_accountsVars => AccountsInv'
  <1> SUFFICES ASSUME AccountsInv, [AccountsNext]_accountsVars PROVE AccountsInv'
    OBVIOUS
  <1>1. requests = [r \in Clients |-> requests[r]]
    BY DEF AccountsInv, AccountShapes
  <1>2. ASSUME NEW r \in Clients, Conclude(r) PROVE RequestsEnd
    BY <1>1, <1>2 DEF Conclude, RequestsEnd, NothingRead, Pending
  <1>3. ASSUME NEW r \in Clients, NEW q, q.step \notin Pending, GoOn(r, q) PROVE RequestsEnd
    BY <1>1, <1>3 DEF GoOn, RequestsEnd
  <1>4. ASSUME NEW r \in Clients, NEW q, q.step \notin Pending, BeginWith(r, q) \/ GoOn(r, q),
               UNCHANGED <<accounts, companies, members>>
        PROVE  AccountsInv'
    BY <1>4, ReadsKeep DEF BeginWith, GoOn
  <1>5. ASSUME NEW u, accounts' = Verified(u), UNCHANGED <<companies, members>>, RequestsEnd
        PROVE  AccountsInv'
    <2>1. accounts = [v \in Ids |-> accounts[v]]
      BY DEF AccountsInv, AccountShapes
    <2>2. accounts' = IF Exists(u) THEN [accounts EXCEPT ![u].verified = TRUE] ELSE accounts
      BY <1>5 DEF Verified
    <2>3. accounts' = [v \in Ids |-> accounts'[v]]
      BY <2>1, <2>2
    <2>4. \A v \in Ids : accounts'[v].state = accounts[v].state
      BY <2>1, <2>2
    <2> QED
      BY <1>5, <2>3, <2>4, AccountsKeep DEF Exists
  <1>10. ASSUME NEW r \in Clients, NEW email \in Emails, NEW role \in {"b2b", "b2c"},
                register(r, email, role)
         PROVE  AccountsInv'
    BY <1>10, <1>4 DEF register, Pending
  <1>11. ASSUME NEW r \in Clients, NEW email \in Emails, NEW role \in {"b2b", "b2c"},
                handleGoogleAuth(r, email, role)
         PROVE  AccountsInv'
    BY <1>11, <1>4 DEF handleGoogleAuth, Pending
  <1>12. ASSUME NEW r \in Clients, NEW email \in Emails, verifyEmail(r, email) PROVE AccountsInv'
    BY <1>12, <1>4 DEF verifyEmail, Pending
  <1>13. ASSUME NEW r \in Clients, NEW email \in Emails, NEW c \in companies,
                acceptCompanyInvite(r, email, c)
         PROVE  AccountsInv'
    BY <1>13, <1>4 DEF acceptCompanyInvite, Pending
  <1>14. ASSUME NEW r \in Clients, NEW email \in Emails, NEW c \in companies, NEW by \in Ids,
                createMember(r, by, c, email)
         PROVE  AccountsInv'
    <2> DEFINE q == [step |-> "invite", by |-> by, company |-> c, email |-> email]
    <2>1. InviteHolds(q) /\ ChangeHolds(q)
      BY <1>14 DEF createMember, IsAdmin, InviteHolds, ChangeHolds, IsFounder, Exists, NotMember
    <2>2. requests' = [requests EXCEPT ![r] = q] /\ UNCHANGED <<accounts, companies, members>>
      BY <1>14 DEF createMember, BeginWith
    <2> QED
      BY <2>1, <2>2, RequestReplaced
  <1>15. ASSUME NEW r \in Clients, readInvited(r) PROVE AccountsInv'
    <2> DEFINE p == requests[r]
               q == [step |-> "insert", by |-> p.by, company |-> p.company,
                     email |-> p.email, found |-> getUserByEmail(p.email)]
    <2>1. InviteHolds(p)
      BY DEF AccountsInv, RequestsHold
    <2>2. InviteHolds(q) /\ ChangeHolds(q)
      BY <2>1, <1>15 DEF readInvited, At, InviteHolds, ChangeHolds
    <2>3. requests' = [requests EXCEPT ![r] = q] /\ UNCHANGED <<accounts, companies, members>>
      BY <1>15 DEF readInvited, GoOn
    <2> HIDE DEF q
    <2> QED
      BY <2>2, <2>3, RequestReplaced
  <1>16. ASSUME NEW r \in Clients, NEW by \in Ids, NEW u \in Ids, NEW c \in companies,
                NEW change \in {"active", "disabled", "remove"},
                findMemberForMutation(r, by, c, u, change)
         PROVE  AccountsInv'
    <2> DEFINE q == [step |-> change, company |-> c, user |-> u]
    <2>1. InviteHolds(q) /\ ChangeHolds(q)
      BY <1>16 DEF findMemberForMutation, InviteHolds, ChangeHolds, IsFounder
    <2>2. requests' = [requests EXCEPT ![r] = q] /\ UNCHANGED <<accounts, companies, members>>
      BY <1>16 DEF findMemberForMutation, BeginWith
    <2> QED
      BY <2>1, <2>2, RequestReplaced
  <1>17. ASSUME NEW r \in Clients, checkInvitation(r) \/ findCompanyMembership(r) PROVE AccountsInv'
    BY <1>17, <1>4 DEF checkInvitation, findCompanyMembership, Pending
  <1>18. ASSUME NEW r \in Clients, readGoogleUser(r) PROVE AccountsInv'
    BY <1>18, <1>4 DEF readGoogleUser, Pending
  <1>19. ASSUME NEW r \in Clients, abandon(r) PROVE AccountsInv'
    BY <1>19, ReadsKeep DEF abandon, Conclude, NothingRead, Pending
  <1>20. ASSUME NEW r \in Clients, NEW u \in Ids, createCompany(r, u) PROVE AccountsInv'
    BY <1>20, <1>4 DEF createCompany, Pending
  <1>21. ASSUME NEW r \in Clients, markEmailVerified(r) \/ acceptVerified(r) PROVE AccountsInv'
    <2>1. RequestsEnd
      BY <1>21, <1>2, <1>3 DEF markEmailVerified, acceptVerified, Pending
    <2> QED
      BY <1>21, <2>1, <1>5 DEF markEmailVerified, acceptVerified
  <1>22. ASSUME NEW r \in Clients, deleteUser(r) PROVE AccountsInv'
    <2> DEFINE u == requests[r].user
    <2>1. RequestsEnd
      BY <1>22, <1>3 DEF deleteUser, Pending
    <2>2. CASE u \in Ids
      BY <1>22, <2>1, <2>2, DeletionKeeps DEF deleteUser
    <2>3. CASE u \notin Ids
      <3>1. UNCHANGED <<accounts, companies, members>>
        BY <1>22, <2>3 DEF deleteUser, Cascade, AccountsInv, AccountShapes
      <3> QED
        BY <3>1, <2>1, CompaniesGrow DEF AccountsInv, AccountShapes
    <2> QED
      BY <2>2, <2>3
  <1>23. ASSUME NEW r \in Clients, createUser(r) PROVE AccountsInv'
    <2>1. RequestsEnd
      BY <1>23, <1>2 DEF createUser
    <2>2. PICK u \in Unchosen :
            \E company \in {None} \cup IF requests[r].role = "b2b" THEN Unfounded ELSE {} :
               Store(u, Account(requests[r].email, requests[r].role, FALSE, company))
      BY <1>23 DEF createUser
    <2>3. PICK company \in {None} \cup Unfounded :
            Store(u, Account(requests[r].email, requests[r].role, FALSE, company))
      BY <2>2
    <2> DEFINE account == Account(requests[r].email, requests[r].role, FALSE, company)
    <2>4. account.state = "stored" /\ account.company = company
      BY DEF Account
    <2> HIDE DEF account
    <2>5. Store(u, account)
      BY <2>3 DEF account
    <2> QED
      BY <2>1, <2>4, <2>5, StoreKeeps DEF Unchosen
  <1>24. ASSUME NEW r \in Clients, insertGoogleUser(r) PROVE AccountsInv'
    <2>1. RequestsEnd
      BY <1>24, <1>2 DEF insertGoogleUser
    <2>2. PICK u \in Unchosen, company \in {None} \cup Unfounded :
            Store(u, Account(requests[r].email, requests[r].role, TRUE, company))
      BY <1>24 DEF insertGoogleUser
    <2> DEFINE account == Account(requests[r].email, requests[r].role, TRUE, company)
    <2>3. account.state = "stored" /\ account.company = company
      BY DEF Account
    <2> HIDE DEF account
    <2>4. Store(u, account)
      BY <2>2 DEF account
    <2> QED
      BY <2>1, <2>3, <2>4, StoreKeeps DEF Unchosen
  <1>25. ASSUME NEW r \in Clients, insertCompany(r) PROVE AccountsInv'
    <2>1. RequestsEnd
      BY <1>25, <1>2 DEF insertCompany
    <2>2. PICK u : u = requests[r].user
      OBVIOUS
    <2>3. PICK company \in Unfounded :
            Store(u, Account(accounts[u].email, accounts[u].role, accounts[u].verified, company))
      BY <1>25, <2>2 DEF insertCompany
    <2>4. Exists(u)
      BY <1>25, <2>2 DEF insertCompany
    <2> DEFINE account == Account(accounts[u].email, accounts[u].role, accounts[u].verified, company)
    <2>5. account.state = "stored" /\ account.company = company
      BY DEF Account
    <2> HIDE DEF account
    <2>6. Store(u, account)
      BY <2>3 DEF account
    <2>7. CASE u \in Ids
      BY <2>1, <2>4, <2>5, <2>6, <2>7, StoreKeeps
    <2>8. CASE u \notin Ids
      <3>1. accounts' = accounts
        BY <2>6, <2>8 DEF Store, AccountsInv, AccountShapes
      <3>2. members' = members
        <4>1. members' = members
              \/ members' = [members EXCEPT ![company][u] = Membership("admin", "active", u)]
          BY <2>5, <2>6 DEF Store
        <4> QED
          BY <4>1, <2>8, NoSuchRow DEF AccountsInv
      <3>3. companies \subseteq companies' /\ companies' \subseteq Companies
        BY <2>5, <2>6 DEF Store, Unfounded, AccountsInv, AccountShapes
      <3> QED
        BY <3>1, <3>2, <3>3, <2>1, CompaniesGrow
    <2> QED
      BY <2>7, <2>8
  <1>26. ASSUME NEW r \in Clients, NEW c, NEW u, NEW status, status \in {"active", "disabled"},
                c \in Companies /\ u \in Ids => Row(c, u) # NotMember /\ Row(c, u).role = "member",
                members' = [members EXCEPT ![c][u].status = status],
                UNCHANGED <<accounts, companies>>, RequestsEnd
         PROVE  AccountsInv'
    <2>1. CASE c \in Companies /\ u \in Ids
      <3>1. Row(c, u) \in MemberRows /\ c \in companies /\ Exists(u)
        BY <1>26, <2>1 DEF AccountsInv, MembersStored
      <3>2. PICK row : row = [Row(c, u) EXCEPT !.status = status]
        OBVIOUS
      <3>3. row \in MemberRows /\ row.role = "member" /\ row.by = Row(c, u).by
        BY <3>1, <3>2, <1>26, <2>1 DEF MemberRows
      <3>4. IsFounder(c, row.by)
        BY <3>3, <1>26, <2>1 DEF AccountsInv, Inviters
      <3>5. members' = [members EXCEPT ![c][u] = row]
        BY <1>26, <3>2 DEF Row
      <3>6. /\ UNCHANGED companies /\ RequestsEnd
            /\ \A v \in Ids : Exists(v)' <=> Exists(v)
            /\ \A v \in Ids : accounts[v].state # "fresh" => accounts'[v].state # "fresh"
        BY <1>26 DEF Exists
      <3>7. accounts' = [v \in Ids |-> accounts'[v]]
        BY <1>26 DEF AccountsInv, AccountShapes
      <3>8. Row(c, u).role = "member" /\ Exists(u)'
        BY <1>26, <2>1, <3>1, <3>6
      <3> HIDE <1>26
      <3> QED
        BY <2>1, <3>1, <3>3, <3>4, <3>5, <3>6, <3>7, <3>8, RowKeeps
    <2>2. CASE c \notin Companies \/ u \notin Ids
      <3>1. PICK row : row = [Row(c, u) EXCEPT !.status = status]
        OBVIOUS
      <3>2. members' = [members EXCEPT ![c][u] = row]
        BY <1>26, <3>1 DEF Row
      <3>3. members' = members
        BY <3>2, <2>2, NoSuchRow DEF AccountsInv
      <3> QED
        BY <3>3, <1>26, CompaniesGrow DEF AccountsInv, AccountShapes
    <2> QED
      BY <2>1, <2>2
  <1>27. ASSUME NEW r \in Clients, activateCompanyMembership(r) PROVE AccountsInv'
    <2>1. PICK c, u : c = requests[r].company /\ u = requests[r].user
      OBVIOUS
    <2>2. /\ members' = IF Row(c, u).status = "invited"
                       THEN [members EXCEPT ![c][u].status = "active"] ELSE members
          /\ UNCHANGED <<accounts, companies>> /\ RequestsEnd
      BY <1>27, <1>2, <2>1 DEF activateCompanyMembership
    <2>3. CASE Row(c, u).status = "invited"
      <3>1. c \in Companies /\ u \in Ids => Row(c, u) # NotMember /\ Row(c, u).role = "member"
        BY <2>3 DEF AccountsInv, MembersStored, Founders, MemberRows, NotMember
      <3> QED
        BY <3>1, <2>2, <2>3, <1>26
    <2>4. CASE Row(c, u).status # "invited"
      BY <2>2, <2>4, CompaniesGrow DEF AccountsInv, AccountShapes
    <2> QED
      BY <2>3, <2>4
  <1>28. ASSUME NEW r \in Clients, updateMember(r) PROVE AccountsInv'
    <2>1. PICK c, u, status : c = requests[r].company /\ u = requests[r].user
                              /\ status = requests[r].step
      OBVIOUS
    <2>2. /\ status \in {"active", "disabled"} /\ Row(c, u) # NotMember
          /\ members' = [members EXCEPT ![c][u].status = status]
          /\ UNCHANGED <<accounts, companies>> /\ RequestsEnd
      BY <1>28, <1>2, <2>1 DEF updateMember
    <2>3. ChangeHolds(requests[r])
      BY DEF AccountsInv, RequestsHold
    <2>4. u \in Ids /\ c \in companies /\ ~IsFounder(c, u)
      BY <2>1, <2>2, <2>3 DEF ChangeHolds
    <2>5. c \in Companies /\ Row(c, u).role = "member"
      BY <2>2, <2>4 DEF AccountsInv, AccountShapes, MembersStored, IsFounder, MemberRows
    <2> QED
      BY <2>2, <2>5, <1>26
  <1>29. ASSUME NEW r \in Clients, deleteMember(r) PROVE AccountsInv'
    <2>1. PICK c, u : c = requests[r].company /\ u = requests[r].user
      OBVIOUS
    <2>2. /\ requests[r].step = "remove" /\ Row(c, u) # NotMember
          /\ members' = [members EXCEPT ![c][u] = NotMember]
          /\ UNCHANGED <<accounts, companies>> /\ EndAll(c, u, r)
      BY <1>29, <2>1 DEF deleteMember, At
    <2>3. ChangeHolds(requests[r])
      BY DEF AccountsInv, RequestsHold
    <2>4. u \in Ids /\ c \in companies /\ ~IsFounder(c, u)
      BY <2>1, <2>2, <2>3 DEF ChangeHolds
    <2>5. c \in Companies /\ Row(c, u).role = "member"
      BY <2>2, <2>4 DEF AccountsInv, AccountShapes, MembersStored, IsFounder, MemberRows
    <2>6. RequestsEnd
      BY <2>2 DEF EndAll, RequestsEnd, NothingRead, Pending
    <2>7. \A v \in Ids : Exists(v)' <=> Exists(v)
      BY <2>2 DEF Exists
    <2>8. accounts' = [v \in Ids |-> accounts'[v]]
      BY <2>2 DEF AccountsInv, AccountShapes
    <2> QED
      BY <2>2, <2>4, <2>5, <2>6, <2>7, <2>8, RowKeeps
  <1>30. ASSUME NEW r \in Clients, insertMember(r) PROVE AccountsInv'
    <2>1. PICK c, by : c = requests[r].company /\ by = requests[r].by
      OBVIOUS
    <2>2. requests[r].step = "insert" /\ Exists(by) /\ RequestsEnd /\ UNCHANGED companies
      BY <1>30, <2>1, <1>2 DEF insertMember, At
    <2>3. InviteHolds(requests[r])
      BY DEF AccountsInv, RequestsHold
    <2>4. by \in Ids /\ c \in companies /\ IsFounder(c, by)
      BY <2>1, <2>2, <2>3 DEF InviteHolds
    <2>5. PICK row : row = Membership("member", "invited", by)
      OBVIOUS
    <2>6. row \in MemberRows /\ row.role = "member" /\ row.by = by
      BY <2>4, <2>5 DEF Membership, MemberRows
    <2>7. ASSUME NEW u, u \in requests[r].found, Exists(u), Row(c, u) = NotMember,
                 members' = [members EXCEPT ![c][u] = row],
                 accounts' = [accounts EXCEPT ![u].company = IF @ = None THEN c ELSE @]
          PROVE  AccountsInv'
      <3>1. accounts = [v \in Ids |-> accounts[v]]
        BY DEF AccountsInv, AccountShapes
      <3>2. /\ accounts' = [v \in Ids |-> accounts'[v]]
            /\ \A v \in Ids : accounts'[v].state = accounts[v].state
        BY <2>7, <3>1
      <3>3. \A v \in Ids : Exists(v)' <=> Exists(v)
        BY <3>2 DEF Exists
      <3>4. CASE u \in Ids
        BY <2>2, <2>4, <2>6, <2>7, <3>2, <3>3, <3>4, RowKeeps
      <3>5. CASE u \notin Ids
        <4>1. UNCHANGED members
          BY <2>7, <3>5 DEF AccountsInv, AccountShapes
        <4> QED
          BY <4>1, <2>2, <3>2, <3>3, AccountsKeep
      <3> QED
        BY <3>4, <3>5
    <2>8. ASSUME NEW u \in Unchosen, NEW account, account.state = "stored",
                 members' = [members EXCEPT ![c][u] = row],
                 accounts' = [accounts EXCEPT ![u] = account]
          PROVE  AccountsInv'
      <3>1. u \in Ids /\ accounts[u] = Fresh /\ ~Exists(u)
        BY DEF Unchosen, Exists, Fresh
      <3>2. Row(c, u) = NotMember
        BY <3>1, <2>4 DEF AccountsInv, AccountShapes, MembersStored
      <3>3. accounts = [v \in Ids |-> accounts[v]]
        BY DEF AccountsInv, AccountShapes
      <3>4. /\ accounts' = [v \in Ids |-> accounts'[v]]
            /\ \A v \in Ids : accounts'[v] = IF v = u THEN account ELSE accounts[v]
        BY <2>8, <3>3
      <3>5. /\ Exists(u)'
            /\ \A v \in Ids : Exists(v) => Exists(v)'
            /\ \A v \in Ids : Exists(v)' => Exists(v) \/ accounts[v].state = "fresh"
            /\ \A v \in Ids : accounts[v].state # "fresh" => accounts'[v].state # "fresh"
        BY <2>8, <3>1, <3>4 DEF Exists, Fresh
      <3> QED
        BY <2>2, <2>4, <2>6, <2>8, <3>1, <3>2, <3>4, <3>5, RowKeeps
    <2>9. CASE \E u \in requests[r].found :
                 /\ Exists(u) /\ Row(requests[r].company, u) = NotMember
                 /\ Invite(requests[r].company, u, requests[r].by)
                 /\ accounts' = [accounts EXCEPT ![u].company =
                      IF @ = None THEN requests[r].company ELSE @]
      BY <2>1, <2>5, <2>7, <2>9 DEF Invite
    <2>10. CASE \E u \in Unchosen :
                  /\ Invite(requests[r].company, u, requests[r].by)
                  /\ accounts' = [accounts EXCEPT ![u] =
                       Account(requests[r].email, "b2b", FALSE, requests[r].company)]
      <3>1. PICK u \in Unchosen :
               /\ Invite(c, u, by)
               /\ accounts' = [accounts EXCEPT ![u] =
                    Account(requests[r].email, "b2b", FALSE, requests[r].company)]
        BY <2>1, <2>10
      <3>2. PICK account : account = Account(requests[r].email, "b2b", FALSE, requests[r].company)
        OBVIOUS
      <3>3. account.state = "stored"
        BY <3>2 DEF Account
      <3> QED
        BY <2>5, <2>8, <3>1, <3>2, <3>3 DEF Invite
    <2> QED
      BY <1>30, <2>9, <2>10 DEF insertMember
  <1>31. CASE UNCHANGED accountsVars
    <2>1. RequestsEnd
      BY <1>1, <1>31 DEF accountsVars, RequestsEnd
    <2> QED
      BY <2>1, <1>31, CompaniesGrow DEF accountsVars, AccountsInv, AccountShapes
  <1> QED
    BY <1>10, <1>11, <1>12, <1>13, <1>14, <1>15, <1>16, <1>17, <1>18, <1>19, <1>20, <1>21,
       <1>22, <1>23, <1>24, <1>25, <1>27, <1>28, <1>29, <1>30, <1>31 DEF AccountsNext

(* A company that anybody was invited to keeps an active admin.              *)
THEOREM AdminStays == AccountsSpec => []AdminRemains
  <1>1. AccountsInv /\ [AccountsNext]_accountsVars => AccountsInv'
    BY AccountsPreserved
  <1> QED
    BY AccountsInitial, <1>1, AdminGiven, PTL DEF AccountsSpec
-----------------------------------------------------------------------------
(* What a step does to a disabled membership.                               *)
LEMMA DisabledStep ==
    ASSUME AccountsInv, AccountsNext, NEW c \in Companies, NEW u \in Ids,
           Row(c, u).status = "disabled", members'[c][u].status = "active"
    PROVE  \E r \in Clients : /\ At(r, "active") /\ requests[r].company = c
                              /\ requests[r].user = u
  <1>1. c \in companies /\ members[c][u].status = "disabled" /\ members # members'
    BY DEF AccountsInv, MembersStored, NotMember, Row
  <1>2. members = [d \in Companies |-> [v \in Ids |-> members[d][v]]]
    BY DEF AccountsInv, AccountShapes
  <1>3. ASSUME NEW d, NEW v, NEW row, members' = [members EXCEPT ![d][v] = row],
               d # c \/ v # u \/ row.status # "active"
        PROVE  FALSE
    BY <1>1, <1>2, <1>3
  <1>4. ASSUME NEW v, NEW account, Store(v, account), account.company \in {None} \cup Unfounded
        PROVE  FALSE
    <2>1. account.company # c
      BY <1>1, <1>4 DEF Store, Unfounded
    <2>2. members' = [members EXCEPT ![account.company][v] = Membership("admin", "active", v)]
      BY <1>1, <1>4 DEF Store
    <2> QED
      BY <2>1, <2>2, <1>3
  <1>5. ASSUME NEW r \in Clients, createUser(r) PROVE FALSE
    <2>1. PICK v \in Unchosen, company \in {None} \cup Unfounded :
            Store(v, Account(requests[r].email, requests[r].role, FALSE, company))
      BY <1>5 DEF createUser
    <2>2. PICK account : account = Account(requests[r].email, requests[r].role, FALSE, company)
      OBVIOUS
    <2>3. account.company = company /\ Store(v, account)
      BY <2>1, <2>2 DEF Account
    <2> QED
      BY <2>3, <1>4
  <1>6. ASSUME NEW r \in Clients, insertGoogleUser(r) PROVE FALSE
    <2>1. PICK v \in Unchosen, company \in {None} \cup Unfounded :
            Store(v, Account(requests[r].email, requests[r].role, TRUE, company))
      BY <1>6 DEF insertGoogleUser
    <2>2. PICK account : account = Account(requests[r].email, requests[r].role, TRUE, company)
      OBVIOUS
    <2>3. account.company = company /\ Store(v, account)
      BY <2>1, <2>2 DEF Account
    <2> QED
      BY <2>3, <1>4
  <1>7. ASSUME NEW r \in Clients, insertCompany(r) PROVE FALSE
    <2>1. PICK v : v = requests[r].user
      OBVIOUS
    <2>2. PICK company \in Unfounded :
            Store(v, Account(accounts[v].email, accounts[v].role, accounts[v].verified, company))
      BY <1>7, <2>1 DEF insertCompany
    <2>3. PICK account : account = Account(accounts[v].email, accounts[v].role,
                                           accounts[v].verified, company)
      OBVIOUS
    <2>4. account.company = company /\ Store(v, account)
      BY <2>2, <2>3 DEF Account
    <2> QED
      BY <2>4, <1>4
  <1>8. ASSUME NEW r \in Clients, deleteUser(r) PROVE FALSE
    <2>1. members' = [d \in Companies |-> [members[d] EXCEPT ![requests[r].user] = NotMember]]
      BY <1>8 DEF deleteUser, Cascade
    <2>2. members'[c][u] = members[c][u] \/ members'[c][u] = NotMember
      BY <1>2, <2>1
    <2> QED
      BY <2>2, <1>1 DEF NotMember
  <1>9. ASSUME NEW r \in Clients, activateCompanyMembership(r) PROVE FALSE
    <2>1. PICK d, v : d = requests[r].company /\ v = requests[r].user
      OBVIOUS
    <2>2. members' = [members EXCEPT ![d][v].status = "active"] /\ members[d][v].status = "invited"
      BY <1>1, <1>9, <2>1 DEF activateCompanyMembership, Row
    <2>3. PICK row : row = [members[d][v] EXCEPT !.status = "active"]
      OBVIOUS
    <2>4. members' = [members EXCEPT ![d][v] = row]
      BY <2>2, <2>3
    <2> QED
      BY <1>1, <2>2, <2>4, <1>3
  <1>10. ASSUME NEW r \in Clients, insertMember(r) PROVE FALSE
    <2>1. PICK d, row : /\ d = requests[r].company
                        /\ row = Membership("member", "invited", requests[r].by)
      OBVIOUS
    <2>2. row.status = "invited"
      BY <2>1 DEF Membership
    <2>3. ASSUME NEW v, Invite(requests[r].company, v, requests[r].by) PROVE FALSE
      <3>1. members' = [members EXCEPT ![d][v] = row]
        BY <2>1, <2>3 DEF Invite
      <3> QED
        BY <3>1, <2>2, <1>3
    <2> QED
      BY <1>10, <2>3 DEF insertMember
  <1>11. ASSUME NEW r \in Clients, deleteMember(r) PROVE FALSE
    <2>1. PICK d, v, row : row = NotMember /\ members' = [members EXCEPT ![d][v] = row]
      BY <1>11 DEF deleteMember
    <2> QED
      BY <2>1, <1>3 DEF NotMember
  <1>12. ASSUME NEW r \in Clients, updateMember(r)
         PROVE  At(r, "active") /\ requests[r].company = c /\ requests[r].user = u
    <2>1. PICK d, v, status : /\ d = requests[r].company /\ v = requests[r].user
                              /\ status = requests[r].step
      OBVIOUS
    <2>2. status \in {"active", "disabled"} /\ members' = [members EXCEPT ![d][v].status = status]
      BY <1>12, <2>1 DEF updateMember
    <2>3. PICK row : row = [members[d][v] EXCEPT !.status = status]
      OBVIOUS
    <2>4. members' = [members EXCEPT ![d][v] = row]
      BY <2>2, <2>3
    <2>5. d = c /\ v = u
      BY <2>4, <1>3
    <2>6. row.status = status
      <3>1. members[c][u] \in MemberRows
        BY <1>1 DEF AccountsInv, MembersStored, MemberRows, NotMember, Row
      <3> QED
        BY <3>1, <2>3, <2>5 DEF MemberRows
    <2>7. status = "active"
      BY <1>3, <2>4, <2>6
    <2> QED
      BY <2>1, <2>5, <2>7 DEF At
  <1> QED
    BY <1>1, <1>5, <1>6, <1>7, <1>8, <1>9, <1>10, <1>11, <1>12
    DEF AccountsNext, register, handleGoogleAuth, verifyEmail, acceptCompanyInvite, createMember,
        checkInvitation, markEmailVerified, findCompanyMembership, acceptVerified, readInvited,
        findMemberForMutation, createCompany, readGoogleUser, abandon

(* A disabled member becomes active again only by an admin's change.         *)
THEOREM DisabledMembersStay == AccountsSpec => DisabledStays
  <1>1. AccountsInv /\ [AccountsNext]_accountsVars => AccountsInv'
    BY AccountsPreserved
  <1>2. AccountsInv /\ [AccountsNext]_accountsVars =>
          [\A c \in Companies, u \in Ids :
             Row(c, u).status = "disabled" /\ members'[c][u].status = "active"
               => \E r \in Clients : At(r, "active") /\ requests[r].company = c
                                      /\ requests[r].user = u]_accountsVars
    BY DisabledStep
  <1> QED
    BY AccountsInitial, <1>1, <1>2, PTL DEF AccountsSpec, DisabledStays

-----------------------------------------------------------------------------
(* Logistics.                                                                *)

(* There is a row for each shipment, and a place for each request.           *)
Tables ==
    /\ shipments = [s \in Consignments |-> shipments[s]]
    /\ call = [r \in Callers |-> call[r]]

LEMMA TablesInvariant == LogisticsSpec => []Tables
  <1>1. LogisticsInit => Tables
    BY DEF LogisticsInit, Tables
  <1>2. Tables /\ [LogisticsNext]_logisticsVars => Tables'
    <2> SUFFICES ASSUME Tables, [LogisticsNext]_logisticsVars PROVE Tables'
      OBVIOUS
    <2>1. ASSUME NEW s \in Consignments, NEW row, Put(s, row), UNCHANGED call PROVE Tables'
      BY <2>1 DEF Tables, Put
    <2>2. ASSUME NEW r \in Callers, NEW state, Resume(r, state),
                 shipments' = [s \in Consignments |-> shipments'[s]]
          PROVE  Tables'
      BY <2>2 DEF Tables, Resume
    <2>3. CASE Tick
      BY <2>3 DEF Tick, Tables
    <2>4. ASSUME NEW s \in Consignments,
                 createShipment(s) \/ createShipmentFromProduct(s) \/ publishBatch(s)
          PROVE  Tables'
      BY <2>4, <2>1 DEF createShipment, createShipmentFromProduct, publishBatch, Create
    <2>5. ASSUME NEW s \in Consignments, updateShipment(s) \/ replaceShipmentLegs(s) PROVE Tables'
      BY <2>5, <2>1 DEF updateShipment, replaceShipmentLegs, EditShipment
    <2>6. ASSUME NEW s \in Consignments, syncShipmentFromProduct(s) \/ deleteProduct(s) PROVE Tables'
      BY <2>6, <2>1 DEF syncShipmentFromProduct, deleteProduct
    <2>7. ASSUME NEW r \in Callers, NEW step, NEW rows, Read(r, step, rows) PROVE Tables'
      BY <2>7, <2>2 DEF Read, Tables
    <2>8. ASSUME NEW r \in Callers, backfillCompanyShipments(r) \/ syncCompanyShipmentSimulation(r)
          PROVE  Tables'
      BY <2>8, <2>7 DEF backfillCompanyShipments, syncCompanyShipmentSimulation
    <2>9. ASSUME NEW r \in Callers, WriteBackfill(r) PROVE Tables'
      <3>1. shipments' = [s \in Consignments |-> shipments'[s]]
        BY <2>9 DEF WriteBackfill
      <3> QED
        BY <3>1, <2>9, <2>2 DEF WriteBackfill
    <2>10. ASSUME NEW r \in Callers, syncShipmentSimulationRecord(r) PROVE Tables'
      <3>1. shipments' = [s \in Consignments |-> shipments'[s]]
        BY <2>10 DEF syncShipmentSimulationRecord
      <3> QED
        BY <3>1, <2>10, <2>2 DEF syncShipmentSimulationRecord
    <2>11. ASSUME NEW r \in Callers, NEW s \in Consignments, updateShipmentStatus(r, s) PROVE Tables'
      BY <2>11, <2>7 DEF updateShipmentStatus
    <2>12. ASSUME NEW r \in Callers, NEW s \in Consignments, CompareAndSet(r, s) PROVE Tables'
      <3>1. shipments' = [q \in Consignments |-> shipments'[q]]
        BY <2>12 DEF CompareAndSet, Put, Tables
      <3> QED
        BY <3>1, <2>12, <2>2 DEF CompareAndSet
    <2>13. CASE UNCHANGED logisticsVars
      BY <2>13 DEF logisticsVars, Tables
    <2> QED
      BY <2>3, <2>4, <2>5, <2>6, <2>8, <2>9, <2>10, <2>11, <2>12, <2>13 DEF LogisticsNext
  <1> QED
    BY <1>1, <1>2, PTL DEF LogisticsSpec

(* What the clock makes of a status: the same one, one that is ahead of it, or *)
(* pending again.                                                            *)
LEMMA ClockMoves ==
    ASSUME NEW row, NEW t, row.status \in Statuses
    PROVE  LET next == resolveEffectiveShipmentStatus(row, t)
           IN  \/ row.status = next
               \/ <<row.status, next>> \in Forward
               \/ row.status = "in_transit" /\ next = "pending"
  BY DEF resolveEffectiveShipmentStatus, Forward, validTransitions, Statuses

(* What the clock says when it sends a shipment back does not depend on the    *)
(* status it sends back.                                                     *)
LEMMA ClockSaysIt ==
    ASSUME NEW row, NEW t, row.status = "in_transit",
           resolveEffectiveShipmentStatus(row, t) = "pending"
    PROVE  resolveEffectiveShipmentStatus(ShipmentRow("pending", row.clock), t) = "pending"
  BY DEF resolveEffectiveShipmentStatus, ShipmentRow

(* A transaction that holds the row and writes what its clock says.          *)
LEMMA SyncedMoves ==
    ASSUME NEW s \in Consignments, Tables, shipments[s].status \in Statuses,
           NEW clock, shipments'[s] = Synced(shipments[s].status, clock)
    PROVE  Moves(s)
  <1> DEFINE row == ShipmentRow(shipments[s].status, clock)
             next == resolveEffectiveShipmentStatus(row, now)
  <1>1. row.status = shipments[s].status /\ row.clock = clock
    BY DEF ShipmentRow
  <1>2. shipments'[s] = ShipmentRow(next, clock) /\ shipments'[s].status = next
    BY DEF Synced, ShipmentRow
  <1>3. \/ shipments[s].status = next
        \/ <<shipments[s].status, next>> \in Forward
        \/ shipments[s].status = "in_transit" /\ next = "pending"
    BY <1>1, ClockMoves
  <1>4. ASSUME shipments[s].status = "in_transit", next = "pending" PROVE ClockSays(s, "pending")
    <2>1. resolveEffectiveShipmentStatus(ShipmentRow("pending", clock), now) = "pending"
      BY <1>1, <1>4, ClockSaysIt
    <2> QED
      BY <2>1, <1>2, <1>4 DEF ClockSays
  <1> QED
    BY <1>2, <1>3, <1>4 DEF Moves

(* A synchronisation that writes what it has read.                           *)
LEMMA RecordMoves ==
    ASSUME NEW r \in Callers, NEW s \in Consignments, Tables, shipments[s].status \in Statuses,
           syncShipmentSimulationRecord(r)
    PROVE  Moves(s)
  <1> DEFINE read == call[r].rows[s]
             next == resolveEffectiveShipmentStatus(read, call[r].at)
  <1>1. call'[r].step = "idle" /\ call[r].step = "sync"
    BY DEF syncShipmentSimulationRecord, Resume, NoCall, Tables
  <1>2. CASE read # shipments[s]
    BY <1>1, <1>2 DEF WritesOverUnread, Moves
  <1>3. CASE read = shipments[s]
    <2>1. shipments'[s] = IF next # read.status THEN ShipmentRow(next, read.clock) ELSE read
      BY <1>3 DEF syncShipmentSimulationRecord, Present
    <2>2. CASE next = read.status
      BY <2>1, <2>2, <1>3 DEF Moves
    <2>3. CASE next # read.status
      <3>1. shipments'[s] = ShipmentRow(next, read.clock) /\ shipments'[s].status = next
        BY <2>1, <2>3 DEF ShipmentRow
      <3>2. \/ <<read.status, next>> \in Forward
            \/ read.status = "in_transit" /\ next = "pending"
        BY <1>3, <2>3, ClockMoves
      <3>3. ASSUME read.status = "in_transit", next = "pending" PROVE ClockSays(s, "pending")
        <4>1. resolveEffectiveShipmentStatus(ShipmentRow("pending", read.clock), call[r].at) = "pending"
          BY <3>3, ClockSaysIt
        <4> QED
          BY <4>1, <3>1, <3>3, <1>1 DEF ClockSays
      <3> QED
        BY <3>1, <3>2, <3>3, <1>3 DEF Moves
    <2> QED
      BY <2>2, <2>3
  <1> QED
    BY <1>2, <1>3

(* A shipment's status moves forward; what is written over a status that was   *)
(* not read is a synchronisation's (shipmentSimulationService.js:453).        *)
THEOREM ShipmentsMoveForward == LogisticsSpec => StatusMovesForward
  <1>1. Tables /\ [LogisticsNext]_logisticsVars => [\A s \in Consignments : Moves(s)]_logisticsVars
    <2> SUFFICES ASSUME Tables, LogisticsNext, NEW s \in Consignments, shipments[s].status \in Statuses
                 PROVE  Moves(s)
      BY DEF Moves
    <2>1. ASSUME shipments'[s] = shipments[s] PROVE Moves(s)
      BY <2>1 DEF Moves
    <2>2. ASSUME NEW q \in Consignments, NEW row, Put(q, row), q # s PROVE Moves(s)
      BY <2>1, <2>2 DEF Put, Tables
    <2>3. CASE Tick
      BY <2>3, <2>1 DEF Tick
    <2>4. ASSUME NEW q \in Consignments,
                 createShipment(q) \/ createShipmentFromProduct(q) \/ publishBatch(q)
          PROVE  Moves(s)
      BY <2>4, <2>2 DEF createShipment, createShipmentFromProduct, publishBatch, Create, Statuses
    <2>5. ASSUME NEW q \in Consignments, updateShipment(q) \/ replaceShipmentLegs(q) PROVE Moves(s)
      <3>1. PICK clock : Put(q, Synced("pending", clock)) /\ shipments[q].status = "pending"
        BY <2>5 DEF updateShipment, replaceShipmentLegs, EditShipment
      <3>2. CASE q = s
        <4>1. shipments'[s] = Synced(shipments[s].status, clock)
          BY <3>1, <3>2 DEF Put, Tables
        <4> QED
          BY <4>1, SyncedMoves
      <3> QED
        BY <3>1, <3>2, <2>2
    <2>6. ASSUME NEW q \in Consignments, syncShipmentFromProduct(q) PROVE Moves(s)
      <3>1. PICK clock : Put(q, Synced(shipments[q].status, clock))
        BY <2>6 DEF syncShipmentFromProduct
      <3>2. CASE q = s
        <4>1. shipments'[s] = Synced(shipments[s].status, clock)
          BY <3>1, <3>2 DEF Put, Tables
        <4> QED
          BY <4>1, SyncedMoves
      <3> QED
        BY <3>1, <3>2, <2>2
    <2>7. ASSUME NEW q \in Consignments, deleteProduct(q) PROVE Moves(s)
      <3>1. Put(q, ShipmentRow("deleted", Off))
        BY <2>7 DEF deleteProduct
      <3>2. CASE q = s
        BY <3>1, <3>2 DEF Put, Tables, ShipmentRow, Moves
      <3> QED
        BY <3>1, <3>2, <2>2
    <2>8. ASSUME NEW r \in Callers, backfillCompanyShipments(r) \/ syncCompanyShipmentSimulation(r)
          PROVE  Moves(s)
      BY <2>8, <2>1 DEF backfillCompanyShipments, syncCompanyShipmentSimulation, Read
    <2>9. ASSUME NEW r \in Callers, WriteBackfill(r) PROVE Moves(s)
      <3>1. shipments'[s].status = shipments[s].status
        BY <2>9 DEF WriteBackfill, ShipmentRow
      <3> QED
        BY <3>1 DEF Moves
    <2>10. ASSUME NEW r \in Callers, syncShipmentSimulationRecord(r) PROVE Moves(s)
      BY <2>10, RecordMoves
    <2>11. ASSUME NEW r \in Callers, NEW q \in Consignments, updateShipmentStatus(r, q) PROVE Moves(s)
      BY <2>11, <2>1 DEF updateShipmentStatus, Read
    <2>12. ASSUME NEW r \in Callers, NEW q \in Consignments, CompareAndSet(r, q) PROVE Moves(s)
      <3>1. CASE UNCHANGED shipments
        BY <3>1, <2>1
      <3>2. CASE shipments' # shipments
        <4>1. PICK status \in Statuses :
                /\ <<shipments[q].status, status>> \in validTransitions
                /\ Put(q, ShipmentRow(status, shipments[q].clock))
          BY <2>12, <3>2 DEF CompareAndSet, validTransitions
        <4>2. CASE q = s
          BY <4>1, <4>2 DEF Put, Tables, ShipmentRow, Moves, Forward
        <4> QED
          BY <4>1, <4>2, <2>2
      <3> QED
        BY <3>1, <3>2
    <2> QED
      BY <2>3, <2>4, <2>5, <2>6, <2>7, <2>8, <2>9, <2>10, <2>11, <2>12 DEF LogisticsNext
  <1> QED
    BY <1>1, TablesInvariant, PTL DEF LogisticsSpec, StatusMovesForward

-----------------------------------------------------------------------------
(* The meter hierarchy, for any meters, references, times and bounds.                *)

HierarchyTypes ==
    /\ revisions \in [References -> Seq(Links)]
    /\ pending \in [Editors -> {NoLink} \cup
            [step : {"cycle", "append"}, reference : References, link : Links]]

LEMMA HierarchyTypesStep ==
    ASSUME HierarchyTypes, [HierarchyNext]_hierarchyVars
    PROVE  HierarchyTypes'
  <1>1. ASSUME NEW r \in Editors, NEW h \in References, NEW l \in Links, BeginCreate(r, h, l)
        PROVE  HierarchyTypes'
    BY <1>1 DEF BeginCreate, HierarchyTypes
  <1>2. ASSUME NEW r \in Editors, CheckCycle(r) PROVE HierarchyTypes'
    <2>1. pending[r] \in [step : {"cycle", "append"}, reference : References, link : Links]
      BY <1>2 DEF CheckCycle, HierarchyTypes, NoLink
    <2>2. [pending[r] EXCEPT !.step = "append"] \in
            [step : {"cycle", "append"}, reference : References, link : Links]
      BY <2>1
    <2> QED
      BY <1>2, <2>2 DEF CheckCycle, HierarchyTypes
  <1>3. ASSUME NEW r \in Editors, AppendLink(r) PROVE HierarchyTypes'
    <2>1. pending[r] \in [step : {"cycle", "append"}, reference : References, link : Links]
      BY <1>3 DEF AppendLink, HierarchyTypes, NoLink
    <2>2. Append(revisions[pending[r].reference], pending[r].link) \in Seq(Links)
      BY <2>1 DEF HierarchyTypes
    <2> QED
      BY <1>3, <2>1, <2>2 DEF AppendLink, HierarchyTypes
  <1>4. ASSUME NEW r \in Editors, EndCreate(r) PROVE HierarchyTypes'
    BY <1>4 DEF EndCreate, HierarchyTypes
  <1>5. ASSUME NEW m \in Meters, NEW start \in Ends, NEW end \in Ends, Reconcile(m, start, end)
        PROVE  HierarchyTypes'
    BY <1>5 DEF Reconcile, HierarchyTypes
  <1>6. CASE UNCHANGED hierarchyVars
    BY <1>6 DEF hierarchyVars, HierarchyTypes
  <1> QED
    BY <1>1, <1>2, <1>3, <1>4, <1>5, <1>6 DEF HierarchyNext

LEMMA HierarchyTyped == HierarchySpec => []HierarchyTypes
  <1>1. HierarchyInit => HierarchyTypes
    BY DEF HierarchyInit, HierarchyTypes
  <1> QED
    BY <1>1, HierarchyTypesStep, PTL DEF HierarchySpec

LEMMA LatestIsLink ==
    ASSUME HierarchyTypes, NEW h \in Used
    PROVE  h \in References /\ Latest(h) \in Links /\ Len(revisions[h]) \in DOMAIN revisions[h]
  <1>1. h \in References /\ revisions[h] \in Seq(Links) /\ revisions[h] # <<>>
    BY DEF Used, HierarchyTypes
  <1>2. Len(revisions[h]) \in DOMAIN revisions[h]
    BY <1>1
  <1> QED
    BY <1>1, <1>2 DEF Latest

(* reconcile takes, for every reference, the last of its links that has the parent:     *)
(* the latest link, if it has, whatever period it was asked for.                      *)
THEOREM EveryChildCounts ==
    ASSUME Ends \subseteq Int, Forever \in Int
    PROVE  HierarchySpec => CountsEveryChild
  <1> DEFINE Counted == \A s \in snapshots' \ snapshots : \A h \in Used :
         Latest(h).parent = s.parent /\ Overlap(Latest(h), [from |-> s.start, to |-> s.end])
            => Latest(h) \in s.links
  <1>1. HierarchyTypes /\ [HierarchyNext]_hierarchyVars => [Counted]_hierarchyVars
    <2> SUFFICES ASSUME HierarchyTypes, [HierarchyNext]_hierarchyVars
                 PROVE  Counted
      OBVIOUS
    <2>1. ASSUME NEW m \in Meters, NEW start \in Ends, NEW end \in Ends, Reconcile(m, start, end),
                 NEW s \in snapshots' \ snapshots, NEW h \in Used,
                 Latest(h).parent = s.parent, Overlap(Latest(h), [from |-> s.start, to |-> s.end])
          PROVE  Latest(h) \in s.links
      <3>1. s = [parent |-> m, start |-> start, end |-> end, links |-> Children(m, start, end)]
        BY <2>1 DEF Reconcile
      <3>2. Latest(h) \in Links /\ h \in References
        BY LatestIsLink
      <3>3. Latest(h).from <= end /\ Latest(h).to >= start
        <4>1. Latest(h).from \in Int /\ Latest(h).to \in Int /\ start \in Int /\ end \in Int
          BY <3>2 DEF Links
        <4>2. Latest(h).from < end /\ start < Latest(h).to
          BY <2>1, <3>1 DEF Overlap
        <4> QED
          BY <4>1, <4>2
      <3>4. Latest(h) \in LastUnder(h, m)
        <4> DEFINE n == Len(revisions[h])
        <4>1. n \in DOMAIN revisions[h] /\ revisions[h] \in Seq(Links) /\ n \in Nat
          BY <3>2, LatestIsLink DEF HierarchyTypes
        <4>2. revisions[h][n].parent = m
          BY <2>1, <3>1 DEF Latest
        <4>3. \A k \in (n + 1)..n : FALSE
          BY <4>1
        <4> QED
          BY <4>1, <4>2, <4>3 DEF LastUnder, Latest
      <3> QED
        BY <3>1, <3>2, <3>3, <3>4 DEF Children
    <2>2. snapshots' = snapshots \/ \E m \in Meters, start, end \in Ends : Reconcile(m, start, end)
      BY DEF HierarchyNext, BeginCreate, CheckCycle, AppendLink, EndCreate, hierarchyVars
    <2> QED
      BY <2>1, <2>2
  <1> QED
    BY <1>1, HierarchyTyped, PTL DEF HierarchySpec, CountsEveryChild

-----------------------------------------------------------------------------
(* What is below a meter: the least set that holds its children and is closed.        *)
ClosedUnder(set, meter, links) == \A l \in links : l.parent \in set \cup {meter} => l.child \in set

LEMMA BelowLeast ==
    ASSUME NEW meter, NEW links, NEW set \in SUBSET Meters, ClosedUnder(set, meter, links)
    PROVE  Below(meter, links) \subseteq set
  BY DEF Below, ClosedUnder

LEMMA BelowClosed ==
    ASSUME NEW meter, NEW links \in SUBSET Links
    PROVE  Below(meter, links) \in SUBSET Meters
           /\ ClosedUnder(Below(meter, links), meter, links)
  BY DEF Below, ClosedUnder, Links

LEMMA BelowMonotone ==
    ASSUME NEW meter, NEW more \in SUBSET Links, NEW links \in SUBSET more
    PROVE  Below(meter, links) \subseteq Below(meter, more)
  <1>1. ClosedUnder(Below(meter, more), meter, links) /\ Below(meter, more) \in SUBSET Meters
    BY BelowClosed DEF ClosedUnder
  <1> QED
    BY <1>1, BelowLeast

LEMMA BelowTransitive ==
    ASSUME NEW links \in SUBSET Links, NEW top, NEW meter \in Below(top, links)
    PROVE  Below(meter, links) \subseteq Below(top, links)
  <1>1. ClosedUnder(Below(top, links), meter, links) /\ Below(top, links) \in SUBSET Meters
    BY BelowClosed DEF ClosedUnder
  <1> QED
    BY <1>1, BelowLeast

(* A link whose parent is not below its child closes no cycle.                       *)
LEMMA NoCycleStep ==
    ASSUME NEW links \in SUBSET Links, NEW link \in Links,
           \A m \in Meters : m \notin Below(m, links),
           link.parent \notin Below(link.child, links)
    PROVE  \A m \in Meters : m \notin Below(m, links \cup {link})
  <1> SUFFICES ASSUME NEW m \in Meters PROVE m \notin Below(m, links \cup {link})
    OBVIOUS
  <1> DEFINE p == link.parent
             c == link.child
  <1>1. p \in Meters /\ c \in Meters /\ p # c
    BY DEF Links
  <1>2. /\ Below(m, links) \in SUBSET Meters /\ ClosedUnder(Below(m, links), m, links)
        /\ Below(c, links) \in SUBSET Meters /\ ClosedUnder(Below(c, links), c, links)
    BY BelowClosed
  <1>3. m \notin Below(m, links) /\ p \notin Below(c, links)
    OBVIOUS
  <1> HIDE DEF p, c
  <1>4. CASE p \notin Below(m, links) \cup {m}
    <2>1. ClosedUnder(Below(m, links), m, links \cup {link})
      BY <1>2, <1>4 DEF ClosedUnder, p
    <2> QED
      BY <1>2, <1>3, <2>1, BelowLeast
  <1>5. CASE p \in Below(m, links) \cup {m}
    <2> DEFINE set == Below(m, links) \cup {c} \cup Below(c, links)
    <2>1. set \in SUBSET Meters
      BY <1>1, <1>2
    <2>2. ClosedUnder(set, m, links \cup {link})
      BY <1>2 DEF ClosedUnder, c
    <2>3. m # c
      BY <1>1, <1>3, <1>5
    <2>4. m \notin Below(c, links)
      <3> SUFFICES ASSUME m \in Below(c, links) PROVE FALSE
        OBVIOUS
      <3>1. Below(m, links) \subseteq Below(c, links)
        BY BelowTransitive
      <3> QED
        BY <1>3, <1>5, <3>1
    <2>5. m \notin set
      BY <1>3, <2>3, <2>4
    <2> QED
      BY <2>1, <2>2, <2>5, BelowLeast
  <1> QED
    BY <1>4, <1>5

(* While r is the only request, what it has found of its link still holds.            *)
Checked(r) ==
    LET h == pending[r].reference  link == pending[r].link
    IN  /\ pending[r].step \in {"cycle", "append"} => ~ChildConflict(h, link)
        /\ pending[r].step = "append" => ~Cycle(h, link)

ForestInv == HierarchyTypes /\ Forest /\ \A r \in Editors : Checked(r)

LEMMA AppendKeepsForest ==
    ASSUME ForestInv, NEW r \in Editors, AppendLink(r)
    PROVE  Forest'
  <1>1. pending[r] \in [step : {"cycle", "append"}, reference : References, link : Links]
    BY DEF AppendLink, ForestInv, HierarchyTypes, NoLink
  <1>2. PICK h \in References, link \in Links : h = pending[r].reference /\ link = pending[r].link
    BY <1>1
  <1>3. ~ChildConflict(h, link) /\ ~Cycle(h, link)
    BY <1>2 DEF AppendLink, ForestInv, Checked
  <1>4. revisions' = [revisions EXCEPT ![h] = Append(@, link)] /\ revisions \in [References -> Seq(Links)]
    BY <1>2 DEF AppendLink, ForestInv, HierarchyTypes
  <1>5. Used' = Used \cup {h}
    <2>1. Append(revisions[h], link) # <<>>
      BY <1>4
    <2> QED
      BY <1>4, <2>1 DEF Used
  <1>6. Latest(h)' = link
    <2>1. Append(revisions[h], link)[Len(Append(revisions[h], link))] = link
      BY <1>4
    <2>2. revisions'[h] = Append(revisions[h], link)
      BY <1>4
    <2> QED
      BY <2>1, <2>2 DEF Latest
  <1>7. \A g \in Used \ {h} : Latest(g)' = Latest(g)
    BY <1>4 DEF Latest, Used
  <1>8. OneParent'
    <2> SUFFICES ASSUME NEW g \in Used', NEW k \in Used', g # k, Latest(g)'.child = Latest(k)'.child
                 PROVE  ~Overlap(Latest(g)', Latest(k)')
      BY DEF OneParent
    <2>1. CASE g # h /\ k # h
      BY <1>5, <1>7, <2>1 DEF ForestInv, Forest, OneParent
    <2>2. CASE g = h
      BY <1>3, <1>5, <1>6, <1>7, <2>2 DEF ChildConflict, Overlap
    <2>3. CASE k = h
      BY <1>3, <1>5, <1>6, <1>7, <2>3 DEF ChildConflict, Overlap
    <2> QED
      BY <2>1, <2>2, <2>3
  <1>9. NoCycle'
    <2> DEFINE others == {Latest(g) : g \in Used \ {h}}
               all == {Latest(g) : g \in Used}
    <2>1. all \in SUBSET Links /\ others \in SUBSET all
      BY LatestIsLink DEF ForestInv
    <2>2. \A m \in Meters : m \notin Below(m, others)
      <3> HIDE DEF others
      <3>1. \A m \in Meters : m \notin Below(m, all)
        BY DEF ForestInv, Forest, NoCycle
      <3> HIDE DEF all
      <3> QED
        BY <2>1, <3>1, BelowMonotone
    <2>3. link.parent \notin Below(link.child, others)
      BY <1>3 DEF Cycle
    <2>4. {Latest(g)' : g \in Used'} = others \cup {link}
      BY <1>5, <1>6, <1>7
    <2>5. \A m \in Meters : m \notin Below(m, others \cup {link})
      <3> HIDE DEF others, all
      <3> QED
        BY <2>1, <2>2, <2>3, NoCycleStep
    <2>6. \A m \in Meters : m \notin Below(m, {Latest(g)' : g \in Used'})
      BY <2>4, <2>5
    <2> QED
      BY <2>6 DEF NoCycle, Below
  <1> QED
    BY <1>8, <1>9 DEF Forest

LEMMA ForestStep ==
    ASSUME ForestInv, \A r, q \in Editors : r = q, [HierarchyNext]_hierarchyVars
    PROVE  ForestInv'
  <1>0. HierarchyTypes'
    BY HierarchyTypesStep DEF ForestInv
  <1>1. ASSUME NEW r \in Editors, NEW h \in References, NEW l \in Links, BeginCreate(r, h, l)
        PROVE  ForestInv'
    <2>1. /\ pending'[r] = [step |-> "cycle", reference |-> h, link |-> l]
          /\ ~ChildConflict(h, l) /\ revisions' = revisions
      BY <1>1 DEF BeginCreate, ForestInv, HierarchyTypes
    <2>2. Checked(r)'
      BY <2>1 DEF Checked, ChildConflict, Used, Latest
    <2> QED
      BY <1>0, <2>1, <2>2 DEF ForestInv, Forest, OneParent, NoCycle, Used, Latest
  <1>2. ASSUME NEW r \in Editors, CheckCycle(r) PROVE ForestInv'
    <2>1. pending[r] \in [step : {"cycle", "append"}, reference : References, link : Links]
      BY <1>2 DEF CheckCycle, ForestInv, HierarchyTypes, NoLink
    <2>2. /\ pending'[r].reference = pending[r].reference /\ pending'[r].link = pending[r].link
          /\ pending[r].step = "cycle" /\ revisions' = revisions
          /\ ~Cycle(pending[r].reference, pending[r].link)
      BY <1>2, <2>1 DEF CheckCycle, ForestInv, HierarchyTypes
    <2>3. ~ChildConflict(pending[r].reference, pending[r].link)
      BY <2>2 DEF ForestInv, Checked
    <2>4. Checked(r)'
      BY <2>2, <2>3 DEF Checked, ChildConflict, Cycle, Used, Latest
    <2> QED
      BY <1>0, <2>2, <2>4 DEF ForestInv, Forest, OneParent, NoCycle, Used, Latest
  <1>3. ASSUME NEW r \in Editors, AppendLink(r) PROVE ForestInv'
    <2>1. pending'[r] = NoLink
      BY <1>3 DEF AppendLink, ForestInv, HierarchyTypes
    <2>2. Checked(r)'
      BY <2>1 DEF Checked, NoLink
    <2> QED
      BY <1>0, <1>3, <2>2, AppendKeepsForest DEF ForestInv
  <1>4. ASSUME NEW r \in Editors, EndCreate(r) PROVE ForestInv'
    <2>1. pending'[r] = NoLink /\ revisions' = revisions
      BY <1>4 DEF EndCreate, ForestInv, HierarchyTypes
    <2>2. Checked(r)'
      BY <2>1 DEF Checked, NoLink
    <2> QED
      BY <1>0, <2>1, <2>2 DEF ForestInv, Forest, OneParent, NoCycle, Used, Latest
  <1>5. CASE UNCHANGED <<revisions, pending>>
    BY <1>0, <1>5 DEF ForestInv, Forest, OneParent, NoCycle, Used, Latest, Checked,
                      ChildConflict, Cycle
  <1> QED
    BY <1>1, <1>2, <1>3, <1>4, <1>5 DEF HierarchyNext, Reconcile, hierarchyVars

(* When requests for hierarchies come one after the other, no meter has two parents     *)
(* at a time and none is below itself, for any meters, references and revisions: the      *)
(* checks of createHierarchy suffice, for one request at a time.                         *)
THEOREM HierarchyIsForest ==
    ASSUME \A r, q \in Editors : r = q
    PROVE  HierarchySpec => []Forest
  <1>1. HierarchyInit => ForestInv
    <2> SUFFICES ASSUME HierarchyInit PROVE ForestInv
      OBVIOUS
    <2>1. Used = {}
      BY DEF HierarchyInit, Used
    <2>2. \A m \in Meters : m \notin Below(m, {})
      <3>1. \A m \in Meters : ClosedUnder({}, m, {})
        BY DEF ClosedUnder
      <3> QED
        BY <3>1, BelowLeast
    <2>3. {Latest(h) : h \in Used} = {}
      BY <2>1
    <2>4. Forest
      BY <2>1, <2>2, <2>3 DEF Forest, OneParent, NoCycle
    <2>5. \A r \in Editors : Checked(r)
      BY DEF HierarchyInit, Checked, NoLink
    <2>6. HierarchyTypes
      BY DEF HierarchyInit, HierarchyTypes
    <2> QED
      BY <2>4, <2>5, <2>6 DEF ForestInv
  <1>2. ForestInv /\ [HierarchyNext]_hierarchyVars => ForestInv'
    BY ForestStep
  <1>3. ForestInv => Forest
    BY DEF ForestInv
  <1> QED
    BY <1>1, <1>2, <1>3, PTL DEF HierarchySpec

=============================================================================
