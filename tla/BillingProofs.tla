----------------------------- MODULE BillingProofs -----------------------------
(* Theorems about Billing, for any sessions, requests, packages and start.  *)
(*                                                                         *)
(* GrantedOnce and SuccessWasPaid are not inductive by themselves: a        *)
(* request carries a gateway answer from the step that got it to the step   *)
(* that applies it. PaidAnswers says that such an answer still holds, since *)
(* a payment is never undone, and ConcernsSession that it is about a        *)
(* session.                                                                *)
EXTENDS Billing, TLAPS

ConcernsSession ==
    \A r \in Requests :
        request[r].step \in {"asking", "answered", "expiring", "notified"} =>
            request[r].session \in Sessions

PaidAnswers ==
    \A r \in Requests :
        request[r].step \in {"answered", "notified"} /\ request[r].paid = TRUE =>
            gateway[request[r].session] = "paid"

IInv == TypeOK /\ ConcernsSession /\ PaidAnswers /\ GrantedOnce /\ SuccessWasPaid

ResolvedStatuses == {"success", "failed", "expired"}

(* Resolved sessions keep their status: the action of ResolvedIsFinal.       *)
KeepsResolved ==
    \A s \in Sessions : session[s].status \in ResolvedStatuses =>
                            session'[s].status = session[s].status

-----------------------------------------------------------------------------
(* A session row keeps its type when its status or its age changes.          *)
LEMMA StatusUpdate ==
    ASSUME NEW s \in Sessions, session \in [Sessions -> SessionRows],
           NEW status \in {"none", "pending", "success", "failed", "expired"},
           SetStatus(s, status)
    PROVE  /\ session' \in [Sessions -> SessionRows]
           /\ \A t \in Sessions :
                session'[t].status = IF t = s THEN status ELSE session[t].status
  BY DEF SetStatus, SessionRows

LEMMA AgeUpdate ==
    ASSUME NEW s \in Sessions, session \in [Sessions -> SessionRows],
           NEW age \in Ages, session' = [session EXCEPT ![s].age = age]
    PROVE  /\ session' \in [Sessions -> SessionRows]
           /\ \A t \in Sessions : session'[t].status = session[t].status
  BY DEF SessionRows

(* The quota after a purchase is a natural number.                           *)
LEMMA QuotaType ==
    ASSUME TypeOK, NEW n \in Nat
    PROVE  NewQuota(n) \in Nat
  <1>1. cycle.sku \in Nat
    BY DEF TypeOK, Cycles
  <1>2. LegacySku \in Nat
    BY PackagesAssumption
  <1> QED
    BY <1>1, <1>2 DEF NewQuota

(* completeUpgrade leaves a resolved session alone, and otherwise resolves   *)
(* it: as a success only when it was told of a payment, with one grant.      *)
LEMMA Completion ==
    ASSUME TypeOK, NEW s \in Sessions, NEW paid \in BOOLEAN, CompleteUpgrade(s, paid)
    PROVE  /\ plan' \in Plans /\ cycle' \in Cycles
           /\ session' \in [Sessions -> SessionRows]
           /\ granted' \in [Sessions -> Nat]
           /\ KeepsResolved
           /\ \A t \in Sessions :
                \/ session'[t].status = session[t].status /\ granted'[t] = granted[t]
                \/ /\ session[t].status # "success"
                   /\ session'[t].status \in {"failed", "expired"}
                   /\ granted'[t] = granted[t]
                \/ /\ session[t].status # "success"
                   /\ session'[t].status = "success"
                   /\ granted'[t] = granted[t] + 1
                   /\ t = s /\ paid = TRUE
  <1> DEFINE Goal ==
           /\ plan' \in Plans /\ cycle' \in Cycles
           /\ session' \in [Sessions -> SessionRows]
           /\ granted' \in [Sessions -> Nat]
           /\ KeepsResolved
           /\ \A t \in Sessions :
                \/ session'[t].status = session[t].status /\ granted'[t] = granted[t]
                \/ /\ session[t].status # "success"
                   /\ session'[t].status \in {"failed", "expired"}
                   /\ granted'[t] = granted[t]
                \/ /\ session[t].status # "success"
                   /\ session'[t].status = "success"
                   /\ granted'[t] = granted[t] + 1
                   /\ t = s /\ paid = TRUE
  <1>1. /\ session \in [Sessions -> SessionRows] /\ granted \in [Sessions -> Nat]
        /\ plan \in Plans /\ cycle \in Cycles
    BY DEF TypeOK
  <1>2. CASE ~Resolved(s) /\ session[s].age # "expired" /\ paid
    <2>1. SetStatus(s, "success") /\ Grant(s)
      BY <1>2 DEF CompleteUpgrade
    <2>2. session[s].status \notin ResolvedStatuses
      BY <1>2 DEF Resolved, ResolvedStatuses
    <2>3. /\ session' \in [Sessions -> SessionRows]
          /\ \A t \in Sessions :
                session'[t].status = IF t = s THEN "success" ELSE session[t].status
      BY <1>1, <2>1, StatusUpdate
    <2>4. session[s].package \in Nat
      BY <1>1 DEF SessionRows
    <2>5. plan' \in Plans /\ cycle' \in Cycles
      BY <2>1, <2>4, QuotaType DEF Grant, Plans, Cycles
    <2>6. /\ granted' \in [Sessions -> Nat]
          /\ \A t \in Sessions :
                granted'[t] = IF t = s THEN granted[t] + 1 ELSE granted[t]
      BY <1>1, <2>1 DEF Grant
    <2>7. KeepsResolved
      BY <2>2, <2>3 DEF KeepsResolved
    <2>8. paid = TRUE
      BY <1>2
    <2> QED
      BY <2>2, <2>3, <2>5, <2>6, <2>7, <2>8 DEF ResolvedStatuses
  <1>3. CASE ~(~Resolved(s) /\ session[s].age # "expired" /\ paid)
    <2>1. /\ \/ UNCHANGED session
             \/ ~Resolved(s) /\ SetStatus(s, "expired")
             \/ ~Resolved(s) /\ SetStatus(s, "failed")
          /\ UNCHANGED <<plan, cycle, granted>>
      BY <1>3 DEF CompleteUpgrade
    <2>2. CASE UNCHANGED session
      BY <1>1, <2>1, <2>2 DEF KeepsResolved
    <2>3. ASSUME NEW status \in {"expired", "failed"}, ~Resolved(s), SetStatus(s, status)
          PROVE  Goal
      <3>1. /\ session' \in [Sessions -> SessionRows]
            /\ \A t \in Sessions :
                  session'[t].status = IF t = s THEN status ELSE session[t].status
        BY <1>1, <2>3, StatusUpdate
      <3>2. session[s].status \notin ResolvedStatuses
        BY <2>3 DEF Resolved, ResolvedStatuses
      <3>3. KeepsResolved
        BY <3>1, <3>2 DEF KeepsResolved
      <3> QED
        BY <1>1, <2>1, <3>1, <3>2, <3>3 DEF ResolvedStatuses
    <2> QED
      BY <2>1, <2>2, <2>3
  <1> QED
    BY <1>2, <1>3

-----------------------------------------------------------------------------
(* A request that has ended: the fields of its record.                       *)
LEMMA RequestUpdate ==
    ASSUME request \in [Requests -> RequestStates], NEW r \in Requests,
           NEW state \in RequestStates, request' = [request EXCEPT ![r] = state]
    PROVE  /\ request' \in [Requests -> RequestStates]
           /\ request'[r] = state
           /\ \A q \in Requests : q # r => request'[q] = request[q]
  OBVIOUS

(* A request that ends keeps the facts about the others.                     *)
LEMMA Finishing ==
    ASSUME IInv, NEW r \in Requests, Finish(r),
           \A s \in Sessions : gateway[s] = "paid" => gateway'[s] = "paid"
    PROVE  request' \in [Requests -> RequestStates] /\ ConcernsSession' /\ PaidAnswers'
  <1>1. request \in [Requests -> RequestStates]
    BY DEF IInv, TypeOK
  <1>2. Idle \in RequestStates
    BY DEF Idle, RequestStates, Steps
  <1>3. /\ request' \in [Requests -> RequestStates]
        /\ request'[r].step = "idle"
        /\ \A q \in Requests : q # r => request'[q] = request[q]
    BY <1>1, <1>2, RequestUpdate DEF Finish, Idle
  <1> QED
    BY <1>3 DEF IInv, ConcernsSession, PaidAnswers

(* The requests that are not about the gateway's answer.                     *)
LEMMA Stepping ==
    ASSUME IInv, NEW r \in Requests, NEW state \in RequestStates,
           request' = [request EXCEPT ![r] = state],
           state.step \in {"asking", "answered", "expiring", "notified"} =>
                state.session \in Sessions,
           state.step \in {"answered", "notified"} /\ state.paid = TRUE =>
                gateway[state.session] = "paid",
           gateway' = gateway
    PROVE  request' \in [Requests -> RequestStates] /\ ConcernsSession' /\ PaidAnswers'
  <1>1. request \in [Requests -> RequestStates]
    BY DEF IInv, TypeOK
  <1>2. /\ request' \in [Requests -> RequestStates]
        /\ request'[r] = state
        /\ \A q \in Requests : q # r => request'[q] = request[q]
    BY <1>1, RequestUpdate
  <1> QED
    BY <1>2 DEF IInv, ConcernsSession, PaidAnswers

-----------------------------------------------------------------------------
(* The sessions, their gateway and their grants, in the steps that leave     *)
(* them alone.                                                              *)
LEMMA SessionsKept ==
    ASSUME IInv, UNCHANGED <<session, gateway, granted>>
    PROVE  GrantedOnce' /\ SuccessWasPaid' /\ KeepsResolved
  BY DEF IInv, GrantedOnce, SuccessWasPaid, KeepsResolved

(* A completed upgrade, by a poll or by a notification.                      *)
LEMMA Completing ==
    ASSUME IInv, NEW r \in Requests, request[r].step \in {"answered", "notified"},
           CompleteUpgrade(request[r].session, request[r].paid), Finish(r),
           UNCHANGED <<gateway, seen, todo>>,
           reply' \in [Sessions -> {"none", "00", "02"}]
    PROVE  IInv' /\ KeepsResolved
  <1> DEFINE s == request[r].session
             paid == request[r].paid
  <1>1. s \in Sessions /\ paid \in BOOLEAN
    BY DEF IInv, TypeOK, ConcernsSession, RequestStates
  <1>2. paid = TRUE => gateway[s] = "paid"
    BY DEF IInv, PaidAnswers
  <1>3. /\ plan' \in Plans /\ cycle' \in Cycles
        /\ session' \in [Sessions -> SessionRows]
        /\ granted' \in [Sessions -> Nat]
        /\ KeepsResolved
        /\ \A t \in Sessions :
             \/ session'[t].status = session[t].status /\ granted'[t] = granted[t]
             \/ /\ session[t].status # "success"
                /\ session'[t].status \in {"failed", "expired"}
                /\ granted'[t] = granted[t]
             \/ /\ session[t].status # "success"
                /\ session'[t].status = "success"
                /\ granted'[t] = granted[t] + 1
                /\ t = s /\ paid = TRUE
    <2> HIDE DEF s, paid
    <2>1. CompleteUpgrade(s, paid)
      BY DEF s, paid
    <2> QED
      BY <1>1, <2>1, Completion DEF IInv
  <1>4. request' \in [Requests -> RequestStates] /\ ConcernsSession' /\ PaidAnswers'
    BY Finishing
  <1>5. GrantedOnce'
    BY <1>3 DEF IInv, TypeOK, GrantedOnce
  <1>6. SuccessWasPaid'
    BY <1>2, <1>3 DEF IInv, SuccessWasPaid
  <1>7. TypeOK'
    BY <1>3, <1>4 DEF IInv, TypeOK
  <1> QED
    BY <1>3, <1>4, <1>5, <1>6, <1>7 DEF IInv

(* A request that only moves on: everything it may change besides is typed.   *)
LEMMA MovingOn ==
    ASSUME IInv, request' \in [Requests -> RequestStates], ConcernsSession', PaidAnswers',
           UNCHANGED <<session, gateway, granted>>,
           plan' \in Plans, cycle' \in Cycles, seen' \in [Requests -> Plans],
           todo' \in [Requests -> SUBSET Writes],
           reply' \in [Sessions -> {"none", "00", "02"}]
    PROVE  IInv' /\ KeepsResolved
  <1>1. TypeOK'
    BY DEF IInv, TypeOK
  <1> QED
    BY <1>1, SessionsKept DEF IInv

(* The statements of a snapshot.                                            *)
LEMMA SnapshotSteps ==
    ASSUME IInv, NEW r \in Requests, Snapshot(r)
    PROVE  IInv' /\ KeepsResolved
  <1>0. /\ plan \in Plans /\ cycle \in Cycles /\ request \in [Requests -> RequestStates]
        /\ seen \in [Requests -> Plans] /\ todo \in [Requests -> SUBSET Writes]
        /\ reply \in [Sessions -> {"none", "00", "02"}]
    BY DEF IInv, TypeOK
  <1>1. ASSUME NEW buying \in BOOLEAN, BeginSnapshot(r, buying)
        PROVE  IInv' /\ KeepsResolved
    <2> DEFINE state == [Idle EXCEPT !.step = "cycle", !.buying = buying]
    <2>1. state \in RequestStates /\ state.step = "cycle"
      BY DEF Idle, RequestStates, Steps
    <2>2. request' \in [Requests -> RequestStates] /\ ConcernsSession' /\ PaidAnswers'
      <3> HIDE DEF state
      <3>1. request' = [request EXCEPT ![r] = state] /\ gateway' = gateway
        BY <1>1 DEF BeginSnapshot, state
      <3> QED
        BY <2>1, <3>1, Stepping
    <2> QED
      BY <1>0, <1>1, <2>2, MovingOn DEF BeginSnapshot
  <1>2. CASE ReadCycle(r)
    <2> DEFINE state == [request[r] EXCEPT !.step = "writing"]
    <2>1. state \in RequestStates /\ state.step = "writing"
      BY <1>0 DEF RequestStates, Steps
    <2>2. request' \in [Requests -> RequestStates] /\ ConcernsSession' /\ PaidAnswers'
      <3>1. request' = [request EXCEPT ![r] = state] /\ gateway' = gateway
        BY <1>2 DEF ReadCycle
      <3> HIDE DEF state
      <3> QED
        BY <2>1, <3>1, Stepping
    <2>3. todo' \in [Requests -> SUBSET Writes]
      BY <1>0, <1>2 DEF ReadCycle
    <2> QED
      BY <1>0, <1>2, <2>2, <2>3, MovingOn DEF ReadCycle
  <1>3. ASSUME NEW w \in Writes, Write(r, w)
        PROVE  IInv' /\ KeepsResolved
    <2>1. plan' \in Plans
      BY <1>0, <1>3 DEF Write, Plans
    <2>2. LegacySku \in Nat
      BY PackagesAssumption
    <2>3. cycle' \in Cycles
      BY <1>0, <1>3, <2>2 DEF Write, Cycles
    <2>4. todo' \in [Requests -> SUBSET Writes]
      BY <1>0, <1>3 DEF Write
    <2>5. UNCHANGED <<session, gateway, request, seen, reply, granted>>
      BY <1>3 DEF Write
    <2>6. ConcernsSession' /\ PaidAnswers'
      BY <2>5 DEF IInv, ConcernsSession, PaidAnswers
    <2> QED
      BY <1>0, <2>1, <2>3, <2>4, <2>5, <2>6, MovingOn
  <1>4. CASE EndSnapshot(r)
    <2>1. Finish(r) /\ gateway' = gateway
      BY <1>4 DEF EndSnapshot, EndOfSnapshot
    <2>2. request' \in [Requests -> RequestStates] /\ ConcernsSession' /\ PaidAnswers'
      BY <2>1, Finishing
    <2>3. seen' \in [Requests -> Plans] /\ todo' \in [Requests -> SUBSET Writes]
      BY <1>0, <1>4 DEF EndSnapshot, EndOfSnapshot, Plans
    <2> QED
      BY <1>0, <1>4, <2>2, <2>3, MovingOn DEF EndSnapshot
  <1> QED
    BY <1>1, <1>2, <1>3, <1>4 DEF Snapshot

(* A session is created: a row that was not there gets a status.             *)
LEMMA Creating ==
    ASSUME IInv, NEW r \in Requests, NEW s \in Sessions, NEW n \in Packages,
           CreateSession(r, s, n)
    PROVE  IInv' /\ KeepsResolved
  <1>1. /\ session \in [Sessions -> SessionRows] /\ seen \in [Requests -> Plans]
        /\ n \in Nat
    BY PackagesAssumption DEF IInv, TypeOK
  <1>2. /\ session' \in [Sessions -> SessionRows]
        /\ \A t \in Sessions :
              session'[t].status = IF t = s THEN "pending" ELSE session[t].status
    BY <1>1 DEF CreateSession, SessionRows
  <1>3. session[s].status = "none"
    BY DEF CreateSession
  <1>4. request' \in [Requests -> RequestStates] /\ ConcernsSession' /\ PaidAnswers'
    BY Finishing DEF CreateSession, EndOfSnapshot
  <1>5. seen' \in [Requests -> Plans]
    BY <1>1 DEF CreateSession, EndOfSnapshot, Plans
  <1>6. TypeOK'
    BY <1>2, <1>4, <1>5 DEF IInv, TypeOK, CreateSession
  <1>7. GrantedOnce' /\ SuccessWasPaid' /\ KeepsResolved
    BY <1>2, <1>3 DEF IInv, GrantedOnce, SuccessWasPaid, KeepsResolved, ResolvedStatuses,
                      CreateSession
  <1> QED
    BY <1>4, <1>6, <1>7 DEF IInv

(* The steps of a poll.                                                     *)
LEMMA Beginning ==
    ASSUME IInv, NEW r \in Requests, NEW s \in Sessions, BeginPoll(r, s)
    PROVE  IInv' /\ KeepsResolved
  <1> DEFINE state == [Idle EXCEPT !.session = s,
                        !.step = IF session[s].age = "expired" THEN "expiring" ELSE "asking"]
  <1>1. state \in RequestStates /\ state.session = s /\ state.step \in {"expiring", "asking"}
    BY DEF Idle, RequestStates, Steps
  <1>2. request' = [request EXCEPT ![r] = state] /\ gateway' = gateway
    BY DEF BeginPoll
  <1>3. request' \in [Requests -> RequestStates] /\ ConcernsSession' /\ PaidAnswers'
    <2> HIDE DEF state
    <2> QED
      BY <1>1, <1>2, Stepping
  <1>4. /\ plan \in Plans /\ cycle \in Cycles /\ seen \in [Requests -> Plans]
        /\ todo \in [Requests -> SUBSET Writes] /\ reply \in [Sessions -> {"none", "00", "02"}]
    BY DEF IInv, TypeOK
  <1> QED
    BY <1>3, <1>4, MovingOn DEF BeginPoll

LEMMA PollSteps ==
    ASSUME IInv, NEW r \in Requests, Reconcile(r)
    PROVE  IInv' /\ KeepsResolved
  <1>0. /\ plan \in Plans /\ cycle \in Cycles /\ request \in [Requests -> RequestStates]
        /\ seen \in [Requests -> Plans] /\ todo \in [Requests -> SUBSET Writes]
        /\ reply \in [Sessions -> {"none", "00", "02"}]
        /\ session \in [Sessions -> SessionRows]
    BY DEF IInv, TypeOK
  <1>1. CASE ExpireSession(r)
    <2> DEFINE s == request[r].session
    <2>1. s \in Sessions
      BY <1>1 DEF IInv, ConcernsSession, ExpireSession
    <2>2. Finish(r) /\ UNCHANGED <<plan, cycle, gateway, seen, todo, reply, granted>>
      BY <1>1 DEF ExpireSession
    <2>3. /\ session' \in [Sessions -> SessionRows]
          /\ \A t \in Sessions :
               \/ session'[t].status = session[t].status
               \/ session[t].status = "pending" /\ session'[t].status = "expired"
      <3>1. CASE session[s].status = "pending"
        <4>1. SetStatus(s, "expired")
          BY <1>1, <3>1 DEF ExpireSession
        <4> HIDE DEF s
        <4> QED
          BY <1>0, <2>1, <3>1, <4>1, StatusUpdate
      <3>2. CASE session[s].status # "pending"
        BY <1>0, <1>1, <3>2 DEF ExpireSession
      <3> QED
        BY <3>1, <3>2
    <2>4. request' \in [Requests -> RequestStates] /\ ConcernsSession' /\ PaidAnswers'
      BY <2>2, Finishing
    <2>5. TypeOK'
      BY <2>2, <2>3, <2>4 DEF IInv, TypeOK
    <2>6. GrantedOnce' /\ SuccessWasPaid' /\ KeepsResolved
      BY <2>2, <2>3 DEF IInv, GrantedOnce, SuccessWasPaid, KeepsResolved, ResolvedStatuses
    <2> QED
      BY <2>4, <2>5, <2>6 DEF IInv
  <1>2. CASE QueryGateway(r)
    <2> DEFINE state == [request[r] EXCEPT !.step = "answered",
                                           !.paid = gateway[request[r].session] = "paid"]
    <2>1. /\ state \in RequestStates /\ state.session = request[r].session
          /\ state.paid = TRUE => gateway[request[r].session] = "paid"
      BY <1>0 DEF RequestStates, Steps
    <2>2. request' = [request EXCEPT ![r] = state] /\ gateway' = gateway
      BY <1>2 DEF QueryGateway
    <2>3. request[r].session \in Sessions
      BY <1>2 DEF IInv, ConcernsSession, QueryGateway
    <2>4. request' \in [Requests -> RequestStates] /\ ConcernsSession' /\ PaidAnswers'
      <3> HIDE DEF state
      <3> QED
        BY <2>1, <2>2, <2>3, Stepping
    <2> QED
      BY <1>0, <1>2, <2>4, MovingOn DEF QueryGateway
  <1>3. CASE QueryFails(r)
    <2>1. request' \in [Requests -> RequestStates] /\ ConcernsSession' /\ PaidAnswers'
      BY <1>3, Finishing DEF QueryFails
    <2> QED
      BY <1>0, <1>3, <2>1, MovingOn DEF QueryFails
  <1>4. CASE CompletePoll(r)
    BY <1>0, <1>4, Completing DEF CompletePoll
  <1> QED
    BY <1>1, <1>2, <1>3, <1>4 DEF Reconcile

(* The steps of a notification.                                             *)
LEMMA NotificationBegins ==
    ASSUME IInv, NEW r \in Requests, NEW s \in Sessions,
           BeginNotification(r, s) \/ ConfirmedAlready(r, s)
    PROVE  IInv' /\ KeepsResolved
  <1>0. /\ plan \in Plans /\ cycle \in Cycles /\ request \in [Requests -> RequestStates]
        /\ seen \in [Requests -> Plans] /\ todo \in [Requests -> SUBSET Writes]
        /\ reply \in [Sessions -> {"none", "00", "02"}]
    BY DEF IInv, TypeOK
  <1>1. CASE BeginNotification(r, s)
    <2> DEFINE state == [Idle EXCEPT !.step = "notified", !.session = s,
                                     !.paid = gateway[s] = "paid"]
    <2>1. /\ state \in RequestStates /\ state.session = s
          /\ state.paid = TRUE => gateway[s] = "paid"
      BY DEF Idle, RequestStates, Steps
    <2>2. request' = [request EXCEPT ![r] = state] /\ gateway' = gateway
      BY <1>1 DEF BeginNotification
    <2>3. request' \in [Requests -> RequestStates] /\ ConcernsSession' /\ PaidAnswers'
      <3> HIDE DEF state
      <3> QED
        BY <2>1, <2>2, Stepping
    <2> QED
      BY <1>0, <1>1, <2>3, MovingOn DEF BeginNotification
  <1>2. CASE ConfirmedAlready(r, s)
    <2>1. ConcernsSession' /\ PaidAnswers'
      BY <1>2 DEF IInv, ConcernsSession, PaidAnswers, ConfirmedAlready
    <2>2. reply' \in [Sessions -> {"none", "00", "02"}]
      BY <1>0, <1>2 DEF ConfirmedAlready
    <2> QED
      BY <1>0, <1>2, <2>1, <2>2, MovingOn DEF ConfirmedAlready
  <1> QED
    BY <1>1, <1>2

LEMMA NotificationCompletes ==
    ASSUME IInv, NEW r \in Requests, CompleteNotification(r)
    PROVE  IInv' /\ KeepsResolved
  <1>1. reply' \in [Sessions -> {"none", "00", "02"}]
    BY DEF IInv, TypeOK, CompleteNotification
  <1> QED
    BY <1>1, Completing DEF CompleteNotification

(* The customer and the clock.                                              *)
LEMMA OutsideSteps ==
    ASSUME IInv,
           \/ \E s \in Sessions : \/ \E outcome \in {"paid", "declined"} : Pay(s, outcome)
                                  \/ SessionAges(s)
           \/ CycleEnds
    PROVE  IInv' /\ KeepsResolved
  <1>1. ASSUME NEW s \in Sessions, NEW outcome \in {"paid", "declined"}, Pay(s, outcome)
        PROVE  IInv' /\ KeepsResolved
    <2>1. /\ gateway' \in [Sessions -> {"open", "paid", "declined"}]
          /\ \A t \in Sessions : gateway[t] = "paid" => gateway'[t] = "paid"
      BY <1>1 DEF IInv, TypeOK, Pay
    <2>2. UNCHANGED <<plan, cycle, session, request, seen, todo, reply, granted>>
      BY <1>1 DEF Pay
    <2>3. TypeOK'
      BY <2>1, <2>2 DEF IInv, TypeOK
    <2>4. ConcernsSession' /\ PaidAnswers'
      BY <2>1, <2>2 DEF IInv, ConcernsSession, PaidAnswers
    <2>5. GrantedOnce' /\ SuccessWasPaid' /\ KeepsResolved
      BY <2>1, <2>2 DEF IInv, GrantedOnce, SuccessWasPaid, KeepsResolved
    <2> QED
      BY <2>3, <2>4, <2>5 DEF IInv
  <1>2. ASSUME NEW s \in Sessions, SessionAges(s)
        PROVE  IInv' /\ KeepsResolved
    <2> DEFINE age == IF session[s].age = "payable" THEN "unpayable" ELSE "expired"
    <2>1. age \in Ages
      BY DEF Ages
    <2>2. session' = [session EXCEPT ![s].age = age]
      BY <1>2 DEF SessionAges
    <2>3. UNCHANGED <<plan, cycle, gateway, request, seen, todo, reply, granted>>
      BY <1>2 DEF SessionAges
    <2>4. /\ session' \in [Sessions -> SessionRows]
          /\ \A t \in Sessions : session'[t].status = session[t].status
      <3> HIDE DEF age
      <3> QED
        BY <2>1, <2>2, AgeUpdate DEF IInv, TypeOK
    <2>5. TypeOK'
      BY <2>3, <2>4 DEF IInv, TypeOK
    <2>6. ConcernsSession' /\ PaidAnswers'
      BY <2>3 DEF IInv, ConcernsSession, PaidAnswers
    <2>7. GrantedOnce' /\ SuccessWasPaid' /\ KeepsResolved
      BY <2>3, <2>4 DEF IInv, GrantedOnce, SuccessWasPaid, KeepsResolved
    <2> QED
      BY <2>5, <2>6, <2>7 DEF IInv
  <1>3. CASE CycleEnds
    <2>1. cycle' \in Cycles
      BY <1>3 DEF IInv, TypeOK, Cycles, CycleEnds
    <2>2. UNCHANGED <<plan, session, gateway, request, seen, todo, reply, granted>>
      BY <1>3 DEF CycleEnds
    <2>3. ConcernsSession' /\ PaidAnswers'
      BY <2>2 DEF IInv, ConcernsSession, PaidAnswers
    <2> QED
      BY <2>1, <2>2, <2>3, MovingOn DEF IInv, TypeOK
  <1> QED
    BY <1>1, <1>2, <1>3

-----------------------------------------------------------------------------
LEMMA Initially ==
    ASSUME Init
    PROVE  IInv
  <1>1. TypeOK
    BY InitialPlansAssumption
    DEF Init, TypeOK, Plans, Cycles, SessionRows, Ages, RequestStates, Steps, Idle
  <1>2. ConcernsSession /\ PaidAnswers
    BY DEF Init, ConcernsSession, PaidAnswers, Idle
  <1>3. GrantedOnce /\ SuccessWasPaid
    BY DEF Init, GrantedOnce, SuccessWasPaid
  <1> QED
    BY <1>1, <1>2, <1>3 DEF IInv

LEMMA Stepwise ==
    ASSUME IInv, [Next]_vars
    PROVE  IInv' /\ KeepsResolved
  <1>1. ASSUME NEW r \in Requests, Snapshot(r) \/ Reconcile(r) \/ CompleteNotification(r)
        PROVE  IInv' /\ KeepsResolved
    BY <1>1, SnapshotSteps, PollSteps, NotificationCompletes
  <1>2. ASSUME NEW r \in Requests, NEW s \in Sessions,
               \/ \E n \in Packages : CreateSession(r, s, n)
               \/ BeginPoll(r, s) \/ ConfirmedAlready(r, s) \/ BeginNotification(r, s)
        PROVE  IInv' /\ KeepsResolved
    BY <1>2, Creating, Beginning, NotificationBegins
  <1>3. CASE UNCHANGED vars
    <2>1. TypeOK'
      BY <1>3 DEF IInv, TypeOK, vars
    <2>2. ConcernsSession' /\ PaidAnswers'
      BY <1>3 DEF IInv, ConcernsSession, PaidAnswers, vars
    <2> QED
      BY <1>3, <2>1, <2>2, SessionsKept DEF IInv, vars
  <1> QED
    BY <1>1, <1>2, <1>3, OutsideSteps DEF Next

LEMMA Invariance == Spec => []IInv
  <1>1. Init => IInv
    BY Initially
  <1>2. IInv /\ [Next]_vars => IInv'
    BY Stepwise
  <1> QED
    BY <1>1, <1>2, PTL DEF Spec

(* Every variable keeps its type.                                           *)
THEOREM TypeCorrect == Spec => []TypeOK
  <1>1. IInv => TypeOK
    BY DEF IInv
  <1> QED
    BY <1>1, Invariance, PTL

(* completeUpgrade raises the quota once for every session that is paid,     *)
(* whatever number of polls and notifications overlap.                      *)
THEOREM GrantsOnce == Spec => []GrantedOnce
  <1>1. IInv => GrantedOnce
    BY DEF IInv
  <1> QED
    BY <1>1, Invariance, PTL

(* completeUpgrade makes a success only of a session paid at the gateway,    *)
(* however old the answer it is told.                                       *)
THEOREM SuccessPaid == Spec => []SuccessWasPaid
  <1>1. IInv => SuccessWasPaid
    BY DEF IInv
  <1> QED
    BY <1>1, Invariance, PTL

(* Nothing resolves a payment session twice: not completeUpgrade, not the    *)
(* expiry of a poll that read the session earlier.                          *)
THEOREM ResolvedFinal == Spec => ResolvedIsFinal
  <1>1. IInv /\ [Next]_vars =>
          [\A s \in Sessions : session[s].status \in {"success", "failed", "expired"} =>
                                 session'[s].status = session[s].status]_vars
    BY Stepwise DEF KeepsResolved, ResolvedStatuses
  <1> QED
    BY <1>1, Invariance, PTL DEF Spec, ResolvedIsFinal
=============================================================================
