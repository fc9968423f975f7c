-------------------------------- MODULE Billing --------------------------------
(***************************************************************************)
(* Subscription and payment of one company (services/subscriptionService,  *)
(* routes/subscription, middleware/subscriptionAccess): its plan, its paid *)
(* cycle, its payment sessions, and the requests that touch them.          *)
(*                                                                         *)
(* completeUpgrade is one transaction that locks the session and then the  *)
(* company: one step. getSubscriptionSnapshot outside of it runs without   *)
(* BEGIN: each of its statements is a step, and its FOR UPDATE holds for   *)
(* one statement only. The gateway (VNPAY) is external: it may notify an   *)
(* outcome any number of times, late, or never.                            *)
(***************************************************************************)
EXTENDS Naturals, FiniteSetsExt

CONSTANTS
    Sessions,      \* payment sessions that can be created (bounds purchases)
    Requests,      \* concurrent HTTP requests
    Packages,      \* SKU increments on sale: 20, 35, 50
    LegacySku,     \* increment that the name of a legacy plan stands for
    InitialPlans,  \* "trial": a new company; "legacy": a plan named 'standard_<n>'
    NoSession

ASSUME PackagesAssumption == Packages \subseteq Nat \ {0} /\ LegacySku \in Nat \ {0}
ASSUME InitialPlansAssumption == InitialPlans \subseteq {"trial", "legacy"}
ASSUME NoSessionAssumption == NoSession \notin Sessions

VARIABLES
    plan,      \* companies.current_plan
    cycle,     \* subscription_cycles: quota and expiry of the standard plan
    session,   \* session[s]: status, package and age of a payment session
    gateway,   \* gateway[s]: what the customer did at VNPAY
    request,   \* request[r]: step, session and gateway answer of a request
    seen,      \* seen[r]: the plan that the snapshot of r has read
    todo,      \* todo[r]: writes that snapshot has decided on and not done
    reply,     \* reply[s]: RspCode answered to the last notification of s
    granted    \* history: how often s was turned into a quota

vars == <<plan, cycle, session, gateway, request, seen, todo, reply, granted>>

Plans == {"trial", "legacy", "standard"}
Cycles == [sku : Nat, expiry : {"unset", "running", "past"}]
Writes == {"normalise", "infer", "date", "downgrade"}
Steps == {"idle", "cycle", "writing", "asking", "answered", "expiring", "notified"}

(* The age of a session: the payment URL is good for 15 minutes, the        *)
(* session for 30.                                                          *)
Ages == {"payable", "unpayable", "expired"}
SessionRows == [status : {"none", "pending", "success", "failed", "expired"},
                package : Nat, age : Ages]

Idle == [step |-> "idle", session |-> NoSession, paid |-> FALSE, buying |-> FALSE]
RequestStates == [step : Steps, session : Sessions \cup {NoSession},
                  paid : BOOLEAN, buying : BOOLEAN]

IsStandard(p) == p \in {"standard", "legacy"}

Init ==
    /\ plan \in InitialPlans
    /\ cycle = [sku |-> 0, expiry |-> "unset"]
    /\ session = [s \in Sessions |-> [status |-> "none", package |-> 0, age |-> "payable"]]
    /\ gateway = [s \in Sessions |-> "open"]
    /\ request = [r \in Requests |-> Idle]
    /\ seen = [r \in Requests |-> "trial"]
    /\ todo = [r \in Requests |-> {}]
    /\ reply = [s \in Sessions |-> "none"]
    /\ granted = [s \in Sessions |-> 0]

-----------------------------------------------------------------------------
(* getSubscriptionSnapshot on a pooled connection: the plan is read, then   *)
(* the cycle, and the rows are written by what was read.                    *)

BeginSnapshot(r, buying) ==
    /\ request[r].step = "idle"
    /\ request' = [request EXCEPT ![r] = [Idle EXCEPT !.step = "cycle", !.buying = buying]]
    /\ seen' = [seen EXCEPT ![r] = plan]
    /\ UNCHANGED <<plan, cycle, session, gateway, todo, reply, granted>>

Needed(w, p, c) ==
    CASE w = "normalise" -> p = "legacy"
      [] w = "infer"     -> IsStandard(p) /\ c.sku = 0
      [] w = "date"      -> IsStandard(p) /\ c.expiry = "unset"
      [] w = "downgrade" -> IsStandard(p) /\ c.expiry = "past"

ReadCycle(r) ==
    /\ request[r].step = "cycle"
    /\ request' = [request EXCEPT ![r].step = "writing"]
    /\ todo' = [todo EXCEPT ![r] = {w \in Writes : Needed(w, seen[r], cycle)}]
    /\ UNCHANGED <<plan, cycle, session, gateway, seen, reply, granted>>

Before(w) ==
    CASE w = "normalise" -> {}
      [] w = "infer"     -> {"normalise"}
      [] w = "date"      -> {"normalise", "infer"}
      [] w = "downgrade" -> {"normalise", "infer", "date"}

(* Each UPDATE names only the company: it overwrites what is there now.     *)
Write(r, w) ==
    /\ request[r].step = "writing" /\ w \in todo[r] /\ Before(w) \cap todo[r] = {}
    /\ plan' = CASE w = "normalise" -> "standard"
                 [] w = "downgrade" -> "trial"
                 [] OTHER           -> plan
    /\ cycle' = CASE w = "infer" ->
                       [cycle EXCEPT !.sku = IF seen[r] = "legacy" THEN LegacySku ELSE 20]
                  [] w = "date"  -> [cycle EXCEPT !.expiry = "running"]
                  [] OTHER       -> cycle
    /\ todo' = [todo EXCEPT ![r] = @ \ {w}]
    /\ UNCHANGED <<session, gateway, request, seen, reply, granted>>

Finish(r) == request' = [request EXCEPT ![r] = Idle]
EndOfSnapshot(r) == Finish(r) /\ seen' = [seen EXCEPT ![r] = "trial"]

(* The middleware or GET /subscription has its snapshot, or the request dies *)
(* between two statements.                                                   *)
EndSnapshot(r) ==
    /\ request[r].step \in {"cycle", "writing"}
    /\ EndOfSnapshot(r)
    /\ todo' = [todo EXCEPT ![r] = {}]
    /\ UNCHANGED <<plan, cycle, session, gateway, reply, granted>>

(* upgradeSubscription: a trial target is refused on trial (already active)  *)
(* and on standard (lower plan), an export target creates no session: only   *)
(* standard packages are bought.                                             *)
CreateSession(r, s, n) ==
    /\ request[r].step = "writing" /\ request[r].buying /\ todo[r] = {}
    /\ session[s].status = "none"
    /\ session' = [session EXCEPT ![s].status = "pending", ![s].package = n]
    /\ EndOfSnapshot(r)
    /\ UNCHANGED <<plan, cycle, gateway, todo, reply, granted>>

-----------------------------------------------------------------------------
(* completeUpgrade.                                                        *)

(* The quota after buying n: the snapshot taken inside the transaction      *)
(* normalises, infers, dates and downgrades first.                          *)
NewQuota(n) ==
    LET base == IF ~IsStandard(plan) \/ cycle.expiry = "past" THEN 0
                ELSE IF cycle.sku > 0 THEN cycle.sku
                ELSE IF plan = "legacy" THEN LegacySku ELSE 20
    IN  base + n

Grant(s) ==
    /\ plan' = "standard"
    /\ cycle' = [sku |-> NewQuota(session[s].package), expiry |-> "running"]
    /\ granted' = [granted EXCEPT ![s] = @ + 1]

SetStatus(s, status) == session' = [session EXCEPT ![s].status = status]

Resolved_NotSuccess(s) == session[s].status \in {"failed", "expired"}
Resolved(s) == session[s].status \in {"success", "failed", "expired"}

CompleteUpgrade(s, paid) ==
    IF ~Resolved(s) /\ session[s].age # "expired" /\ paid
    THEN SetStatus(s, "success") /\ Grant(s)
    ELSE /\ \/ Resolved(s) /\ UNCHANGED session
            \/ ~Resolved(s) /\ session[s].age = "expired" /\ SetStatus(s, "expired")
            \/ ~Resolved(s) /\ session[s].age # "expired" /\ SetStatus(s, "failed")
         /\ UNCHANGED <<plan, cycle, granted>>

-----------------------------------------------------------------------------
(* GET /payment-status: reconcilePendingPaymentSession.                    *)

BeginPoll(r, s) ==
    /\ request[r].step = "idle" /\ session[s].status = "pending"
    /\ request' = [request EXCEPT ![r] =
            [Idle EXCEPT !.session = s,
                         !.step = IF session[s].age = "expired" THEN "expiring" ELSE "asking"]]
    /\ UNCHANGED <<plan, cycle, session, gateway, seen, todo, reply, granted>>

(* UPDATE ... SET status = 'expired' ... AND status = 'pending'.            *)
ExpireSession(r) ==
    /\ request[r].step = "expiring"
    /\ LET s == request[r].session
       IN  IF session[s].status = "pending" THEN SetStatus(s, "expired") ELSE UNCHANGED session
    /\ Finish(r)
    /\ UNCHANGED <<plan, cycle, gateway, seen, todo, reply, granted>>

(* QueryDR: the answer tells paid from not (or not yet) paid, and            *)
(* isFailedVnpayResult takes every code but 00 for a failure.                *)
QueryGateway_NotFailedIsPaid(r) ==
    /\ request[r].step = "asking"
    /\ request' = [request EXCEPT ![r].step = "answered",
                                  ![r].paid = gateway[request[r].session] # "declined"]
    /\ UNCHANGED <<plan, cycle, session, gateway, seen, todo, reply, granted>>

QueryGateway(r) ==
    /\ request[r].step = "asking"
    /\ request' = [request EXCEPT ![r].step = "answered",
                                  ![r].paid = gateway[request[r].session] = "paid"]
    /\ UNCHANGED <<plan, cycle, session, gateway, seen, todo, reply, granted>>

(* Too soon after the last query, no answer, a bad signature, or no code.   *)
QueryFails(r) ==
    /\ request[r].step = "asking"
    /\ Finish(r)
    /\ UNCHANGED <<plan, cycle, session, gateway, seen, todo, reply, granted>>

CompletePoll(r) ==
    /\ request[r].step = "answered"
    /\ CompleteUpgrade(request[r].session, request[r].paid)
    /\ Finish(r)
    /\ UNCHANGED <<gateway, seen, todo, reply>>

-----------------------------------------------------------------------------
(* GET /vnpay/ipn: the session is read, then completed.                    *)

ConfirmedAlready(r, s) ==
    /\ request[r].step = "idle" /\ gateway[s] # "open"
    /\ session[s].status \in {"success", "expired"}
    /\ reply' = [reply EXCEPT ![s] = "02"]
    /\ UNCHANGED <<plan, cycle, session, gateway, request, seen, todo, granted>>

BeginNotification(r, s) ==
    /\ request[r].step = "idle" /\ gateway[s] # "open"
    /\ session[s].status \in {"pending", "failed"}
    /\ request' = [request EXCEPT ![r] =
            [Idle EXCEPT !.step = "notified", !.session = s, !.paid = gateway[s] = "paid"]]
    /\ UNCHANGED <<plan, cycle, session, gateway, seen, todo, reply, granted>>

CompleteNotification(r) ==
    /\ request[r].step = "notified"
    /\ CompleteUpgrade(request[r].session, request[r].paid)
    /\ reply' = [reply EXCEPT ![request[r].session] = "00"]
    /\ Finish(r)
    /\ UNCHANGED <<gateway, seen, todo>>

-----------------------------------------------------------------------------
(* The customer at the gateway, and time.                                  *)

Pay(s, outcome) ==
    /\ session[s].status # "none" /\ session[s].age = "payable" /\ gateway[s] = "open"
    /\ gateway' = [gateway EXCEPT ![s] = outcome]
    /\ UNCHANGED <<plan, cycle, session, request, seen, todo, reply, granted>>

SessionAges(s) ==
    /\ session[s].status # "none" /\ session[s].age # "expired"
    /\ session' = [session EXCEPT ![s].age =
            IF session[s].age = "payable" THEN "unpayable" ELSE "expired"]
    /\ UNCHANGED <<plan, cycle, gateway, request, seen, todo, reply, granted>>

CycleEnds ==
    /\ cycle.expiry = "running"
    /\ cycle' = [cycle EXCEPT !.expiry = "past"]
    /\ UNCHANGED <<plan, session, gateway, request, seen, todo, reply, granted>>

-----------------------------------------------------------------------------
Snapshot(r) ==
    \/ \E buying \in BOOLEAN : BeginSnapshot(r, buying)
    \/ ReadCycle(r)
    \/ \E w \in Writes : Write(r, w)
    \/ EndSnapshot(r)

Reconcile(r) ==
    ExpireSession(r) \/ QueryGateway(r) \/ QueryFails(r) \/ CompletePoll(r)

Next ==
    \/ \E r \in Requests :
        \/ Snapshot(r) \/ Reconcile(r) \/ CompleteNotification(r)
        \/ \E s \in Sessions :
            \/ \E n \in Packages : CreateSession(r, s, n)
            \/ BeginPoll(r, s) \/ ConfirmedAlready(r, s) \/ BeginNotification(r, s)
    \/ \E s \in Sessions : \/ \E outcome \in {"paid", "declined"} : Pay(s, outcome)
                           \/ SessionAges(s)
    \/ CycleEnds

Spec == Init /\ [][Next]_vars

-----------------------------------------------------------------------------
(* Properties.                                                             *)

TypeOK ==
    /\ plan \in Plans
    /\ cycle \in Cycles
    /\ session \in [Sessions -> SessionRows]
    /\ gateway \in [Sessions -> {"open", "paid", "declined"}]
    /\ request \in [Requests -> RequestStates]
    /\ seen \in [Requests -> Plans]
    /\ todo \in [Requests -> SUBSET Writes]
    /\ reply \in [Sessions -> {"none", "00", "02"}]
    /\ granted \in [Sessions -> Nat]

(* A payment raises the quota exactly once, however its notifications and   *)
(* the polls that ask the gateway repeat, overlap and overtake each other   *)
(* (PHASE_16 CTL-BIL-03).                                                   *)
GrantedOnce ==
    \A s \in Sessions : granted[s] = IF session[s].status = "success" THEN 1 ELSE 0

(* Nobody is upgraded without having paid at the gateway: neither a stale   *)
(* gateway answer nor a repeated notification turns an unpaid session into  *)
(* a success.                                                               *)
SuccessWasPaid ==
    \A s \in Sessions : session[s].status = "success" => gateway[s] = "paid"

(* A resolved session is never resolved again: a poll that found it pending *)
(* and expired, or that asked the gateway long ago, cannot undo what a      *)
(* notification has committed since, nor the other way round.               *)
ResolvedIsFinal ==
    [][\A s \in Sessions : session[s].status \in {"success", "failed", "expired"} =>
                             session'[s].status = session[s].status]_vars

(* README: "the IPN callback is the source of truth", PHASE_16: the IPN      *)
(* raises the quota and answers RspCode 00: a payment confirmed with 00 in   *)
(* the life of its session has upgraded the company.                         *)
ConfirmedIsUpgraded ==
    \A s \in Sessions :
        gateway[s] = "paid" /\ reply[s] = "00" /\ session[s].age # "expired" =>
            session[s].status = "success"

=============================================================================
