------------------------------- MODULE Security -------------------------------
(***************************************************************************)
(* The security ledgers of a company and the acceptance of a release on them.      *)
(* A policy, a connection for single sign-on, a key and an incident are lists of     *)
(* revisions; a revision is written under the advisory lock of its reference, which   *)
(* makes it one step. The acceptance of a release holds no lock and no transaction:   *)
(* it reads each list by itself, all of them at once, and then writes. The company   *)
(* has one administrator, whose factor is that of AuthSessions, and one reference of  *)
(* each kind; its documents of evidence stand for all.                              *)
(***************************************************************************)
EXTENDS AuthSessions

CONSTANTS MaxWrites      \* bound: the revisions written, and what lapses

VARIABLES
    policies, connections, keys, incidents,      \* lists of revisions
    evidence,        \* whether the evidence is locked, with its checksum
    due,             \* whether the key's rotation is due
    migration,       \* the newest of schema_migrations
    releases,        \* production_acceptance_runs
    acceptance,      \* what the request under way has read, and whether others wrote meanwhile
    writes

ledgers == <<policies, connections, keys, incidents, evidence, due, migration>>
securityVars == <<sessionVars, ledgers, releases, acceptance, writes>>

NoAcceptance == [step |-> "idle", seen |-> <<>>, disturbed |-> FALSE, expected |-> FALSE]
EXPECTED_MIGRATION == 51
NoPolicy == [approved |-> FALSE, mfa |-> FALSE, sso |-> "disabled"]

SecurityInit ==
    /\ SessionsInit
    /\ policies = <<>> /\ connections = <<>> /\ keys = <<>> /\ incidents = <<>>
    /\ evidence = TRUE /\ due = FALSE /\ migration = EXPECTED_MIGRATION
    /\ releases = <<>> /\ acceptance = NoAcceptance /\ writes = 0

LastOf(list, none) == IF list = <<>> THEN none ELSE Last(list)

\* A variant, never taken: a factor that was ever enabled.
_adminMfaCoverage_Ever == \E v \in DOMAIN factors : factors[v].status = "enabled"

\* An enabled revision later than any disabled one.
_adminMfaCoverage ==
    \E v \in DOMAIN factors :
       /\ factors[v].status = "enabled"
       /\ \A w \in DOMAIN factors : factors[w].status = "disabled" => w < v

_hasActiveSso == LastOf(connections, "draft") = "active" /\ evidence

Counts ==
    /\ writes < MaxWrites /\ writes' = writes + 1
    /\ acceptance' = [acceptance EXCEPT !.disturbed = acceptance.step # "idle"]

-----------------------------------------------------------------------------
\* Policies are in the order of created_at, the time of BEGIN: one that waited for
\* the lock is not the latest.
createPolicy ==
    /\ evidence
    /\ \E policy \in [approved : BOOLEAN, mfa : BOOLEAN, sso : {"disabled", "required"}] :
        /\ policy.approved /\ policy.mfa => _adminMfaCoverage
        /\ policy.approved /\ policy.sso = "required" => _hasActiveSso
        /\ \/ policies' = Append(policies, policy)
           \/ policies # <<>> /\ policies' = InsertAt(policies, Len(policies), policy)
    /\ Counts
    /\ UNCHANGED <<sessionVars, connections, keys, incidents, evidence, due, migration, releases>>

createSsoConnection ==
    /\ evidence
    /\ \E status \in {"draft", "active", "disabled"} :
        /\ ~(LastOf(connections, "draft") = "disabled" /\ status = "active")
        /\ connections' = Append(connections, status)
    /\ Counts
    /\ UNCHANGED <<sessionVars, policies, keys, incidents, evidence, due, migration, releases>>

createKeyEvent ==
    /\ evidence
    /\ \E status \in {"active", "rotated", "revoked"} :
        /\ IF keys = <<>> THEN status = "active" ELSE Last(keys) = "active" /\ status # "active"
        /\ keys' = Append(keys, status)
    /\ Counts
    /\ UNCHANGED <<sessionVars, policies, connections, incidents, evidence, due, migration, releases>>

transitions ==
    {<<"none", "detected">>, <<"detected", "triaged">>, <<"triaged", "contained">>,
     <<"contained", "eradicated">>, <<"eradicated", "recovered">>, <<"recovered", "closed">>,
     <<"closed", "reopened">>, <<"reopened", "triaged">>}

createIncidentEvent ==
    /\ evidence
    /\ \E move \in transitions :
        /\ move[1] = LastOf(incidents, "none")
        /\ incidents' = Append(incidents, move[2])
    /\ Counts
    /\ UNCHANGED <<sessionVars, policies, connections, keys, evidence, due, migration, releases>>

RotationDue ==
    /\ keys # <<>> /\ ~due /\ due' = TRUE /\ Counts
    /\ UNCHANGED <<sessionVars, policies, connections, keys, incidents, evidence, migration, releases>>

EvidenceLapses ==
    /\ evidence /\ evidence' = FALSE /\ Counts
    /\ UNCHANGED <<sessionVars, policies, connections, keys, incidents, due, migration, releases>>

\* The repository has a migration after the one a release is expected to have.
Migrate ==
    /\ migration = EXPECTED_MIGRATION /\ migration' = 52
    /\ writes < MaxWrites /\ writes' = writes + 1
    /\ UNCHANGED <<sessionVars, policies, connections, keys, incidents, evidence, due,
                   releases, acceptance>>

Enrolment ==
    /\ beginEnrollment \/ confirmEnrollment \/ disable
    /\ Counts
    /\ UNCHANGED <<ledgers, releases>>

-----------------------------------------------------------------------------
(* The posture, as a request reads it: one query for each of these.                 *)

Posture == [policy |-> LastOf(policies, NoPolicy),
            mfa |-> _adminMfaCoverage,
            sso |-> _hasActiveSso,
            overdue |-> LastOf(keys, "none") = "active" /\ due,
            open |-> LastOf(incidents, "closed") # "closed"]

Passes_All(p) ==
    /\ p.policy.approved
    /\ p.policy.mfa => p.mfa
    /\ p.policy.sso = "required" => p.sso
    /\ ~p.overdue /\ ~p.open

productionReady == Passes_All(Posture) /\ LastOf(releases, FALSE)

\* A variant, never taken: incidents are not asked for.
Gates_Closed(p) == Passes_All([p EXCEPT !.open = FALSE])
Gates(p) == Passes_All(p)

BeginAcceptance ==
    /\ acceptance.step = "idle" /\ evidence
    /\ acceptance' = [NoAcceptance EXCEPT !.step = "read", !.expected = migration = EXPECTED_MIGRATION]
    /\ UNCHANGED <<sessionVars, ledgers, releases, writes>>

getPosture ==
    /\ acceptance.step = "read"
    /\ \E fact \in DOMAIN Posture \ DOMAIN acceptance.seen :
         acceptance' = [acceptance EXCEPT !.seen =
             [other \in DOMAIN @ \cup {fact} |-> IF other = fact THEN Posture[fact] ELSE @[other]]]
    /\ UNCHANGED <<sessionVars, ledgers, releases, writes>>

\* Accepted, or recorded as blocked. Nothing is accepted once the database has a
\* migration that is newer than the expected one.
createAcceptanceRun ==
    /\ acceptance.step = "read" /\ DOMAIN acceptance.seen = DOMAIN Posture
    /\ \/ Gates(acceptance.seen) /\ acceptance.expected /\ releases' = Append(releases, TRUE)
       \/ releases' = Append(releases, FALSE)
    /\ acceptance' = [acceptance EXCEPT !.step = "idle"]
    /\ writes < MaxWrites /\ writes' = writes + 1
    /\ UNCHANGED <<sessionVars, ledgers>>

SecurityNext ==
    \/ createPolicy \/ createSsoConnection \/ createKeyEvent \/ createIncidentEvent
    \/ RotationDue \/ EvidenceLapses \/ Migrate \/ Enrolment
    \/ BeginAcceptance \/ getPosture \/ createAcceptanceRun

SecuritySpec == SecurityInit /\ [][SecurityNext]_securityVars

-----------------------------------------------------------------------------
(* The sign-in and the ledgers agree on who has a second factor: a factor that        *)
(* challenges is one that counts as coverage, and the other way round. They differ      *)
(* only while an enrolment is pending after a disabling, when the factor that was       *)
(* disabled challenges again (mfaService.js:75, enterpriseSecurityService.js:37).       *)
EnabledAgree ==
    \/ (active # 0) = _adminMfaCoverage
    \/ /\ Last(factors).status = "pending"
       /\ \E v \in DOMAIN factors : factors[v].status = "disabled"

(* A release that is accepted makes the posture ready for production: what is checked   *)
(* when a release is accepted is what the posture then shows, unless a ledger was        *)
(* written while the request read (enterpriseSecurityService.js:310).                   *)
AcceptedIsReady ==
    [][releases' # releases /\ Last(releases') => productionReady' \/ acceptance.disturbed]_securityVars

(* "A disabled connection cannot be reactivated; create a new connection reference."     *)
(* (enterpriseSecurityService.js:193)                                                 *)
RetiredStaysRetired ==
    \A i, j \in DOMAIN connections :
        i < j /\ connections[i] = "disabled" => connections[j] # "active"
=============================================================================
