------------------------------ MODULE Accounts ------------------------------
(***************************************************************************)
(* Accounts, companies and their members: sign-up, verification, invitations *)
(* and Google sign-in (modules/auth), the members of a company              *)
(* (modules/organizations) and the company a user founds later              *)
(* (services/accountService.js).                                           *)
(*                                                                         *)
(* Most of these requests read in one statement, often on another connection *)
(* than their transaction, and write in a later one. The writes of one        *)
(* transaction are one step here. What the database itself refuses counts:    *)
(* users.email is unique, a membership names an existing user and an existing  *)
(* inviter, and a user who invited somebody else cannot be deleted, while his  *)
(* own memberships go with him.                                             *)
(***************************************************************************)
EXTENDS Integers, FiniteSets

CONSTANTS
    Clients,    \* requests being served
    Emails,      \* addresses
    Ids,         \* user ids (bound: accounts ever created)
    Companies    \* company ids (bound: companies ever created)

VARIABLES
    accounts,   \* users and profiles by id: Fresh, Gone or a record
    companies,  \* companies created
    members,    \* company_members by company and user: a record, or NotMember
    requests    \* what each request has read

accountsVars == <<accounts, companies, members, requests>>

Fresh == [state |-> "fresh"]
Gone == [state |-> "gone"]
NotMember == [status |-> "none"]
NothingRead == [step |-> "idle"]
None == "none"

AccountsInit ==
    /\ accounts = [u \in Ids |-> Fresh]
    /\ companies = {}
    /\ members = [c \in Companies |-> [u \in Ids |-> NotMember]]
    /\ requests = [r \in Clients |-> NothingRead]

Exists(u) == accounts[u].state = "stored"
getUserByEmail(email) == {u \in Ids : Exists(u) /\ accounts[u].email = email}
Row(company, user) == members[company][user]

Unchosen == {u \in Ids : accounts[u] = Fresh}
Unfounded == Companies \ companies

(* Steps of a request: it goes on with what it read, or ends.               *)
BeginWith(r, read) == requests[r] = NothingRead /\ requests' = [requests EXCEPT ![r] = read]
GoOn(r, read) == requests' = [requests EXCEPT ![r] = read]
Conclude(r) == requests' = [requests EXCEPT ![r] = NothingRead]
At(r, step) == requests[r].step = step

Account(email, role, verified, company) ==
    [state |-> "stored", email |-> email, role |-> role, verified |-> verified, company |-> company]

Membership(role, status, by) == [role |-> role, status |-> status, by |-> by]

(* A new account and, with a company, its founder as the active admin.       *)
Store(u, account) ==
    /\ accounts' = [accounts EXCEPT ![u] = account]
    /\ IF account.company = None THEN UNCHANGED <<companies, members>>
       ELSE /\ companies' = companies \cup {account.company}
            /\ members' = [members EXCEPT ![account.company][u] = Membership("admin", "active", u)]

-----------------------------------------------------------------------------
(* register.                                                               *)

register(r, email, role) ==
    /\ \A u \in getUserByEmail(email) : ~accounts[u].verified
    /\ IF getUserByEmail(email) = {} THEN BeginWith(r, [step |-> "create", email |-> email, role |-> role])
       ELSE \E u \in getUserByEmail(email) :
              BeginWith(r, [step |-> "replace", user |-> u, email |-> email, role |-> role])
    /\ UNCHANGED <<accounts, companies, members>>

(* getPrimaryCompanyMembership with includeInactive: an active membership    *)
(* before another; the newest of the others, which may be any.              *)
PrimaryStatuses(u) ==
    LET statuses == {Row(c, u).status : c \in companies} \ {"none"}
    IN IF "active" \in statuses THEN {"active"} ELSE statuses

checkInvitation(r) ==
    /\ At(r, "replace")
    /\ PrimaryStatuses(requests[r].user) # {"invited"}
    /\ GoOn(r, [step |-> "delete", user |-> requests[r].user, email |-> requests[r].email,
                role |-> requests[r].role])
    /\ UNCHANGED <<accounts, companies, members>>

(* DELETE FROM users, in a statement of its own; memberships are deleted      *)
(* with the user. invited_by has no ON DELETE: while another's membership     *)
(* names this user the statement fails, and the request with it.             *)
Cascade(u) ==
    /\ accounts' = [accounts EXCEPT ![u] = Gone]
    /\ members' = [c \in Companies |-> [members[c] EXCEPT ![u] = NotMember]]

deleteUser_InviterForgotten(r) ==
    /\ At(r, "delete")
    /\ Cascade(requests[r].user)
    /\ GoOn(r, [step |-> "create", email |-> requests[r].email, role |-> requests[r].role])
    /\ UNCHANGED companies

deleteUser(r) ==
    /\ At(r, "delete")
    /\ \A c \in companies, u \in Ids \ {requests[r].user} :
          Row(c, u) # NotMember => Row(c, u).by # requests[r].user
    /\ Cascade(requests[r].user)
    /\ GoOn(r, [step |-> "create", email |-> requests[r].email, role |-> requests[r].role])
    /\ UNCHANGED companies

(* createUser, with or without the company of a founder; a second account of  *)
(* the address is refused. When the trial's insert fails, the error is         *)
(* swallowed and COMMIT undoes everything: the request ends as an abandoned one  *)
(* does, though it answers success.                                         *)
createUser(r) ==
    /\ At(r, "create")
    /\ getUserByEmail(requests[r].email) = {}
    /\ \E u \in Unchosen :
         \E company \in {None} \cup IF requests[r].role = "b2b" THEN Unfounded ELSE {} :
            Store(u, Account(requests[r].email, requests[r].role, FALSE, company))
    /\ Conclude(r)

-----------------------------------------------------------------------------
(* verifyEmail: an unverified account is read and its row marked.            *)

verifyEmail(r, email) ==
    /\ \E u \in getUserByEmail(email) :
         /\ ~accounts[u].verified
         /\ BeginWith(r, [step |-> "verify", user |-> u])
    /\ UNCHANGED <<accounts, companies, members>>

Verified(u) ==
    IF Exists(u) THEN [accounts EXCEPT ![u].verified = TRUE] ELSE accounts

markEmailVerified(r) ==
    /\ At(r, "verify")
    /\ accounts' = Verified(requests[r].user)
    /\ Conclude(r)
    /\ UNCHANGED <<companies, members>>

-----------------------------------------------------------------------------
(* acceptCompanyInvite: the account, then the membership, then the writes.    *)

acceptCompanyInvite(r, email, company) ==
    /\ \E u \in getUserByEmail(email) :
         BeginWith(r, [step |-> "invited", user |-> u, company |-> company,
                   verified |-> accounts[u].verified])
    /\ UNCHANGED <<accounts, companies, members>>

findCompanyMembership(r) ==
    /\ At(r, "invited")
    /\ Row(requests[r].company, requests[r].user).status \in {"invited", "active"}
    /\ GoOn(r, [step |-> IF requests[r].verified THEN "activate" ELSE "accept",
                user |-> requests[r].user, company |-> requests[r].company])
    /\ UNCHANGED <<accounts, companies, members>>

acceptVerified(r) ==
    /\ At(r, "accept")
    /\ accounts' = Verified(requests[r].user)
    /\ GoOn(r, [step |-> "activate", user |-> requests[r].user, company |-> requests[r].company])
    /\ UNCHANGED <<companies, members>>

activateCompanyMembership_AnyStatus(r) ==
    /\ At(r, "activate")
    /\ LET c == requests[r].company
           u == requests[r].user
       IN members' = IF Row(c, u) # NotMember
                     THEN [members EXCEPT ![c][u].status = "active"] ELSE members
    /\ Conclude(r)
    /\ UNCHANGED <<accounts, companies>>

(* UPDATE ... WHERE status = 'invited'; the invitation is accepted whatever   *)
(* the update found.                                                       *)
activateCompanyMembership(r) ==
    /\ At(r, "activate")
    /\ LET c == requests[r].company
           u == requests[r].user
       IN members' = IF Row(c, u).status = "invited"
                     THEN [members EXCEPT ![c][u].status = "active"] ELSE members
    /\ Conclude(r)
    /\ UNCHANGED <<accounts, companies>>

-----------------------------------------------------------------------------
(* Members of a company, changed by its admins. Signed in is who was verified *)
(* when the request arrived.                                               *)

IsAdmin(c, u) ==
    /\ Exists(u) /\ accounts[u].verified
    /\ Row(c, u).status = "active" /\ Row(c, u).role = "admin"

createMember(r, by, company, email) ==
    /\ IsAdmin(company, by)
    /\ \A u \in getUserByEmail(email) : Row(company, u) = NotMember
    /\ BeginWith(r, [step |-> "invite", by |-> by, company |-> company, email |-> email])
    /\ UNCHANGED <<accounts, companies, members>>

(* The account of the address, on another connection; none of a consumer.    *)
readInvited(r) ==
    /\ At(r, "invite")
    /\ \A u \in getUserByEmail(requests[r].email) : accounts[u].role # "b2c"
    /\ GoOn(r, [step |-> "insert", by |-> requests[r].by, company |-> requests[r].company,
                email |-> requests[r].email, found |-> getUserByEmail(requests[r].email)])
    /\ UNCHANGED <<accounts, companies, members>>

Invite(company, u, by) ==
    members' = [members EXCEPT ![company][u] = Membership("member", "invited", by)]

(* The account read joins the company unless it has one already; without one   *)
(* an account is created, unless the address got one meanwhile. The inviter    *)
(* must still exist, and nobody is a member twice.                          *)
insertMember(r) ==
    /\ At(r, "insert")
    /\ Exists(requests[r].by)
    /\ \/ \E u \in requests[r].found :
            /\ Exists(u) /\ Row(requests[r].company, u) = NotMember
            /\ Invite(requests[r].company, u, requests[r].by)
            /\ accounts' = [accounts EXCEPT ![u].company =
                 IF @ = None THEN requests[r].company ELSE @]
       \/ \E u \in Unchosen :
            /\ requests[r].found = {} /\ getUserByEmail(requests[r].email) = {}
            /\ Invite(requests[r].company, u, requests[r].by)
            /\ accounts' = [accounts EXCEPT ![u] =
                 Account(requests[r].email, "b2b", FALSE, requests[r].company)]
    /\ Conclude(r)
    /\ UNCHANGED companies

(* findMemberForMutation, read without a lock: not oneself, not an admin.    *)
findMemberForMutation(r, by, company, user, change) ==
    /\ IsAdmin(company, by)
    /\ user # by /\ Row(company, user) # NotMember /\ Row(company, user).role # "admin"
    /\ BeginWith(r, [step |-> change, company |-> company, user |-> user])
    /\ UNCHANGED <<accounts, companies, members>>

(* A member's row deleted meanwhile is not found again, though the same       *)
(* person may be invited anew: the other changes of the row end.             *)
EndAll(company, user, r) ==
    requests' = [q \in Clients |->
        IF q = r \/ (/\ requests[q].step \in {"active", "disabled", "remove"}
                    /\ requests[q].company = company /\ requests[q].user = user)
        THEN NothingRead ELSE requests[q]]

updateMember(r) ==
    /\ requests[r].step \in {"active", "disabled"}
    /\ LET c == requests[r].company
           u == requests[r].user
       IN /\ Row(c, u) # NotMember
          /\ members' = [members EXCEPT ![c][u].status = requests[r].step]
    /\ Conclude(r)
    /\ UNCHANGED <<accounts, companies>>

deleteMember(r) ==
    /\ At(r, "remove")
    /\ LET c == requests[r].company
           u == requests[r].user
       IN /\ Row(c, u) # NotMember
          /\ members' = [members EXCEPT ![c][u] = NotMember]
          /\ EndAll(c, u, r)
    /\ UNCHANGED <<accounts, companies>>

-----------------------------------------------------------------------------
(* createCompany: the profile is read, and replaced without a second look.   *)

createCompany(r, u) ==
    /\ Exists(u) /\ accounts[u].verified
    /\ accounts[u].company = None /\ accounts[u].role = "b2b"
    /\ BeginWith(r, [step |-> "found", user |-> u])
    /\ UNCHANGED <<accounts, companies, members>>

insertCompany(r) ==
    /\ At(r, "found")
    /\ Exists(requests[r].user)
    /\ \E company \in Unfounded :
         LET old == accounts[requests[r].user]
         IN Store(requests[r].user, Account(old.email, old.role, old.verified, company))
    /\ Conclude(r)

-----------------------------------------------------------------------------
(* handleGoogleAuth reads the account twice; the second time inside the       *)
(* transaction of createOrUpdateGoogleUser, on another connection.            *)

handleGoogleAuth(r, email, role) ==
    /\ BeginWith(r, [step |-> "google", email |-> email, role |-> role,
                 isNew |-> getUserByEmail(email) = {}])
    /\ UNCHANGED <<accounts, companies, members>>

readGoogleUser(r) ==
    /\ At(r, "google")
    /\ IF getUserByEmail(requests[r].email) = {}
       THEN GoOn(r, [step |-> "google_create", email |-> requests[r].email,
                     role |-> requests[r].role, isNew |-> requests[r].isNew])
       ELSE \E u \in getUserByEmail(requests[r].email) :
              GoOn(r, [step |-> "verify", user |-> u])
    /\ UNCHANGED <<accounts, companies, members>>

(* A company comes with the account only when the first read saw an account.  *)
insertGoogleUser(r) ==
    /\ At(r, "google_create")
    /\ getUserByEmail(requests[r].email) = {}
    /\ LET withCompany == requests[r].role = "b2b" /\ ~requests[r].isNew
       IN \E u \in Unchosen :
            \E company \in IF withCompany THEN Unfounded ELSE {None} :
               Store(u, Account(requests[r].email, requests[r].role, TRUE, company))
    /\ Conclude(r)

(* Refused, failed, or cut off with its process.                            *)
abandon(r) ==
    /\ requests[r] # NothingRead
    /\ Conclude(r)
    /\ UNCHANGED <<accounts, companies, members>>

-----------------------------------------------------------------------------
AccountsNext ==
    \E r \in Clients :
        \/ \E email \in Emails, role \in {"b2b", "b2c"} :
              register(r, email, role) \/ handleGoogleAuth(r, email, role)
        \/ \E email \in Emails :
              \/ verifyEmail(r, email)
              \/ \E c \in companies : acceptCompanyInvite(r, email, c)
              \/ \E c \in companies, by \in Ids : createMember(r, by, c, email)
        \/ checkInvitation(r) \/ deleteUser(r) \/ createUser(r) \/ markEmailVerified(r)
        \/ findCompanyMembership(r) \/ acceptVerified(r) \/ activateCompanyMembership(r)
        \/ readInvited(r) \/ insertMember(r)
        \/ \E by, u \in Ids, c \in companies, change \in {"active", "disabled", "remove"} :
              findMemberForMutation(r, by, c, u, change)
        \/ updateMember(r) \/ deleteMember(r)
        \/ \E u \in Ids : createCompany(r, u)
        \/ insertCompany(r) \/ readGoogleUser(r) \/ insertGoogleUser(r)
        \/ abandon(r)

AccountsSpec == AccountsInit /\ [][AccountsNext]_accountsVars

-----------------------------------------------------------------------------
(* A company that anybody was invited to keeps an active admin, although its  *)
(* founder's account may be deleted by a sign-up that read it before it was    *)
(* verified, while he was already inviting.                                 *)
AdminRemains ==
    \A c \in companies :
        (\E u \in Ids : Row(c, u) # NotMember)
            => \E u \in Ids : Exists(u) /\ Row(c, u).status = "active" /\ Row(c, u).role = "admin"

(* A disabled member becomes active again only by an admin's change: not by    *)
(* the invitation he opened before he was disabled.                         *)
DisabledStays ==
    [][\A c \in Companies, u \in Ids :
         Row(c, u).status = "disabled" /\ members'[c][u].status = "active"
            => \E r \in Clients : At(r, "active") /\ requests[r].company = c
                                   /\ requests[r].user = u]_accountsVars
=============================================================================
