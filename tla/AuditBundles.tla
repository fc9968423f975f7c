----------------------------- MODULE AuditBundles -----------------------------
(***************************************************************************)
(* The audit packs of a product: versions that are generated by a job, reviewed, *)
(* issued by somebody else, shared by links, and followed by records of external  *)
(* assurance. A job attempt works on a file and a row that no lock joins, and     *)
(* two attempts overlap when the queue takes a lock for stale. Every other        *)
(* operation on a pack is a transaction under the advisory lock of that pack,      *)
(* which it asks for after BEGIN: the time it records is that of its BEGIN.        *)
(* Contents are told apart by the product's name, the only input that can change    *)
(* between two attempts; digests are the contents; criteria, labels, signatures      *)
(* and texts are left out.                                                      *)
(***************************************************************************)
EXTENDS Naturals, Sequences, SequencesExt, FiniteSetsExt

CONSTANTS
    Versions,            \* bound: 1..n, the versions of the product's pack
    Workers,             \* the attempts that may be under way at once
    Callers,             \* the requests that may be under way at once
    Users, Shares, Names,
    NoOne, Nothing,
    MaxDownloads,        \* max_downloads of a link
    AttemptsLimit,         \* bound: the attempts of a behaviour
    MaxTime              \* bound: the transactions of a behaviour

VARIABLES
    name,        \* products.name
    packs,       \* packs[v]: the row of audit_bundles
    reports,     \* reports[v]: the digest its report gives, Nothing until then
    files,       \* files[v]: the content at its storage key
    drafts,      \* drafts[v]: the content at the temporary path, one per process
    workers, attempts, overlapped,
    time, requests,
    reviews,     \* reviews[v]: in the order of their commits
    issues, shares, records

generation == <<name, packs, reports, files, drafts, workers, attempts, overlapped>>
lifecycle == <<time, requests, reviews, issues, shares, records>>
auditVars == <<generation, lifecycle>>

Completed(content) == [status |-> "completed", digest |-> content, covered |-> TRUE]
NoPack == [status |-> "none", digest |-> Nothing, covered |-> FALSE]
Rest == [step |-> "idle", pack |-> 0, content |-> Nothing]
NoCall == [step |-> "idle", kind |-> "none", pack |-> 0, at |-> 0, by |-> NoOne, seen |-> 0]
NoLink == [pack |-> 0, count |-> 0, revoked |-> FALSE, expired |-> FALSE]

(* Version 1 does not exist yet, or has been completed, or issued as well.           *)
AuditInit ==
    /\ name \in Names
    /\ \E past \in {"none", "completed", "issued"}, by \in Users : \E other \in Users \ {by} :
        /\ packs = [v \in Versions |-> IF v = 1 /\ past # "none" THEN Completed(name) ELSE NoPack]
        /\ reviews = [v \in Versions |->
              IF v = 1 /\ past = "issued" THEN <<[decision |-> "approved", by |-> by, at |-> 0]>> ELSE <<>>]
        /\ issues = [v \in Versions |->
              IF v = 1 /\ past = "issued" THEN [NoCall EXCEPT !.pack = 1, !.by = other] ELSE NoCall]
    /\ reports = [v \in Versions |-> packs[v].digest]
    /\ files = [v \in Versions |-> packs[v].digest] /\ drafts = [v \in Versions |-> Nothing]
    /\ workers = [w \in Workers |-> Rest] /\ attempts = 0 /\ overlapped = {}
    /\ time = 0 /\ requests = [r \in Callers |-> NoCall]
    /\ shares = [s \in Shares |-> NoLink]
    /\ records = [v \in Versions |-> <<>>]

Created == {v \in Versions : packs[v].status # "none"}
Issued == {v \in Versions : issues[v] # NoCall}
NewerIssued(v) == \E n \in Issued : n > v
NewerCompleted(v) == \E n \in Created : n > v /\ packs[n].status = "completed"

(* MAX(version) + 1; whether every calculation term is covered by evidence is     *)
(* settled with the evidence rows, which are copied here.                        *)
createAuditBundle ==
    /\ \E v \in Versions, covered \in BOOLEAN :
        /\ Created = 1..(v - 1)
        /\ packs' = [packs EXCEPT ![v] =
              [status |-> "processing", digest |-> Nothing, covered |-> covered]]
    /\ UNCHANGED <<name, reports, files, drafts, workers, attempts, overlapped, lifecycle>>

Rename == name' \in Names \ {name}
          /\ UNCHANGED <<packs, reports, files, drafts, workers, attempts, overlapped, lifecycle>>

-----------------------------------------------------------------------------
(* _generateAuditBundle, as an attempt w of the job makes it.                     *)

StepTo(w, step) == workers' = [workers EXCEPT ![w].step = step]

Attempt(w, v, skips) ==
    /\ workers[w] = Rest /\ v \in Created /\ attempts < AttemptsLimit
    /\ attempts' = attempts + 1
    /\ overlapped' = IF \E x \in Workers : workers[x].pack = v THEN overlapped \cup {v} ELSE overlapped
    /\ workers' = IF skips /\ packs[v].status = "completed" THEN workers
                  ELSE [workers EXCEPT ![w] = [step |-> "build", pack |-> v, content |-> name]]
    /\ UNCHANGED <<name, packs, reports, files, drafts, lifecycle>>

StartAttempt_Again(w, v) == Attempt(w, v, FALSE)   \* a variant, never taken
StartAttempt(w, v) == Attempt(w, v, TRUE)

WriteDraft(w) ==
    /\ workers[w].step = "build"
    /\ drafts' = [drafts EXCEPT ![workers[w].pack] = workers[w].content]
    /\ StepTo(w, "verify")
    /\ UNCHANGED <<name, packs, reports, files, attempts, overlapped, lifecycle>>

VerifyDraft(w) ==
    /\ workers[w].step = "verify"
    /\ drafts[workers[w].pack] = workers[w].content
    /\ StepTo(w, "rename")
    /\ UNCHANGED <<name, packs, reports, files, drafts, attempts, overlapped, lifecycle>>

RenameDraft(w) ==
    LET v == workers[w].pack
    IN  /\ workers[w].step = "rename" /\ drafts[v] # Nothing
        /\ files' = [files EXCEPT ![v] = drafts[v]]
        /\ drafts' = [drafts EXCEPT ![v] = Nothing]
        /\ StepTo(w, "record")
        /\ UNCHANGED <<name, packs, reports, attempts, overlapped, lifecycle>>

\* The row changes only while it is processing or failed; the report always.
RecordPack(w) ==
    LET v == workers[w].pack
    IN  /\ workers[w].step = "record"
        /\ packs' = IF packs[v].status = "completed" THEN packs
                    ELSE [packs EXCEPT ![v].status = "completed", ![v].digest = workers[w].content]
        /\ reports' = [reports EXCEPT ![v] = workers[w].content]
        /\ workers' = [workers EXCEPT ![w] = Rest]
        /\ UNCHANGED <<name, files, drafts, attempts, overlapped, lifecycle>>

\* An evidence file that is not as recorded, a full disk, a draft that is gone or
\* is another's; or the process stops, and leaves the draft.
FailAttempt(w) ==
    LET v == workers[w].pack
    IN  /\ workers[w].step # "idle"
        /\ drafts' = IF workers[w].step \in {"verify", "rename"}
                     THEN [drafts EXCEPT ![v] = Nothing] ELSE drafts
        /\ packs' = IF packs[v].status = "completed" THEN packs
                    ELSE [packs EXCEPT ![v].status = "failed"]
        /\ workers' = [workers EXCEPT ![w] = Rest]
        /\ UNCHANGED <<name, reports, files, attempts, overlapped, lifecycle>>

Stop ==
    /\ \E w \in Workers : workers[w] # Rest
    /\ workers' = [w \in Workers |-> Rest]
    /\ UNCHANGED <<name, packs, reports, files, drafts, attempts, overlapped, lifecycle>>

-----------------------------------------------------------------------------
(* Transactions. now() is the time of BEGIN; then the advisory lock is waited for. *)

Begin(r, kind, v, by) ==
    /\ requests[r] = NoCall /\ time < MaxTime
    /\ time' = time + 1
    /\ requests' = [requests EXCEPT ![r] =
          [step |-> "begun", kind |-> kind, pack |-> v, at |-> time', by |-> by, seen |-> 0]]
    /\ UNCHANGED <<generation, reviews, issues, shares, records>>

Unlocked(v) == \A r \in Callers : ~(requests[r].step = "read" /\ requests[r].pack = v)
Finish(r) == requests' = [requests EXCEPT ![r] = NoCall]

\* The record with the latest time, by its place in rows; 0 of none.
LatestOf(rows) ==
    IF rows = <<>> THEN 0
    ELSE CHOOSE i \in DOMAIN rows : \A j \in DOMAIN rows : rows[j].at <= rows[i].at

(* Each reads under the lock, and is refused or goes on to write.                  *)
Read(r, kind, admits, seen) ==
    /\ requests[r].step = "begun" /\ requests[r].kind = kind
    /\ Unlocked(requests[r].pack)
    /\ IF admits THEN requests' = [requests EXCEPT ![r].step = "read", ![r].seen = seen]
                 ELSE Finish(r)
    /\ UNCHANGED <<generation, time, reviews, issues, shares, records>>

Writes(r, kind) == requests[r].step = "read" /\ requests[r].kind = kind /\ Finish(r)

readForReview(r) ==
    LET v == requests[r].pack
    IN  Read(r, "review", packs[v].status = "completed" /\ v \notin Issued /\ ~NewerIssued(v), 0)

reviewAuditBundle(r) ==
    /\ Writes(r, "review")
    /\ \E decision \in {"approved", "blocked", "rejected"} :    \* blocked: with a blocking exception open
         reviews' = [reviews EXCEPT ![requests[r].pack] =
            Append(@, [decision |-> decision, by |-> requests[r].by, at |-> requests[r].at])]
    /\ UNCHANGED <<generation, time, issues, shares, records>>

Approves(review, issuer) == review.decision = "approved" /\ review.by # issuer

readForIssue_AnyApproval(r) ==       \* a variant, never taken: some review approves
    LET v == requests[r].pack
    IN  Read(r, "issue",
             /\ packs[v].status = "completed" /\ packs[v].covered
             /\ v \notin Issued /\ ~NewerCompleted(v)
             /\ \E i \in DOMAIN reviews[v] : Approves(reviews[v][i], requests[r].by), 1)

readForIssue(r) ==
    LET v == requests[r].pack  i == LatestOf(reviews[v])
    IN  Read(r, "issue",
             /\ packs[v].status = "completed" /\ packs[v].covered
             /\ v \notin Issued /\ ~NewerCompleted(v)
             /\ i # 0 /\ Approves(reviews[v][i], requests[r].by), i)

issueAuditBundle(r) ==
    /\ Writes(r, "issue")
    /\ issues' = [issues EXCEPT ![requests[r].pack] = requests[r]]
    /\ UNCHANGED <<generation, time, reviews, shares, records>>

readForShare(r) ==
    LET v == requests[r].pack
    IN  Read(r, "share", packs[v].status = "completed" /\ v \in Issued /\ ~NewerIssued(v), 0)

createAuditBundleShare(r) ==
    /\ Writes(r, "share")
    /\ \E s \in Shares : shares[s] = NoLink
                         /\ shares' = [shares EXCEPT ![s].pack = requests[r].pack]
    /\ UNCHANGED <<generation, time, reviews, issues, records>>

readForAssurance(r) ==
    LET v == requests[r].pack
    IN  Read(r, "assurance", packs[v].status = "completed" /\ v \in Issued, LatestOf(records[v]))

\* A record but the first names the one that was the latest; there must be one to withdraw.
createAuditBundleAssuranceRecord(r) ==
    /\ Writes(r, "assurance")
    /\ \E outcome \in {"limited_assurance"} \cup (IF requests[r].seen = 0 THEN {} ELSE {"withdrawn"}) :
         records' = [records EXCEPT ![requests[r].pack] =
            Append(@, [outcome |-> outcome, at |-> requests[r].at, supersedes |-> requests[r].seen])]
    /\ UNCHANGED <<generation, time, reviews, issues, shares>>

-----------------------------------------------------------------------------
(* Links. A download locks the row of its link, reads the file and counts.           *)

\* A variant, never taken: the row of the link is not locked.
Holds_Unlocked(s) == FALSE
Holds(s) == \E r \in Callers : requests[r].kind = "download" /\ requests[r].seen = s

Live(s) ==
    /\ shares[s].pack # 0 /\ ~shares[s].revoked /\ ~shares[s].expired
    /\ shares[s].count < MaxDownloads
    /\ ~NewerIssued(shares[s].pack)

_findPublicAuditBundleShare(r, s) ==
    /\ requests[r] = NoCall /\ Live(s) /\ ~Holds(s)
    /\ requests' = [requests EXCEPT ![r] =
          [NoCall EXCEPT !.step = "serve", !.kind = "download", !.pack = shares[s].pack, !.seen = s]]
    /\ UNCHANGED <<generation, time, reviews, issues, shares, records>>

\* The file is served only as it was issued; a check of the table bounds the count.
downloadPublicAuditBundleShare(r) ==
    LET s == requests[r].seen
    IN  /\ requests[r].step = "serve" /\ Finish(r)
        /\ shares' = IF files[requests[r].pack] = packs[requests[r].pack].digest
                        /\ shares[s].count < MaxDownloads
                     THEN [shares EXCEPT ![s].count = @ + 1] ELSE shares
        /\ UNCHANGED <<generation, time, reviews, issues, records>>

revokeAuditBundleShare(s) ==
    /\ shares[s].pack # 0 /\ ~shares[s].revoked /\ ~Holds(s)
    /\ shares' = [shares EXCEPT ![s].revoked = TRUE]
    /\ UNCHANGED <<generation, time, requests, reviews, issues, records>>

Expire(s) ==
    /\ shares[s].pack # 0 /\ ~shares[s].expired
    /\ shares' = [shares EXCEPT ![s].expired = TRUE]
    /\ UNCHANGED <<generation, time, requests, reviews, issues, records>>

-----------------------------------------------------------------------------
AuditNext ==
    \/ createAuditBundle \/ Rename \/ Stop
    \/ \E w \in Workers :
         \/ \E v \in Versions : StartAttempt(w, v)
         \/ WriteDraft(w) \/ VerifyDraft(w) \/ RenameDraft(w) \/ RecordPack(w) \/ FailAttempt(w)
    \/ \E r \in Callers :
         \/ \E v \in Created :
              \/ \E by \in Users, kind \in {"review", "issue"} : Begin(r, kind, v, by)
              \/ \E kind \in {"share", "assurance"} : Begin(r, kind, v, NoOne)
         \/ readForReview(r) \/ reviewAuditBundle(r)
         \/ readForIssue(r) \/ issueAuditBundle(r)
         \/ readForShare(r) \/ createAuditBundleShare(r)
         \/ readForAssurance(r) \/ createAuditBundleAssuranceRecord(r)
         \/ \E s \in Shares : _findPublicAuditBundleShare(r, s)
         \/ downloadPublicAuditBundleShare(r)
    \/ \E s \in Shares : revokeAuditBundleShare(s) \/ Expire(s)

AuditSpec == AuditInit /\ [][AuditNext]_auditVars

-----------------------------------------------------------------------------
(* A completed pack stays what its digest, and that of its report, say: the file  *)
(* of an attempt that finds it completed is never put in its place. Only attempts  *)
(* that overlapped can do that, when the product was renamed between them         *)
(* (_generateAuditBundle, service.js:1407, renames before it looks at the row).    *)
CompletedFileIsRecorded ==
    \A v \in Versions : packs[v].status = "completed" =>
        \/ files[v] = packs[v].digest /\ reports[v] = packs[v].digest
        \/ v \in overlapped

OutOfOrder(rows) == \E i, j \in DOMAIN rows : i < j /\ rows[j].at < rows[i].at

(* What is issued was approved, by the last review that was recorded and by        *)
(* somebody else ("The latest human review must approve this Audit Pack",          *)
(* service.js:897), and a record of assurance supersedes the one before it             *)
(* (service.js:1080); unless one of those before had to wait for the lock: its time is  *)
(* then earlier than that of the one it follows, which still counts as the latest.    *)
LatestDecides ==
    \A v \in Versions :
       /\ v \in Issued => Approves(Last(reviews[v]), issues[v].by) \/ OutOfOrder(reviews[v])
       /\ \A i \in DOMAIN records[v] :
            records[v][i].supersedes = i - 1 \/ OutOfOrder(SubSeq(records[v], 1, i - 1))

(* No download is counted on a link that is revoked, not even one that found it     *)
(* before (FOR UPDATE OF sl, service.js:1278), nor beyond the link's limit.        *)
ServedWithinTerms ==
    [][\A s \in Shares : shares'[s].count # shares[s].count =>
          ~shares[s].revoked /\ shares[s].count < MaxDownloads]_auditVars
=============================================================================
