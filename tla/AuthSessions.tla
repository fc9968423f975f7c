----------------------------- MODULE AuthSessions -----------------------------
(***************************************************************************)
(* The sessions of a user and the second factor that guards them. The factor is   *)
(* a list of revisions, each written in a transaction under the user's advisory    *)
(* lock, which makes it one step here; a sign-in reads that list and consumes a    *)
(* recovery code outside any lock. Refresh tokens are rotated under a row lock,     *)
(* and a token that was revoked a moment ago may be rotated once more. Passwords    *)
(* are right (a wrong one changes nothing); a factor has one recovery code.          *)
(***************************************************************************)
EXTENDS Naturals, Sequences, SequencesExt, FiniteSetsExt

CONSTANTS
    Clients,          \* what may be under way at once
    Tokens,           \* bound: 1..n, the refresh tokens of a behaviour
    MaxRevisions      \* bound: the revisions of the factor

ASSUME TokensAssumption == Tokens \subseteq Nat
ASSUME RevisionsAssumption == MaxRevisions \in Nat

VARIABLES
    factors,     \* user_mfa_factor_revisions; secret: the revision that drew it
    used,        \* the revisions whose recovery code is consumed
    admitted,    \* admitted[v]: how often the recovery code of v was taken for valid
    tokens,      \* tokens[t]: its row of refresh_tokens, and its mfa_verified claim
    clients      \* clients[c]: the statement that is next and what it has read

sessionVars == <<factors, used, admitted, tokens, clients>>

Nobody == [step |-> "idle", code |-> <<"none", 0>>, factor |-> 0, token |-> 0, verified |-> FALSE, seen |-> {}]
NoRow == [state |-> "none", verified |-> FALSE]

SessionsInit ==
    /\ factors = <<>> /\ used = {} /\ admitted = [v \in 1..MaxRevisions |-> 0]
    /\ tokens = [t \in Tokens |-> NoRow]
    /\ clients = [c \in Clients |-> Nobody]

-----------------------------------------------------------------------------
(* The factor. A code is a time code of a secret or the recovery code of a revision. *)

Codes == {<<"none", 0>>} \cup ({"totp", "recovery"} \X DOMAIN factors)

EnabledBefore(v) == {i \in DOMAIN factors : factors[i].status = "enabled" /\ i < v}

\* The revision that is challenged; 0 when there is none. While another enrolment is
\* pending it is the last enabled one.
active ==
    LET v == Len(factors)
    IN  IF v = 0 \/ factors[v].status = "disabled" THEN 0
        ELSE IF factors[v].status = "enabled" THEN v
        ELSE IF EnabledBefore(v) = {} THEN 0 ELSE Max(EnabledBefore(v))

IsTimeCode(code, v) == code[1] = "totp" /\ code[2] = factors[v].secret
IsRecoveryCode(code, v) == code = <<"recovery", v>>

\* verifyChallenge inside a transaction: refused, or passed with what it consumes.
Passes(code) ==
    /\ active # 0
    /\ \/ IsTimeCode(code, active)
       \/ IsRecoveryCode(code, active) /\ active \notin used
Consume(code) ==
    IF code[1] = "recovery"
    THEN used' = used \cup {code[2]} /\ admitted' = [admitted EXCEPT ![code[2]] = @ + 1]
    ELSE UNCHANGED <<used, admitted>>

Revise(status, secret) ==
    /\ Len(factors) < MaxRevisions
    /\ factors' = Append(factors, [status |-> status, secret |-> secret])
    /\ UNCHANGED <<tokens, clients>>

beginEnrollment ==
    /\ Revise("pending", Len(factors) + 1)
    /\ IF active = 0 THEN UNCHANGED <<used, admitted>>
       ELSE \E code \in Codes : Passes(code) /\ Consume(code)

confirmEnrollment ==        \* with a time code of the pending secret
    /\ factors # <<>> /\ Last(factors).status = "pending"
    /\ Revise("enabled", Last(factors).secret)
    /\ UNCHANGED <<used, admitted>>

disable ==
    /\ Revise("disabled", 0)
    /\ \E code \in Codes : Passes(code) /\ Consume(code)

-----------------------------------------------------------------------------
(* Signing in.                                                               *)

Proceed(c, state) == clients' = [clients EXCEPT ![c] = state]
End(c) == Proceed(c, Nobody)

getChallengeState(c) ==
    /\ clients[c] = Nobody
    /\ IF active = 0 THEN Proceed(c, [Nobody EXCEPT !.step = "store"])
       ELSE \E code \in Codes : Proceed(c, [Nobody EXCEPT !.step = "challenge", !.code = code])
    /\ UNCHANGED <<factors, used, admitted, tokens>>

verifyChallenge(c) ==
    LET code == clients[c].code
    IN  /\ clients[c].step = "challenge"
        /\ IF active # 0 /\ IsTimeCode(code, active)
           THEN Proceed(c, [clients[c] EXCEPT !.step = "store", !.verified = TRUE])
           ELSE IF active # 0 /\ IsRecoveryCode(code, active)
           THEN Proceed(c, [clients[c] EXCEPT !.step = "consume", !.factor = active])
           ELSE End(c)
        /\ UNCHANGED <<factors, used, admitted, tokens>>

Admit(c, first) ==
    LET v == clients[c].factor
    IN  /\ clients[c].step = "consume"
        /\ used' = used \cup {v}
        /\ IF first => v \notin used
           THEN /\ admitted' = [admitted EXCEPT ![v] = @ + 1]
                /\ Proceed(c, [clients[c] EXCEPT !.step = "store", !.verified = TRUE])
           ELSE End(c) /\ UNCHANGED admitted
        /\ UNCHANGED <<factors, tokens>>

ConsumeCode_Any(c) == Admit(c, FALSE)   \* a variant, never taken: a row that was there passes
ConsumeCode(c) == Admit(c, TRUE)

Stored == {t \in Tokens : tokens[t].state # "none"}
TokenRow(verified) == [state |-> "live", verified |-> verified]
NextToken == Cardinality(Stored) + 1        \* the next token

signIn(c) ==
    /\ clients[c].step = "store" /\ NextToken \in Tokens
    /\ tokens' = [tokens EXCEPT ![NextToken] = TokenRow(clients[c].verified)]
    /\ End(c) /\ UNCHANGED <<factors, used, admitted>>

-----------------------------------------------------------------------------
(* Refreshing and signing out. A token is "revoked" for rotationGraceSeconds, then   *)
(* "over"; the claim verified is copied from token to token.                         *)

TokenLocked(t) == \E c \in Clients : clients[c].step = "insert" /\ clients[c].token = t
Revoked(row) == IF row.state = "live" THEN [row EXCEPT !.state = "revoked"] ELSE row
GraceEnds(t) ==
    /\ tokens[t].state = "revoked"
    /\ tokens' = [tokens EXCEPT ![t].state = "over"]
    /\ UNCHANGED <<factors, used, admitted, clients>>

\* A token whose sign-in passed no challenge is revoked once there is a factor.
issueRefreshSession(c, t) ==
    /\ clients[c] = Nobody /\ t \in Stored
    /\ IF active # 0 /\ ~tokens[t].verified
       THEN ~TokenLocked(t) /\ tokens' = [tokens EXCEPT ![t] = Revoked(@)] /\ UNCHANGED clients
       ELSE Proceed(c, [Nobody EXCEPT !.step = "rotate", !.token = t]) /\ UNCHANGED tokens
    /\ UNCHANGED <<factors, used, admitted>>

findRotatableByHash(c) ==
    /\ clients[c].step = "rotate" /\ ~TokenLocked(clients[c].token)
    /\ IF tokens[clients[c].token].state \in {"live", "revoked"}
       THEN Proceed(c, [clients[c] EXCEPT !.step = "insert"]) ELSE End(c)
    /\ UNCHANGED <<factors, used, admitted, tokens>>

rotate(c) ==
    /\ clients[c].step = "insert" /\ NextToken \in Tokens
    /\ tokens' = [tokens EXCEPT ![clients[c].token] = Revoked(@),
                                ![NextToken] = TokenRow(tokens[clients[c].token].verified)]
    /\ End(c) /\ UNCHANGED <<factors, used, admitted>>

revoke(t) ==
    /\ tokens[t].state = "live" /\ ~TokenLocked(t)
    /\ tokens' = [tokens EXCEPT ![t] = Revoked(@)]
    /\ UNCHANGED <<factors, used, admitted, clients>>

\* signOut of all devices is one UPDATE: it finds the rows that are live, waits for
\* those that are locked, and revokes them as they are then.
revokeAllForUser(c) ==
    /\ clients[c] = Nobody
    /\ Proceed(c, [Nobody EXCEPT !.step = "revoke", !.seen = {t \in Tokens : tokens[t].state = "live"}])
    /\ UNCHANGED <<factors, used, admitted, tokens>>

RevokeSeen(c, skips) ==
    LET seen == clients[c].seen
    IN  /\ clients[c].step = "revoke"
        /\ skips \/ \A t \in seen : ~TokenLocked(t)
        /\ tokens' = [t \in Tokens |->
              IF t \in seen /\ ~TokenLocked(t) THEN Revoked(tokens[t]) ELSE tokens[t]]
        /\ End(c) /\ UNCHANGED <<factors, used, admitted>>

signOut_SkipLocked(c) == RevokeSeen(c, TRUE)    \* a variant, never taken
signOut(c) == RevokeSeen(c, FALSE)

SessionsNext ==
    \/ beginEnrollment \/ confirmEnrollment \/ disable
    \/ \E c \in Clients :
         \/ getChallengeState(c) \/ verifyChallenge(c) \/ ConsumeCode(c) \/ signIn(c)
         \/ \E t \in Tokens : issueRefreshSession(c, t)
         \/ findRotatableByHash(c) \/ rotate(c) \/ revokeAllForUser(c) \/ signOut(c)
    \/ \E t \in Tokens : GraceEnds(t) \/ revoke(t)

SessionsSpec == SessionsInit /\ [][SessionsNext]_sessionVars

-----------------------------------------------------------------------------
(* A recovery code is good for one admission, whether sign-ins present it at once,   *)
(* or a sign-in while the factor is rotated or disabled with it                      *)
(* (mfaService.js:122, the insert that does nothing on a conflict).                  *)
RecoveryCodeOnce == \A v \in DOMAIN admitted : admitted[v] <= 1

(* When signing out of all devices answers, the sessions still live are those that     *)
(* began meanwhile: signed in, or rotated from one that was being refreshed            *)
(* (authSessionService.js:238 answers "all").                                         *)
SignOutEndsAll ==
    [][\A c \in Clients : clients[c].step = "revoke" /\ clients'[c].step = "idle" =>
          \A t \in clients[c].seen : tokens'[t].state # "live"]_sessionVars
=============================================================================
