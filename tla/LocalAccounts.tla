--------------------------- MODULE LocalAccounts ---------------------------
(***************************************************************************)
(* Password sign-in, reauthentication, password change and logout of one   *)
(* local account: PasswordAuthenticationService, its credential table with *)
(* the attempt counter, BrowserSessionRepository and                       *)
(* LocalAccountAdministrationService::change_password.                     *)
(*                                                                         *)
(* Every request loads the account state and reads the clock, and then     *)
(* works in separate database transactions: begin_attempt counts the       *)
(* attempt and hands out the verifier, record_success clears the counter,  *)
(* and the proof is spent on a session or on a new password.  Hashing a    *)
(* password takes a fresh salt, so a verifier is a password and a salt.    *)
(*                                                                         *)
(* Left out: locking and disabling an account, which nothing persists (no  *)
(* caller of AccountStateRepository::store), password rules, user names,   *)
(* and the expiry of a session, which OidcProvider has.                    *)
(***************************************************************************)
EXTENDS Integers, Sequences

CONSTANTS
    Requests, Passwords, FirstPassword,
    MaximumAttempts, LockoutSeconds,   \* PasswordAttemptPolicy
    MaximumAge,                        \* maximum_authentication_age_seconds
    Times, MaxSessions, MaxChanges     \* clock values; bounds on the tables

\* PasswordAttemptPolicy::new refuses a limit or a lockout of zero; times are seconds
\* since the epoch.
ASSUME AccountsAssumption ==
    /\ MaximumAttempts \in Nat \ {0}
    /\ LockoutSeconds \in Nat \ {0}
    /\ Times \subseteq Nat /\ FirstPassword \in Passwords

VARIABLES
    now,         \* the system clock
    credential,  \* the row of password_credential
    sessions,    \* account_session with its session_credential
    requests,    \* what each request thread is doing
    guesses      \* history: verifiers handed out since the counter was reset

vars == <<now, credential, sessions, requests, guesses>>

NotBlocked == -1
Idle == [stage |-> "idle"]

Init ==
    /\ now \in Times
    /\ credential = [hash |-> <<FirstPassword, 0>>, failedAttempts |-> 0,
                     blockedUntil |-> NotBlocked]
    /\ sessions = <<>>
    /\ requests = [r \in Requests |-> Idle]
    /\ guesses = 0

At(r, stage) == requests[r].stage = stage

Finish(r) == requests' = [requests EXCEPT ![r] = Idle]

NotRevoked == {i \in DOMAIN sessions : ~ sessions[i].revoked}

-----------------------------------------------------------------------------
(***************************************************************************)
(* login, reauthenticate, or a change of the password begins.  loaded is   *)
(* the number of sessions the request's copy of the account state holds,   *)
(* seen the ones not revoked in it; only a change looks at them.           *)
(***************************************************************************)
Load(r, kind, password) ==
    /\ At(r, "idle")
    /\ requests' = [requests EXCEPT ![r] =
            [stage |-> "loaded", kind |-> kind, at |-> now, password |-> password,
             hash |-> credential.hash,
             loaded |-> IF kind = "change" THEN Len(sessions) ELSE 0,
             seen |-> IF kind = "change" THEN NotRevoked ELSE {}]]
    /\ UNCHANGED <<now, credential, sessions, guesses>>

(* Mutant: the attempt that reaches the limit does not block. *)
CountedAttemptLate(attempts, at) ==
    [credential EXCEPT
        !.failedAttempts = attempts,
        !.blockedUntil = IF attempts > MaximumAttempts THEN at + LockoutSeconds
                         ELSE NotBlocked]

CountedAttempt(attempts, at) ==
    [credential EXCEPT
        !.failedAttempts = attempts,
        !.blockedUntil = IF attempts >= MaximumAttempts THEN at + LockoutSeconds
                         ELSE NotBlocked]

(***************************************************************************)
(* begin_attempt.  A throttled request fails; an expired block starts the  *)
(* count again.                                                            *)
(***************************************************************************)
BeginAttempt(r) ==
    LET q == requests[r]
        expired == credential.blockedUntil # NotBlocked
        previous == IF expired THEN 0 ELSE credential.failedAttempts
    IN  /\ At(r, "loaded")
        /\ IF credential.blockedUntil > q.at
           THEN Finish(r) /\ UNCHANGED <<credential, guesses>>
           ELSE /\ credential' = CountedAttempt(previous + 1, q.at)
                /\ guesses' = (IF expired THEN 0 ELSE guesses) + 1
                /\ requests' = [requests EXCEPT ![r].stage = "verifying",
                                                ![r].hash = credential.hash]
        /\ UNCHANGED <<now, sessions>>

AttemptsCleared == [credential EXCEPT !.failedAttempts = 0, !.blockedUntil = NotBlocked]

(***************************************************************************)
(* The password is compared with the verifier that was handed out; when it *)
(* matches, record_success clears the counter.                             *)
(***************************************************************************)
Verify(r) ==
    LET q == requests[r] IN
    /\ At(r, "verifying")
    /\ IF q.password = q.hash[1]
       THEN /\ credential' = AttemptsCleared
            /\ guesses' = 0
            /\ requests' = [requests EXCEPT ![r] =
                               IF q.kind = "reauthenticate" THEN Idle
                               ELSE [q EXCEPT !.stage = "verified"]]
       ELSE Finish(r) /\ UNCHANGED <<credential, guesses>>
    /\ UNCHANGED <<now, sessions>>

-----------------------------------------------------------------------------
(* Mutant: the verifier is not compared again. *)
ProofIsAccepted(q) == TRUE

ProofIsCurrent(q) == q.hash = credential.hash

(***************************************************************************)
(* BrowserSessionRepository::create.                                       *)
(***************************************************************************)
CreateSession(r) ==
    LET q == requests[r] IN
    /\ At(r, "verified") /\ q.kind = "login"
    /\ ProofIsCurrent(q) => Len(sessions) < MaxSessions
    /\ sessions' = IF ProofIsCurrent(q)
                   THEN Append(sessions, [hash |-> q.hash, authenticatedAt |-> q.at,
                                          revoked |-> FALSE, tokenRevoked |-> FALSE])
                   ELSE sessions
    /\ Finish(r)
    /\ UNCHANGED <<now, credential, guesses>>

(* Mutant: sessions of the second in which the password changes are kept. *)
EarlierRevoked(seen) ==
    [i \in DOMAIN sessions |->
        IF i \in seen /\ sessions[i].authenticatedAt < now
        THEN [sessions[i] EXCEPT !.revoked = TRUE, !.tokenRevoked = TRUE]
        ELSE sessions[i]]

Revoked(seen) ==
    [i \in DOMAIN sessions |->
        IF i \in seen THEN [sessions[i] EXCEPT !.revoked = TRUE, !.tokenRevoked = TRUE]
        ELSE sessions[i]]

(***************************************************************************)
(* The proof must not be too old or from the future, no session of the     *)
(* copy may be younger than the change, and every session that the copy    *)
(* shows as live must still be live: otherwise SessionStateMismatch rolls  *)
(* everything back.                                                        *)
(***************************************************************************)
CanChangePassword(q) ==
    /\ q.at <= now
    /\ now - q.at <= MaximumAge
    /\ \A i \in 1 .. q.loaded : sessions[i].authenticatedAt <= now
    /\ q.seen \subseteq NotRevoked

(***************************************************************************)
(* change_password and replace_password_and_revoke_sessions.               *)
(***************************************************************************)
ChangePassword(r, password) ==
    LET q == requests[r] IN
    /\ At(r, "verified") /\ q.kind = "change"
    /\ credential.hash[2] < MaxChanges
    /\ IF CanChangePassword(q)
       THEN /\ credential' = [hash |-> <<password, credential.hash[2] + 1>>,
                              failedAttempts |-> 0, blockedUntil |-> NotBlocked]
            /\ sessions' = Revoked(q.seen)
            /\ guesses' = 0
       ELSE UNCHANGED <<credential, sessions, guesses>>
    /\ Finish(r)
    /\ UNCHANGED now

-----------------------------------------------------------------------------
(***************************************************************************)
(* BrowserSessionRepository::revoke; it takes the later of now and the     *)
(* time of authentication, so the clock cannot make it fail.               *)
(***************************************************************************)
Logout(i) ==
    /\ sessions' = [sessions EXCEPT ![i].revoked = TRUE, ![i].tokenRevoked = TRUE]
    /\ UNCHANGED <<now, credential, requests, guesses>>

(***************************************************************************)
(* A storage error or the end of the process.                              *)
(***************************************************************************)
Abandon(r) ==
    /\ ~ At(r, "idle")
    /\ Finish(r)
    /\ UNCHANGED <<now, credential, sessions, guesses>>

(***************************************************************************)
(* The clock of the system, which may be set back.                         *)
(***************************************************************************)
SetClock(t) ==
    /\ now' = t
    /\ UNCHANGED <<credential, sessions, requests, guesses>>

Next ==
    \/ \E r \in Requests :
          \/ \E kind \in {"login", "reauthenticate", "change"}, p \in Passwords :
                Load(r, kind, p)
          \/ BeginAttempt(r)
          \/ Verify(r)
          \/ CreateSession(r)
          \/ \E p \in Passwords : ChangePassword(r, p)
          \/ Abandon(r)
    \/ \E i \in DOMAIN sessions : Logout(i)
    \/ \E t \in Times : SetClock(t)

Spec == Init /\ [][Next]_vars

-----------------------------------------------------------------------------
(***************************************************************************)
(* A proof made with a password that was replaced in the meantime opens no *)
(* session: create compares the exact verifier in the transaction that     *)
(* publishes the session.                                                  *)
(***************************************************************************)
SessionsOpenUnderTheCurrentPassword ==
    [][Len(sessions') > Len(sessions) =>
          sessions'[Len(sessions')].hash = credential.hash]_vars

(***************************************************************************)
(* However requests interleave and whatever the clock does, no more than   *)
(* MaximumAttempts verifiers are handed out between two events that start  *)
(* the count again: begin_attempt counts before the password is checked.   *)
(***************************************************************************)
GuessesAreBounded == guesses <= MaximumAttempts

(***************************************************************************)
(* A password change ends every session that was open when the request     *)
(* that changes the password loaded the account state, or changes nothing: *)
(* the survivors are younger than that copy.                               *)
(***************************************************************************)
ChangeEndsEarlierSessions ==
    [][credential'.hash # credential.hash =>
          \E r \in Requests :
             /\ At(r, "verified") /\ requests'[r] = Idle
             /\ NotRevoked' \cap (1 .. requests[r].loaded) = {}]_vars

(***************************************************************************)
(* What account-and-oidc.md says of a password change: it revokes every    *)
(* live session.  So no live session was opened with an old verifier.      *)
(***************************************************************************)
LiveSessionsKnowThePassword ==
    \A i \in NotRevoked : sessions[i].hash = credential.hash
=============================================================================
