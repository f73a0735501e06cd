---------------------------- MODULE AccountStore ----------------------------
(***************************************************************************)
(* The local accounts and their browser sessions as they are stored        *)
(* (persistence-sqlite: identity_schema.rs, account_repository.rs,         *)
(* browser_session_repository.rs, session_credential_repository.rs,        *)
(* local_account_administration_repository.rs), the records they are read  *)
(* into (core/src/accounts) and the requests that read them                *)
(* (platform-api/src/local_session.rs).                                    *)
(*                                                                         *)
(* Every request reads ALL accounts and ALL sessions, in two queries that  *)
(* are no transaction, and builds one AccountState of them; a row that no  *)
(* record can be made of would turn every request away.  Sessions are      *)
(* never deleted.  The clock may be set back.                              *)
(*                                                                         *)
(* LocalAccounts has the steps of a sign-in and of a password change, with *)
(* throttling; here each of them is one step, for several accounts, and a  *)
(* password is a text with the properties the rules ask about.             *)
(***************************************************************************)
EXTENDS Integers, FiniteSets

CONSTANTS
    NewAccounts,       \* user name, display name and password as someone types them
    Canonical,         \* the user name AccountUsername::parse makes of a text
    TypedPasswords,    \* passwords as someone types them
    Provisioners, Readers,
    SessionSeconds, MaximumProofAge,
    Clock,             \* the readings of the system clock
    MaxAccounts, MaxSessionRows, MaxPasswordChanges,
    Unrevoked

ASSUME AccountBounds ==
    /\ SessionSeconds \in Nat \ {0} /\ MaximumProofAge \in Nat \ {0}
    /\ Clock \subseteq Nat /\ {MaxAccounts, MaxSessionRows, MaxPasswordChanges} \subseteq Nat
    /\ Unrevoked \notin Nat

VARIABLES
    accountRows,     \* local_account
    passwordRows,    \* password_credential: user, hash and a count of changes
    sessionRows,     \* account_session
    tokenRows,       \* session_credential
    wallTime,        \* the system clock
    provisioner,     \* provisioning threads
    reader,          \* requests
    askedOut         \* history: tokens whose sign-out was asked for

accountVars ==
    <<accountRows, passwordRows, sessionRows, tokenRows, wallTime, provisioner, reader, askedOut>>

-----------------------------------------------------------------------------
(***************************************************************************)
(* Passwords: normalized, then held against the policy, then hashed with a *)
(* salt.  PasswordHashRecord::parse accepts what the engine writes.        *)
(***************************************************************************)
Normalized(p) == [p EXCEPT !.form = "nfc"]

PasswordPrepares(p) == p.n \leq 1024 /\ ~p.control

PolicyAdmits(p) == p.n \in 15 .. 1024 /\ ~p.blocked

EngineHash(p) == [algorithm |-> "argon2id", version |-> 19, strong |-> TRUE, of |-> Normalized(p)]

HashParses(h) == h.algorithm = "argon2id" /\ h.version = 19 /\ h.strong

HashVerifies(h, p) == h.of = Normalized(p)

\* prepare_credential.
CredentialOf(p) ==
    {h \in {EngineHash(p)} : PasswordPrepares(p) /\ PolicyAdmits(p) /\ HashParses(h)}

-----------------------------------------------------------------------------
(***************************************************************************)
(* Records.  restore reads a stored row and builds a new one.              *)
(***************************************************************************)
DisplayNameFits(d) == d.trimmed \in 1 .. 128 /\ ~d.control

AccountStatuses == {"active", "locked", "disabled"}

AccountRestores(a) == a.status \in AccountStatuses /\ DisplayNameFits(a.display)

CanAuthenticate(a) == a.status = "active"

SessionRestores(s) ==
    /\ s.expiresAt > s.authenticatedAt
    /\ s.lastSeenAt >= s.authenticatedAt /\ s.lastSeenAt < s.expiresAt
    /\ s.reauthenticatedAt >= s.authenticatedAt /\ s.reauthenticatedAt \leq s.lastSeenAt
    /\ s.revokedAt # Unrevoked => s.revokedAt >= s.authenticatedAt

ActiveAt(s, t) == s.revokedAt = Unrevoked /\ t >= s.authenticatedAt /\ t < s.expiresAt

AccountNamesDiffer(accounts) ==
    \A a, b \in accounts : (a.user = b.user \/ a.name = b.name) => a = b

SessionsDiffer(sessions) == \A s, t \in sessions : s.session = t.session => s = t

\* AccountState::restore of the rows of the two queries.
StateRestores(accounts, sessions) ==
    /\ \A a \in accounts : AccountRestores(a)
    /\ AccountNamesDiffer(accounts) /\ SessionsDiffer(sessions)
    /\ \A s \in sessions :
         /\ SessionRestores(s)
         /\ \E a \in accounts :
              a.user = s.user /\ (CanAuthenticate(a) \/ s.revokedAt # Unrevoked)

-----------------------------------------------------------------------------
(***************************************************************************)
(* The constraints of the tables.                                          *)
(***************************************************************************)
AccountRowFits(a) == \A b \in accountRows : b.user # a.user /\ b.name # a.name

SessionRowFits(s) ==
    /\ \E a \in accountRows : a.user = s.user
    /\ s.lastSeenAt >= s.authenticatedAt /\ s.expiresAt > s.authenticatedAt
    /\ s.lastSeenAt < s.expiresAt
    /\ s.reauthenticatedAt \in s.authenticatedAt .. s.lastSeenAt
    /\ s.revokedAt # Unrevoked => s.revokedAt >= s.authenticatedAt

TokenRowFits(k) == k.revokedAt # Unrevoked => k.revokedAt >= k.issuedAt

AccountsInit ==
    /\ accountRows = {} /\ passwordRows = {} /\ sessionRows = {} /\ tokenRows = {}
    /\ wallTime = CHOOSE t \in Clock : \A u \in Clock : t \leq u
    /\ provisioner = [p \in Provisioners |-> [stage |-> "idle"]]
    /\ reader = [r \in Readers |-> [stage |-> "idle"]]
    /\ askedOut = {}

-----------------------------------------------------------------------------
(***************************************************************************)
(* AccountState: what may be added to the accounts that were read.         *)
(***************************************************************************)
\* create_account: the canonical name must be free, the display name is trimmed.
CreatedAccount(accounts, name, display) ==
    {[name |-> n, display |-> [display EXCEPT !.padded = FALSE]] :
        n \in {Canonical[m] : m \in IF DisplayNameFits(display) THEN {name} ELSE {}}
               \ {a.name : a \in accounts}}

(***************************************************************************)
(* provision: the state is read, a copy takes the account, the repository  *)
(* writes it.  A name that is taken meanwhile fails on the constraint.     *)
(***************************************************************************)
ProvisionReads(p, new) ==
    /\ provisioner[p].stage = "idle" /\ Cardinality(accountRows) < MaxAccounts
    /\ StateRestores(accountRows, sessionRows)
    /\ \E h \in CredentialOf(new.password),
          a \in CreatedAccount(accountRows, new.name, new.display) :
         provisioner' = [provisioner EXCEPT ![p] =
             [stage |-> "staged", hash |-> h, name |-> a.name, display |-> a.display]]
    /\ UNCHANGED <<accountRows, passwordRows, sessionRows, tokenRows, wallTime, reader, askedOut>>

ProvisionWrites(p) ==
    LET a == [user |-> Cardinality(accountRows) + 1, name |-> provisioner[p].name,
              display |-> provisioner[p].display, status |-> "active"]
    IN /\ provisioner[p].stage = "staged"
       /\ provisioner' = [provisioner EXCEPT ![p] = [stage |-> "done"]]
       /\ IF AccountRowFits(a)
          THEN /\ accountRows' = accountRows \cup {a}
               /\ passwordRows' = passwordRows \cup
                    {[user |-> a.user, hash |-> provisioner[p].hash, changes |-> 0]}
          ELSE UNCHANGED <<accountRows, passwordRows>>
       /\ UNCHANGED <<sessionRows, tokenRows, wallTime, reader, askedOut>>

-----------------------------------------------------------------------------
(***************************************************************************)
(* Sign-in, sign-out and a change of the password.                         *)
(***************************************************************************)
\* issue_session and BrowserSessionRepository::create.
NewSession(user, n) ==
    [session |-> n, user |-> user, authenticatedAt |-> wallTime, lastSeenAt |-> wallTime,
     reauthenticatedAt |-> wallTime, expiresAt |-> wallTime + SessionSeconds,
     revokedAt |-> Unrevoked]

\* start_session, of an account that can authenticate.
StartSession(a, n) == {s \in {NewSession(a.user, n)} : CanAuthenticate(a)}

SignIn(name, password) ==
    /\ Cardinality(sessionRows) < MaxSessionRows
    /\ StateRestores(accountRows, sessionRows)
    /\ PasswordPrepares(password)
    /\ \E a \in accountRows, row \in passwordRows :
       \E s \in StartSession(a, Cardinality(sessionRows) + 1) :
         /\ a.name = Canonical[name]
         /\ row.user = a.user /\ HashVerifies(row.hash, password)
         /\ SessionRowFits(s)
         /\ sessionRows' = sessionRows \cup {s}
         /\ tokenRows' = tokenRows \cup
              {[token |-> s.session, session |-> s.session, issuedAt |-> wallTime,
                revokedAt |-> Unrevoked]}
    /\ UNCHANGED <<accountRows, passwordRows, wallTime, provisioner, reader, askedOut>>

\* revoked_at = MAX(now, since): a clock that was set back ends the session too.
RevokedFrom(row, since) ==
    [row EXCEPT !.revokedAt = IF wallTime < since THEN since ELSE wallTime]

RevokedSessions(session) ==
    {IF s.session = session /\ s.revokedAt = Unrevoked THEN RevokedFrom(s, s.authenticatedAt)
                                                       ELSE s : s \in sessionRows}

RevokedTokens(session) ==
    {IF k.session = session /\ k.revokedAt = Unrevoked THEN RevokedFrom(k, k.issuedAt)
                                                       ELSE k : k \in tokenRows}

\* An update that breaks a constraint fails, and the transaction with it.
SignOutBrowser(token) ==
    /\ \E k \in tokenRows :
         LET sessions == RevokedSessions(k.session)
             tokens == RevokedTokens(k.session)
         IN /\ k.token = token /\ token \notin askedOut
            /\ IF (\A s \in sessions : SessionRowFits(s)) /\ (\A t \in tokens : TokenRowFits(t))
               THEN sessionRows' = sessions /\ tokenRows' = tokens
               ELSE UNCHANGED <<sessionRows, tokenRows>>
    /\ askedOut' = askedOut \cup {token}
    /\ UNCHANGED <<accountRows, passwordRows, wallTime, provisioner, reader>>

\* AccountSession::revoke, of every session of the user, revoked ones too.
SessionRevocable(s) == s.authenticatedAt \leq wallTime

\* revoke_sessions_for_user: the sessions it ends, when all of them can be.
RevokedForUser(user) ==
    LET own == {s \in sessionRows : s.user = user}
    IN  {e \in {{s \in own : s.revokedAt = Unrevoked}} : \A s \in own : SessionRevocable(s)}

\* A proof of at most MaximumProofAge; the hash replaced and the sessions ended together.
PasswordChanges(name, old, new, provedAt) ==
    /\ provedAt \leq wallTime /\ wallTime - provedAt \leq MaximumProofAge
    /\ StateRestores(accountRows, sessionRows)
    /\ \E a \in accountRows, row \in passwordRows, h \in CredentialOf(new) :
       \E ended \in RevokedForUser(a.user) :
         LET numbers == {s.session : s \in ended}
         IN /\ a.name = Canonical[name] /\ CanAuthenticate(a)
            /\ row.user = a.user /\ HashVerifies(row.hash, old)
            /\ \A other \in passwordRows : other.changes < MaxPasswordChanges
            /\ passwordRows' = (passwordRows \ {row}) \cup {[user |-> a.user, hash |-> h, changes |-> row.changes + 1]}
            /\ sessionRows' = (sessionRows \ ended) \cup
                 {[s EXCEPT !.revokedAt = wallTime] : s \in ended}
            /\ tokenRows' = {IF k.session \in numbers /\ k.revokedAt = Unrevoked
                             THEN [k EXCEPT !.revokedAt = wallTime] ELSE k : k \in tokenRows}
    /\ UNCHANGED <<accountRows, wallTime, provisioner, reader, askedOut>>

-----------------------------------------------------------------------------
(***************************************************************************)
(* LocalSessionAuthenticator::authenticate: the token's session, the       *)
(* accounts, the sessions, the clock, each read when its turn comes.       *)
(***************************************************************************)
ResolveSession(r, token) ==
    /\ reader[r].stage = "idle"
    /\ \E k \in tokenRows :
         /\ k.token = token /\ k.revokedAt = Unrevoked
         /\ reader' = [reader EXCEPT ![r] =
                [stage |-> "accounts", token |-> token, session |-> k.session,
                 known |-> {}, after |-> token \in askedOut]]
    /\ UNCHANGED <<accountRows, passwordRows, sessionRows, tokenRows, wallTime, provisioner, askedOut>>

LoadAccounts(r) ==
    /\ reader[r].stage = "accounts"
    /\ reader' = [reader EXCEPT ![r].stage = "sessions", ![r].known = accountRows]
    /\ UNCHANGED <<accountRows, passwordRows, sessionRows, tokenRows, wallTime, provisioner, askedOut>>

AdmittedAs(session, accounts, sessions, now) ==
    {a.user : a \in {b \in accounts : CanAuthenticate(b) /\
        \E s \in sessions : s.session = session /\ s.user = b.user /\ ActiveAt(s, now)}}

LoadSessions(r) ==
    LET now == wallTime
        owners == AdmittedAs(reader[r].session, reader[r].known, sessionRows, now)
        verdict == IF ~StateRestores(reader[r].known, sessionRows) THEN "unavailable"
                   ELSE IF owners = {} THEN "invalid" ELSE "admitted"
    IN /\ reader[r].stage = "sessions"
       /\ reader' = [reader EXCEPT ![r] =
              [stage |-> verdict, session |-> reader[r].session, after |-> reader[r].after,
               users |-> owners, at |-> now,
               grown |-> accountRows # reader[r].known]]
       /\ UNCHANGED <<accountRows, passwordRows, sessionRows, tokenRows, wallTime, provisioner, askedOut>>

\* The clock goes on, or is set back.
SetClock(t) ==
    /\ wallTime # t /\ wallTime' = t
    /\ UNCHANGED <<accountRows, passwordRows, sessionRows, tokenRows, provisioner, reader, askedOut>>

AccountsNext ==
    \/ \E p \in Provisioners : \/ \E new \in NewAccounts : ProvisionReads(p, new)
                               \/ ProvisionWrites(p)
    \/ \E new \in NewAccounts, w \in TypedPasswords : SignIn(new.name, w)
    \/ \E token \in 1 .. MaxSessionRows : SignOutBrowser(token)
    \/ \E new \in NewAccounts, old \in TypedPasswords, t \in Clock :
         \E w \in TypedPasswords \ {old} : PasswordChanges(new.name, old, w, t)
    \/ \E r \in Readers : \/ \E token \in 1 .. MaxSessionRows : ResolveSession(r, token)
                          \/ LoadAccounts(r) \/ LoadSessions(r)
    \/ \E t \in Clock : SetClock(t)

AccountsSpec == AccountsInit /\ [][AccountsNext]_accountVars

-----------------------------------------------------------------------------
(* What provisioning, sign-in, sign-out and password changes committed can *)
(* always be read back: AccountState::restore accepts the stored accounts  *)
(* and sessions, whoever provisioned the same name at once and wherever    *)
(* the clock went (otherwise every request of every user is refused).  A   *)
(* single request can still be refused, when an account was provisioned    *)
(* and signed in between its two queries, and only then.                   *)
StoredAccountsLoad ==
    /\ StateRestores(accountRows, sessionRows)
    /\ \A r \in Readers : reader[r].stage = "unavailable" => reader[r].grown

(* A request that begins after the sign-out of its token was asked for is  *)
(* never admitted, also when the clock had been set back before the        *)
(* sign-in at that moment; an admitted request is admitted as one user,    *)
(* the session's own, while the session lasts.                             *)
SignOutIsFinal ==
    \A r \in Readers : reader[r].stage = "admitted" =>
        /\ ~reader[r].after
        /\ \E s \in sessionRows :
             /\ s.session = reader[r].session /\ reader[r].users = {s.user}
             /\ reader[r].at < s.expiresAt
=============================================================================
