---------------------------- MODULE OidcProvider ----------------------------
(***************************************************************************)
(* The authorization code flow of the OpenID provider: begin, approve and  *)
(* exchange_code of protocol.rs over the SQLite stores, with logout, token *)
(* revocation and the revocation of a whole client when its app is removed *)
(* (revoke_for_installation).                                              *)
(*                                                                         *)
(* A request reads the clock once and then works in several database       *)
(* transactions; other requests, a logout or an uninstall may come between *)
(* any two of them, and it may stop after any of them.  steps holds what   *)
(* a request still has to do.                                              *)
(*                                                                         *)
(* Left out: scopes, redirect URIs, PKCE and client secrets, which refuse  *)
(* a request before it changes anything; userinfo, which only reads; and   *)
(* refresh-token families, which no request creates.  The rows a request   *)
(* names are the ones that exist; row numbers stand for digests.           *)
(***************************************************************************)
EXTENDS Naturals, Sequences

CONSTANTS
    Clients, Sessions, Users, Requests,
    UserOf,                \* the user of each session
    SessionEnds,           \* when a session expires
    EarlierGrants,         \* users and clients with a subject and a consent from before
    TransactionLifetime,   \* TRANSACTION_LIFETIME_SECONDS
    CodeLifetime,          \* CODE_LIFETIME_SECONDS
    TokenLifetime,         \* TOKEN_LIFETIME_SECONDS
    MaxTime,               \* bounds on the clock and on the tables
    MaxTransactions, MaxCodes, MaxTokens

ASSUME ConstantsAssumption ==
    /\ UserOf \in [Sessions -> Users]
    /\ SessionEnds \in [Sessions -> Nat]
    /\ EarlierGrants \subseteq Users \X Clients
    /\ TransactionLifetime \in Nat /\ CodeLifetime \in Nat /\ TokenLifetime \in Nat
    /\ MaxTime \in Nat

VARIABLES
    now,            \* the system clock
    loggedOut,      \* sessions whose account_session row is revoked
    activeClients,  \* clients whose oidc_client row is not revoked
    transactions,   \* oidc_authorization_transaction, in order of insertion
    codes,          \* oidc_authorization_code
    tokens,         \* oidc_access_token
    subjects,       \* oidc_pairwise_subject
    consents,       \* the rows of oidc_consent that are not revoked
    requests        \* what each request thread is doing

tables == <<transactions, codes, tokens, subjects, consents>>
vars == <<now, loggedOut, activeClients, tables, requests>>

Grants == Users \X Clients

(***************************************************************************)
(* The rows of the tables.  late is history: whether the session was       *)
(* already logged out when the request consumed its code.                  *)
(***************************************************************************)
TransactionRow ==
    [client : Clients, session : Sessions, expiresAt : Nat,
     consumed : BOOLEAN, revoked : BOOLEAN]

CodeRow ==
    [transaction : Nat, client : Clients, session : Sessions, expiresAt : Nat,
     consumed : BOOLEAN, revoked : BOOLEAN]

TokenRow ==
    [code : Nat, client : Clients, session : Sessions, expiresAt : Nat,
     late : BOOLEAN, revoked : BOOLEAN]

(***************************************************************************)
(* A request: the steps it has still to take, its reading of the clock,    *)
(* and what it was given; an exchange learns its session from the code.    *)
(***************************************************************************)
Idle == [steps |-> <<>>]

Request ==
    [steps : Seq({"session", "client", "insert", "approve", "consume", "issue"}) \ {<<>>},
     at : 0 .. MaxTime, client : Clients, session : Sessions,
     row : Nat, late : BOOLEAN]

TypeOK ==
    /\ now \in 0 .. MaxTime
    /\ loggedOut \subseteq Sessions
    /\ activeClients \subseteq Clients
    /\ transactions \in Seq(TransactionRow)
    /\ codes \in Seq(CodeRow)
    /\ tokens \in Seq(TokenRow)
    /\ subjects \subseteq Grants
    /\ consents \subseteq Grants
    /\ requests \in [Requests -> Request \cup {Idle}]

Init ==
    /\ now = 0
    /\ loggedOut = {}
    /\ activeClients = Clients
    /\ transactions = <<>> /\ codes = <<>> /\ tokens = <<>>
    /\ subjects = EarlierGrants /\ consents = EarlierGrants
    /\ requests = [r \in Requests |-> Idle]

-----------------------------------------------------------------------------
(***************************************************************************)
(* Requests.  A step that finds its condition unmet ends the request with  *)
(* an error and changes nothing.                                           *)
(***************************************************************************)
Start(r, steps, c, s, row) ==
    /\ requests[r] = Idle
    /\ requests' = [requests EXCEPT ![r] =
                       [steps |-> steps, at |-> now, client |-> c, session |-> s,
                        row |-> row, late |-> FALSE]]
    /\ UNCHANGED <<now, loggedOut, activeClients, tables>>

Doing(r, step) == requests[r].steps # <<>> /\ Head(requests[r].steps) = step

Advance(r) == requests' = [requests EXCEPT ![r].steps = Tail(@)]

Finish(r) == requests' = [requests EXCEPT ![r] = Idle]

Begin(r, c, s) == Start(r, <<"session", "client", "insert">>, c, s, 0)

Approve(r, t, c, s) == Start(r, <<"session", "client", "approve">>, c, s, t)

(* Mutant: the session is not looked at again. *)
ExchangeCodeUnchecked(r, k, c) ==
    Start(r, <<"client", "consume", "issue">>, c, codes[k].session, k)

ExchangeCode(r, k, c) ==
    Start(r, <<"client", "consume", "session", "issue">>, c, codes[k].session, k)

RequireLiveSession(r) ==
    LET q == requests[r] IN
    /\ Doing(r, "session")
    /\ IF q.session \notin loggedOut /\ q.at < SessionEnds[q.session]
       THEN Advance(r)
       ELSE Finish(r)
    /\ UNCHANGED <<now, loggedOut, activeClients, tables>>

ActiveClient(r) ==
    /\ Doing(r, "client")
    /\ IF requests[r].client \in activeClients THEN Advance(r) ELSE Finish(r)
    /\ UNCHANGED <<now, loggedOut, activeClients, tables>>

(* Mutant: the client is not looked at again when the row is inserted. *)
InsertTransactionUnchecked(r) ==
    LET q == requests[r] IN
    /\ Doing(r, "insert")
    /\ Len(transactions) < MaxTransactions
    /\ transactions' = Append(transactions,
            [client |-> q.client, session |-> q.session,
             expiresAt |-> q.at + TransactionLifetime,
             consumed |-> FALSE, revoked |-> FALSE])
    /\ Finish(r)
    /\ UNCHANGED <<now, loggedOut, activeClients, codes, tokens, subjects, consents>>

InsertTransaction(r) ==
    LET q == requests[r] IN
    /\ Doing(r, "insert")
    /\ q.client \in activeClients => Len(transactions) < MaxTransactions
    /\ transactions' =
            IF q.client \in activeClients
            THEN Append(transactions,
                    [client |-> q.client, session |-> q.session,
                     expiresAt |-> q.at + TransactionLifetime,
                     consumed |-> FALSE, revoked |-> FALSE])
            ELSE transactions
    /\ Finish(r)
    /\ UNCHANGED <<now, loggedOut, activeClients, codes, tokens, subjects, consents>>

(***************************************************************************)
(* approve_transaction: one immediate transaction that makes the pairwise  *)
(* subject if there is none, grants the consent, issues the code and       *)
(* consumes the authorization transaction.                                 *)
(***************************************************************************)
IssueCode(r) ==
    LET q == requests[r]
        grant == <<UserOf[q.session], q.client>>
    IN  /\ codes' = Append(codes,
               [transaction |-> q.row, client |-> q.client, session |-> q.session,
                expiresAt |-> q.at + CodeLifetime,
                consumed |-> FALSE, revoked |-> FALSE])
        /\ transactions' = [transactions EXCEPT ![q.row].consumed = TRUE]
        /\ subjects' = subjects \cup {grant}
        /\ consents' = consents \cup {grant}

CanApprove(q) ==
    LET t == transactions[q.row] IN
    /\ q.client \in activeClients
    /\ ~ t.consumed /\ ~ t.revoked
    /\ t.client = q.client /\ t.session = q.session
    /\ q.at < t.expiresAt

ApproveTransaction(r) ==
    /\ Doing(r, "approve")
    /\ IF CanApprove(requests[r])
       THEN Len(codes) < MaxCodes /\ IssueCode(r)
       ELSE UNCHANGED <<transactions, codes, subjects, consents>>
    /\ Finish(r)
    /\ UNCHANGED <<now, loggedOut, activeClients, tokens>>

-----------------------------------------------------------------------------
(***************************************************************************)
(* consume_code and verify_exchange, one immediate transaction.            *)
(***************************************************************************)
(* Mutant: a consumed code is not refused. *)
CanConsumeAgain(q) ==
    LET k == codes[q.row] IN
    /\ q.client \in activeClients
    /\ ~ k.revoked
    /\ k.client = q.client
    /\ q.at < k.expiresAt

(* Mutant: the code may belong to another client. *)
CanConsumeOfAnother(q) ==
    LET k == codes[q.row] IN
    /\ q.client \in activeClients
    /\ ~ k.consumed /\ ~ k.revoked
    /\ q.at < k.expiresAt

CanConsume(q) ==
    LET k == codes[q.row] IN
    /\ q.client \in activeClients
    /\ ~ k.consumed /\ ~ k.revoked
    /\ k.client = q.client
    /\ q.at < k.expiresAt

ConsumeCode(r) ==
    LET q == requests[r] IN
    /\ Doing(r, "consume")
    /\ IF CanConsume(q)
       THEN /\ codes' = [codes EXCEPT ![q.row].consumed = TRUE]
            /\ requests' = [requests EXCEPT
                               ![r].steps = Tail(@), ![r].late = q.session \in loggedOut]
       ELSE codes' = codes /\ Finish(r)
    /\ UNCHANGED <<now, loggedOut, activeClients, transactions, tokens, subjects, consents>>

(***************************************************************************)
(* find_subject and issue_tokens.  insert_access asks for an active client *)
(* and the subject once more.                                              *)
(***************************************************************************)
IssueTokens(r) ==
    LET q == requests[r]
        inserted == q.client \in activeClients /\ <<UserOf[q.session], q.client>> \in subjects
    IN  /\ Doing(r, "issue")
        /\ inserted => Len(tokens) < MaxTokens
        /\ tokens' = IF inserted
                     THEN Append(tokens,
                             [code |-> q.row, client |-> q.client, session |-> q.session,
                              expiresAt |-> q.at + TokenLifetime,
                              late |-> q.late, revoked |-> FALSE])
                     ELSE tokens
        /\ Finish(r)
        /\ UNCHANGED <<now, loggedOut, activeClients, transactions, codes, subjects, consents>>

(***************************************************************************)
(* A database error, a refused client secret, or the end of the process.   *)
(***************************************************************************)
Abandon(r) ==
    /\ requests[r] # Idle
    /\ Finish(r)
    /\ UNCHANGED <<now, loggedOut, activeClients, tables>>

-----------------------------------------------------------------------------
RevokeAccess(k) ==
    /\ tokens' = [tokens EXCEPT ![k].revoked = TRUE]
    /\ UNCHANGED <<now, loggedOut, activeClients, transactions, codes, subjects,
                   consents, requests>>

Logout(s) ==
    /\ loggedOut' = loggedOut \cup {s}
    /\ UNCHANGED <<now, activeClients, tables, requests>>

RevokedFor(c, table) ==
    [i \in DOMAIN table |-> [table[i] EXCEPT !.revoked = @ \/ table[i].client = c]]

(***************************************************************************)
(* The client of the installation and everything that was issued for it,   *)
(* in one transaction.  The subject stays.                                 *)
(***************************************************************************)
RevokeForInstallation(c) ==
    /\ activeClients' = activeClients \ {c}
    /\ transactions' = RevokedFor(c, transactions)
    /\ codes' = RevokedFor(c, codes)
    /\ tokens' = RevokedFor(c, tokens)
    /\ consents' = {grant \in consents : grant[2] # c}
    /\ UNCHANGED <<now, loggedOut, subjects, requests>>

Tick ==
    /\ now < MaxTime
    /\ now' = now + 1
    /\ UNCHANGED <<loggedOut, activeClients, tables, requests>>

RequestStep(r) ==
    \/ RequireLiveSession(r)
    \/ ActiveClient(r)
    \/ InsertTransaction(r)
    \/ ApproveTransaction(r)
    \/ ConsumeCode(r)
    \/ IssueTokens(r)
    \/ Abandon(r)

Next ==
    \/ \E r \in Requests, c \in Clients, s \in Sessions : Begin(r, c, s)
    \/ \E r \in Requests, t \in DOMAIN transactions, c \in Clients, s \in Sessions :
          Approve(r, t, c, s)
    \/ \E r \in Requests, k \in DOMAIN codes, c \in Clients : ExchangeCode(r, k, c)
    \/ \E r \in Requests : RequestStep(r)
    \/ \E k \in DOMAIN tokens : RevokeAccess(k)
    \/ \E s \in Sessions : Logout(s)
    \/ \E c \in Clients : RevokeForInstallation(c)
    \/ Tick

Spec == Init /\ [][Next]_vars

-----------------------------------------------------------------------------
(***************************************************************************)
(* resolve_access: the token a protected API accepts.                      *)
(***************************************************************************)
Resolves(k, at) ==
    /\ ~ tokens[k].revoked
    /\ tokens[k].client \in activeClients
    /\ <<UserOf[tokens[k].session], tokens[k].client>> \in subjects
    /\ tokens[k].expiresAt > at

(***************************************************************************)
(* A grant is used once: however many requests race, one authorization     *)
(* transaction yields at most one code and one code at most one token      *)
(* (approve_transaction and consume_code mark the row they used in the     *)
(* transaction that used it).                                              *)
(***************************************************************************)
GrantsAreUsedOnce ==
    /\ \A i, j \in DOMAIN codes : codes[i].transaction = codes[j].transaction => i = j
    /\ \A i, j \in DOMAIN tokens : tokens[i].code = tokens[j].code => i = j

(***************************************************************************)
(* Nothing is left of a client whose app was removed, and no request that  *)
(* was under way at the time adds anything afterwards: each insert looks   *)
(* at the client again in its own transaction.                             *)
(***************************************************************************)
NothingOutlivesItsClient ==
    \A c \in Clients \ activeClients :
        /\ \A i \in DOMAIN transactions : transactions[i].client = c => transactions[i].revoked
        /\ \A i \in DOMAIN codes : codes[i].client = c => codes[i].revoked
        /\ \A i \in DOMAIN tokens : tokens[i].client = c => tokens[i].revoked
        /\ \A u \in Users : <<u, c>> \notin consents

(***************************************************************************)
(* A token that resolves rests on a consent of its user to its client and  *)
(* on a consumed code that the same user's session obtained for the same   *)
(* client.                                                                 *)
(***************************************************************************)
ResolvableTokensRestOnConsent ==
    \A i \in DOMAIN tokens : Resolves(i, now) =>
        LET code == codes[tokens[i].code]
            transaction == transactions[code.transaction]
        IN  /\ <<UserOf[tokens[i].session], tokens[i].client>> \in consents
            /\ code.consumed /\ transaction.consumed
            /\ <<code.client, code.session>> = <<tokens[i].client, tokens[i].session>>
            /\ <<transaction.client, transaction.session>> = <<code.client, code.session>>

(***************************************************************************)
(* A code that is presented after its session was logged out gives no      *)
(* token: exchange_code looks at the session after it consumed the code.   *)
(***************************************************************************)
NoTokenAfterLogout == \A i \in DOMAIN tokens : ~ tokens[i].late

(***************************************************************************)
(* Requests carry a clock reading that may be old when it is used.  Still  *)
(* no chain of delays stretches a grant: a token expires before the end of *)
(* its transaction plus the lifetimes of a code and of a token.            *)
(***************************************************************************)
LifetimesAddUp ==
    \A i \in DOMAIN tokens :
        LET code == codes[tokens[i].code]
            transaction == transactions[code.transaction]
        IN  /\ code.expiresAt < transaction.expiresAt + CodeLifetime
            /\ tokens[i].expiresAt < code.expiresAt + TokenLifetime
=============================================================================
