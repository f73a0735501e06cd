---------------------------- MODULE OidcEndpoints ----------------------------
(***************************************************************************)
(* What travels through a sign-in of an app: the client record its         *)
(* declaration becomes (oidc-provider/src/registrar.rs, client.rs,         *)
(* redirect_uri.rs), the requests of the endpoints /oauth2/authorize,      *)
(* approve, token and userinfo (platform-web/src/oidc.rs, protocol.rs) and *)
(* the rows they are written to and read back from (persistence-sqlite).   *)
(*                                                                         *)
(* OidcProvider has the interleaving of these requests, step by step and   *)
(* with the clock; here a request is one step and carries its data:        *)
(* scopes, state, nonce, redirect URI, code challenge and client secret.   *)
(* A URL is a record of its parts, an opaque text a record of its length   *)
(* and whether its characters are allowed.  Numbers stand for random       *)
(* values, and a digest is a tuple around what it was made of.             *)
(***************************************************************************)
EXTENDS Integers, Sequences, FiniteSets

CONSTANTS
    OidcApps,          \* installed apps and their declarations
    AuthorizeRequests, \* queries of /oauth2/authorize
    ConsentScopes,     \* scope fields of the approval form
    TokenRedirects,    \* redirect_uri fields of /oauth2/token
    Verifiers,         \* code_verifier fields
    EndpointUser,      \* the user of each browser session
    ClaimedName,       \* the name an account has
    MaxAsked, MaxGranted, MaxIssued,
    Nobody             \* a secret, a row or a field that is not there

ASSUME EndpointBounds ==
    /\ {MaxAsked, MaxGranted, MaxIssued} \subseteq Nat
    /\ \A a, b \in OidcApps : a.app = b.app => a = b

VARIABLES
    clientRows,    \* oidc_client with oidc_client_scope, by app
    clientSecrets, \* the secret store: the encoded secret of an app
    secretsDrawn,
    asked,         \* oidc_authorization_transaction
    codesGiven,       \* oidc_authorization_code
    subjectOf,     \* oidc_pairwise_subject: users and installations
    issued,        \* oidc_access_token, with what the token response said
    lapsed         \* sessions that have been revoked

endpointVars ==
    <<clientRows, clientSecrets, secretsDrawn, asked, codesGiven, subjectOf, issued, lapsed>>

EndpointSessions == DOMAIN EndpointUser

WordsOf(s) == {s[n] : n \in DOMAIN s}

Repeats(s) == \E m, n \in DOMAIN s : m < n /\ s[m] = s[n]

-----------------------------------------------------------------------------
(***************************************************************************)
(* Redirect URIs.  `written` says whether the text is the one the URL      *)
(* parser prints.                                                          *)
(***************************************************************************)
HttpsUrl(u) == u.scheme = "https" /\ u.host # "" /\ ~u.credentials

PlatformOrigin(u) == HttpsUrl(u) /\ u.path = "/" /\ ~u.query /\ ~u.fragment

RedirectParses(u) ==
    HttpsUrl(u) /\ ~u.query /\ ~u.fragment /\ u.written = "canonical"

\* resolve_origin: a host of its own for every installation.
AppOrigin(a) ==
    [scheme |-> "https", host |-> a.app, credentials |-> FALSE, path |-> "/",
     query |-> FALSE, fragment |-> FALSE, written |-> "canonical"]

RedirectOf(a) == [AppOrigin(a) EXCEPT !.path = a.callback]

\* validate_segment: unreserved characters only, and neither "." nor "..".
PlainSegments(p) == p.segments = "plain"

CallbackParses(p) == p.absolute /\ ~p.doubleSlash /\ ~p.query /\ PlainSegments(p)

-----------------------------------------------------------------------------
(***************************************************************************)
(* Scopes and their stored form, the words with a blank between two.       *)
(***************************************************************************)
KnownScopes == {"openid", "profile", "email", "offline_access"}

EncodeScopes(s) ==
    [n \in 1 .. 2 * Len(s) - 1 |-> IF n % 2 = 1 THEN s[(n + 1) \div 2] ELSE " "]

DecodeScopes(t) == SelectSeq(t, LAMBDA w : w # " ")

\* parse_scopes of the endpoints.
ScopesParse(s) == Len(s) \in 1 .. 4 /\ WordsOf(s) \subseteq KnownScopes

\* OidcClientDeclaration::new.
DeclarationConstructs(a) ==
    Len(a.scopes) \leq 8 /\ "openid" \in WordsOf(a.scopes) /\ ~Repeats(a.scopes)

ValidScopes(c, s) ==
    /\ "openid" \in WordsOf(s)
    /\ Len(s) \leq Len(c.scopes)
    /\ ~Repeats(s)
    /\ WordsOf(s) \subseteq WordsOf(c.scopes)

-----------------------------------------------------------------------------
(***************************************************************************)
(* Opaque texts, code challenges and secrets.                              *)
(***************************************************************************)
ValidOpaque(t) == t.n \in 8 .. 512 /\ t.visible

ChallengeParses(c) == c.n = 43 /\ c.alphabet

(* Mutant: any verifier of the right form will do. *)
ChallengeVerifiesForm(c, v) == v.n \in 43 .. 128 /\ v.alphabet

\* PkceChallenge::verify: the challenge is the digest of the verifier.
ChallengeVerifies(c, v) ==
    v.n \in 43 .. 128 /\ v.alphabet /\ c.digest = <<"sha256", v.value>>

SecretDigest(s) == <<"sha256", s>>

EncodedSecret(s) == <<"base64", s>>

SecretParses(e) == e # Nobody /\ e[1] = "base64"

DecodedSecret(e) == e[2]

-----------------------------------------------------------------------------
(***************************************************************************)
(* Client records.  OidcClientRecord::restore builds a new record and      *)
(* reads a stored one.                                                     *)
(***************************************************************************)
NameFits(name) == name.n \in 1 .. 120 /\ ~name.control

ClientRestores(c) ==
    /\ NameFits(c.name)
    /\ "openid" \in WordsOf(c.scopes) /\ ~Repeats(c.scopes)
    /\ (c.type = "public") = (c.digest = Nobody)

BuildClient(a, secret) ==
    [client |-> a.app, name |-> a.name, type |-> a.type, redirect |-> RedirectOf(a),
     scopes |-> a.scopes,
     digest |-> IF secret = Nobody THEN Nobody ELSE SecretDigest(secret)]

\* insert writes one row for the client and one for each scope, in order.
ClientRow(c) ==
    [c EXCEPT !.scopes = {[rowid |-> n, scope |-> c.scopes[n]] : n \in DOMAIN c.scopes}]

\* load_scopes: ORDER BY rowid.
LoadScopes(rows) ==
    [n \in 1 .. Cardinality(rows) |->
       (CHOOSE r \in rows : Cardinality({q \in rows : q.rowid < r.rowid}) = n - 1).scope]

\* find and StoredClient::into_domain.
ReadClient(row) ==
    {c \in {[row EXCEPT !.scopes = LoadScopes(@)]} :
       RedirectParses(c.redirect) /\ ClientRestores(c)}

ActiveClient(app) ==
    UNION {ReadClient(row) : row \in {clientRows[app]} \ {Nobody}}

VerifiesSecret(c, encoded) ==
    c.digest # Nobody /\ SecretParses(encoded)
      /\ c.digest = SecretDigest(DecodedSecret(encoded))

ClientMatches(c, a, encoded) ==
    /\ c.name = a.name /\ c.type = a.type /\ c.redirect = RedirectOf(a)
    /\ c.scopes = a.scopes
    /\ IF a.type = "public" THEN c.digest = Nobody ELSE VerifiesSecret(c, encoded)

-----------------------------------------------------------------------------
(***************************************************************************)
(* Registration.  The secret is stored before the client, in another       *)
(* database; an interrupted registration runs again from its beginning.    *)
(***************************************************************************)
EndpointInit ==
    /\ clientRows = [app \in {a.app : a \in OidcApps} |-> Nobody]
    /\ clientSecrets = [app \in {a.app : a \in OidcApps} |-> Nobody]
    /\ secretsDrawn = 0
    /\ asked = <<>> /\ codesGiven = <<>> /\ issued = <<>>
    /\ subjectOf = {} /\ lapsed = {}

\* The part of register_or_recover_installed_app before the client is inserted.
StoreClientSecret(a) ==
    /\ DeclarationConstructs(a)
    /\ a.type = "confidential" /\ PlatformOrigin(AppOrigin(a))
    /\ clientRows[a.app] = Nobody /\ clientSecrets[a.app] = Nobody
    /\ secretsDrawn' = secretsDrawn + 1
    /\ clientSecrets' = [clientSecrets EXCEPT ![a.app] = EncodedSecret(secretsDrawn + 1)]
    /\ UNCHANGED <<clientRows, asked, codesGiven, subjectOf, issued, lapsed>>

RecoveredSecret(a) ==
    IF a.type = "public" THEN Nobody ELSE DecodedSecret(clientSecrets[a.app])

RegisterClientRow(a) ==
    /\ DeclarationConstructs(a) /\ CallbackParses(a.callback)
    /\ clientRows[a.app] = Nobody
    /\ (a.type = "confidential") = (clientSecrets[a.app] # Nobody)
    /\ RedirectParses(RedirectOf(a))
    /\ LET c == BuildClient(a, RecoveredSecret(a)) IN
         /\ ClientRestores(c)
         /\ clientRows' = [clientRows EXCEPT ![a.app] = ClientRow(c)]
    /\ UNCHANGED <<clientSecrets, secretsDrawn, asked, codesGiven, subjectOf, issued, lapsed>>

-----------------------------------------------------------------------------
(***************************************************************************)
(* GET /oauth2/authorize: authorize, begin and insert_transaction.         *)
(***************************************************************************)
LiveSession(s) == s \notin lapsed

RequestReads(r) ==
    /\ r.responseType = "code" /\ r.method = "S256"
    /\ ScopesParse(r.scopes)

TransactionStarts(c, r) ==
    /\ c.redirect = r.redirect
    /\ ValidOpaque(r.state) /\ ValidOpaque(r.nonce)
    /\ ValidScopes(c, r.scopes)

\* The row; `of` is history, the request it was written for.
TransactionRowOf(c, r) ==
    [client |-> c.client, session |-> r.session, redirect |-> c.redirect,
     scopes |-> EncodeScopes(r.scopes), state |-> r.state, nonce |-> r.nonce,
     challenge |-> r.challenge, consumed |-> FALSE, of |-> r]

Authorize(r) ==
    /\ Len(asked) < MaxAsked
    /\ RequestReads(r)
    /\ LiveSession(r.session)
    /\ "offline_access" \notin WordsOf(r.scopes)
    /\ ChallengeParses(r.challenge)
    /\ \E c \in ActiveClient(r.client) :
         /\ TransactionStarts(c, r)
         /\ asked' = Append(asked, TransactionRowOf(c, r))
    /\ UNCHANGED <<clientRows, clientSecrets, secretsDrawn, codesGiven, subjectOf, issued, lapsed>>

-----------------------------------------------------------------------------
(***************************************************************************)
(* POST /oauth2/authorize/approve: approve and approve_transaction.        *)
(***************************************************************************)
ConsentConstructs(c, scopes) ==
    ValidScopes(c, scopes) /\ "offline_access" \notin WordsOf(scopes)

TransactionRestores(c, row) ==
    /\ WordsOf(DecodeScopes(row.scopes)) \subseteq KnownScopes
    /\ ValidOpaque(row.state) /\ ValidOpaque(row.nonce)
    /\ ChallengeParses(row.challenge)
    /\ ValidScopes(c, DecodeScopes(row.scopes))

TransactionApproves(c, row, scopes, s) ==
    /\ row.client = c.client /\ row.redirect = c.redirect
    /\ row.session = s
    /\ WordsOf(DecodeScopes(row.scopes)) \subseteq WordsOf(scopes)

\* The code's row; location is where the browser is sent with the code.
CodeRowOf(n, c, row) ==
    [transaction |-> n, client |-> row.client, session |-> row.session,
     redirect |-> c.redirect, scopes |-> EncodeScopes(DecodeScopes(row.scopes)),
     nonce |-> row.nonce, challenge |-> row.challenge, consumed |-> FALSE,
     location |-> [to |-> c.redirect, state |-> row.state]]

Approve(n, app, scopes, s) ==
    /\ Len(codesGiven) < MaxGranted
    /\ ScopesParse(scopes) /\ LiveSession(s)
    /\ ~asked[n].consumed
    /\ \E c \in ActiveClient(app) :
         /\ ConsentConstructs(c, scopes)
         /\ TransactionRestores(c, asked[n])
         /\ TransactionApproves(c, asked[n], scopes, s)
         /\ codesGiven' = Append(codesGiven, CodeRowOf(n, c, asked[n]))
    /\ subjectOf' = subjectOf \cup {<<EndpointUser[s], app>>}
    /\ asked' = [asked EXCEPT ![n].consumed = TRUE]
    /\ UNCHANGED <<clientRows, clientSecrets, secretsDrawn, issued, lapsed>>

-----------------------------------------------------------------------------
(***************************************************************************)
(* POST /oauth2/token: token, exchange_code and issue_tokens.  A form      *)
(* names its client in the body, in the Basic credentials or in both.      *)
(***************************************************************************)
TokenForms ==
    [code : DOMAIN codesGiven, basic : DOMAIN clientRows \cup {Nobody},
     body : DOMAIN clientRows \cup {Nobody},
     secret : {EncodedSecret(k) : k \in 1 .. secretsDrawn} \cup {Nobody},
     redirect : TokenRedirects, verifier : Verifiers]

NamedClient(f) ==
    IF f.basic = Nobody THEN {f.body} \ {Nobody}
    ELSE IF f.body \in {Nobody, f.basic} THEN {f.basic} ELSE {}

\* basic_credentials: an id and a secret, neither of them empty.
BasicReads(f) == f.basic = Nobody \/ f.secret # Nobody

\* authenticate_client with token_endpoint_auth_method.
ClientAuthenticates(c, f) ==
    IF c.type = "public" THEN f.basic = Nobody
    ELSE f.basic # Nobody /\ VerifiesSecret(c, f.secret)

CodeRestores(c, row) ==
    /\ WordsOf(DecodeScopes(row.scopes)) \subseteq KnownScopes
    /\ ValidScopes(c, DecodeScopes(row.scopes))
    /\ ValidOpaque(row.nonce) /\ ChallengeParses(row.challenge)

ExchangeVerifies(c, row, f) ==
    /\ row.client = c.client /\ row.redirect = c.redirect
    /\ row.redirect = f.redirect
    /\ ChallengeVerifies(row.challenge, f.verifier)

\* The claims: the name only for the scope "profile".
NameClaim(scopes, user) ==
    IF "profile" \in WordsOf(scopes) THEN ClaimedName[user] ELSE Nobody

FindSubject(user, app) == subjectOf \cap {<<user, app>>}

AccessGrantConstructs(scopes) == "openid" \in WordsOf(scopes) /\ ~Repeats(scopes)

\* What is stored and answered; `form` is history, what the client presented.
TokenRowOf(f, row) ==
    [code |-> f.code, client |-> row.client, session |-> row.session,
     subject |-> <<EndpointUser[row.session], row.client>>, scopes |-> row.scopes,
     idToken |-> [aud |-> row.client, nonce |-> row.nonce,
                  name |-> NameClaim(DecodeScopes(row.scopes), EndpointUser[row.session])],
     form |-> f]

Token(f) ==
    /\ Len(issued) < MaxIssued
    /\ f \in {g \in TokenForms : BasicReads(g)} /\ ~codesGiven[f.code].consumed
    /\ \E app \in NamedClient(f) : \E c \in ActiveClient(app) :
         /\ ClientAuthenticates(c, f)
         /\ CodeRestores(c, codesGiven[f.code])
         /\ ExchangeVerifies(c, codesGiven[f.code], f)
    /\ codesGiven' = [codesGiven EXCEPT ![f.code].consumed = TRUE]
    /\ LET row == codesGiven[f.code] IN
         IF LiveSession(row.session)
              /\ FindSubject(EndpointUser[row.session], row.client) # {}
              /\ AccessGrantConstructs(DecodeScopes(row.scopes))
         THEN issued' = Append(issued, TokenRowOf(f, row))
         ELSE issued' = issued
    /\ UNCHANGED <<clientRows, clientSecrets, secretsDrawn, asked, subjectOf, lapsed>>

\* resolve_access reads the grant back.
ResolvedAccess(t) ==
    {g \in {[user |-> EndpointUser[t.session], session |-> t.session,
             subject |-> t.subject, scopes |-> DecodeScopes(t.scopes)]} :
       AccessGrantConstructs(g.scopes) /\ g.subject \in subjectOf}

\* GET /oauth2/userinfo.
UserInfo(t) ==
    {[sub |-> g.subject, name |-> NameClaim(g.scopes, g.user)] :
       g \in {h \in ResolvedAccess(t) : LiveSession(h.session)}}

\* A logout elsewhere.
Lapse(s) ==
    /\ lapsed' = lapsed \cup {s}
    /\ UNCHANGED <<clientRows, clientSecrets, secretsDrawn, asked, codesGiven, subjectOf, issued>>

EndpointNext ==
    \/ \E a \in OidcApps : StoreClientSecret(a) \/ RegisterClientRow(a)
    \/ \E r \in AuthorizeRequests : Authorize(r)
    \/ \E n \in DOMAIN asked, app \in DOMAIN clientRows, scopes \in ConsentScopes,
          s \in EndpointSessions : Approve(n, app, scopes, s)
    \/ \E f \in TokenForms : Token(f)
    \/ \E s \in EndpointSessions : Lapse(s)

EndpointSpec == EndpointInit /\ [][EndpointNext]_endpointVars

-----------------------------------------------------------------------------
(***************************************************************************)
(* Every token goes to the client that began the sign-in and answers that  *)
(* request: whoever exchanged the code knew the verifier of the challenge  *)
(* and, for a confidential client, its secret; nonce, state, redirect URI  *)
(* and scopes are those of the request after every row they passed         *)
(* through, and the name is told only where "profile" was asked for.       *)
(***************************************************************************)
TokensAnswerTheirRequest ==
    \A n \in DOMAIN issued :
      LET t == issued[n]
          code == codesGiven[t.code]
          r == asked[code.transaction].of
      IN /\ t.client = r.client /\ t.session = r.session
         /\ DecodeScopes(t.scopes) = r.scopes
         /\ t.idToken.aud = r.client /\ t.idToken.nonce = r.nonce
         /\ r.challenge.digest = <<"sha256", t.form.verifier.value>>
         /\ code.location = [to |-> r.redirect, state |-> r.state]
         /\ clientSecrets[t.client] \in {Nobody, t.form.secret}
         /\ \A claims \in UserInfo(t) \cup {t.idToken} :
              claims.name # Nobody => "profile" \in WordsOf(r.scopes)

(***************************************************************************)
(* A registration that runs again finds the client it made before: the     *)
(* stored row still matches the declaration and the stored secret opens    *)
(* it, however the first attempt was interrupted.                          *)
(***************************************************************************)
RegistrationRecovers ==
    \A a \in OidcApps :
      clientRows[a.app] # Nobody =>
        \E c \in ActiveClient(a.app) : ClientMatches(c, a, clientSecrets[a.app])
=============================================================================
