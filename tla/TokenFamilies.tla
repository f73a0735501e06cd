---------------------------- MODULE TokenFamilies ----------------------------
(***************************************************************************)
(* The refresh tokens of the OpenID provider: a family of tokens of which  *)
(* only the last is good, rotated when it is presented and revoked as a    *)
(* whole when an earlier one is presented again                            *)
(* (oidc-provider/src/token_family.rs and                                  *)
(* persistence-sqlite/src/oidc_refresh_token_store.rs), with the access    *)
(* tokens issued for it (oidc_access_token_store.rs).  Each operation is   *)
(* one transaction.                                                        *)
(*                                                                         *)
(* Tokens are numbers in the order they are drawn, so a token stands for   *)
(* its digest too.  Whoever has seen a token may present it at any time.   *)
(***************************************************************************)
EXTENDS Integers, FiniteSets

CONSTANTS FamilyClients, FamilySessions,
          FamilyLifetime, AccessLifetime,
          MaxFamilies, MaxRefresh, MaxAccess, MaxFamilyTime

ASSUME FamilyBounds ==
    /\ FamilyLifetime \in Nat \ {0} /\ AccessLifetime \in Nat \ {0}
    /\ {MaxFamilies, MaxRefresh, MaxAccess, MaxFamilyTime} \subseteq Nat

VARIABLES families,        \* oidc_token_family, by id
          spent,           \* oidc_refresh_spent: token and family
          familyAccess,    \* oidc_access_token
          revokedClients,
          familyTime,
          refreshDrawn,    \* tokens drawn so far
          held,            \* the family each drawn token was handed out for
          replayed         \* history: families of which a used token came back

familyVars == <<families, spent, familyAccess, revokedClients, familyTime, refreshDrawn,
                held, replayed>>

FamiliesInit ==
    /\ families = {} /\ spent = {} /\ familyAccess = {} /\ revokedClients = {}
    /\ familyTime = 0 /\ refreshDrawn = 0 /\ held = {} /\ replayed = {}

\* RefreshTokenFamily::create
NewFamily(id, c, s, token) ==
    [id |-> id, client |-> c, session |-> s, current |-> token,
     expiresAt |-> familyTime + FamilyLifetime, revoked |-> FALSE]

\* insert_family, for a client that is still active.
InsertFamily(c, s) ==
    /\ Cardinality(families) < MaxFamilies /\ refreshDrawn < MaxRefresh
    /\ c \notin revokedClients
    /\ refreshDrawn' = refreshDrawn + 1
    /\ families' = families \union
         {NewFamily(Cardinality(families) + 1, c, s, refreshDrawn + 1)}
    /\ held' = held \union {[token |-> refreshDrawn + 1, family |-> Cardinality(families) + 1]}
    /\ UNCHANGED <<spent, familyAccess, revokedClients, familyTime, replayed>>

\* insert_access with a family.
InsertAccess(f) ==
    /\ Cardinality(familyAccess) < MaxAccess
    /\ f.client \notin revokedClients /\ ~f.revoked
    /\ familyAccess' = familyAccess \union
         {[id |-> Cardinality(familyAccess) + 1, family |-> f.id, client |-> f.client,
           session |-> f.session, expiresAt |-> familyTime + AccessLifetime,
           revoked |-> FALSE]}
    /\ UNCHANGED <<families, spent, revokedClients, familyTime, refreshDrawn, held, replayed>>

\* The first query of rotate: the family whose current token it is.
CurrentFamily(k) ==
    {f \in families : f.current = k /\ f.client \notin revokedClients}

MayRotate(f) == ~f.revoked /\ familyTime < f.expiresAt

(* Mutant: a token that was rotated away is not remembered. *)
SpendNothing(k, f) == spent' = spent

Spend(k, f) == spent' = spent \union {[token |-> k, family |-> f.id]}

Rotate(k) ==
    /\ refreshDrawn < MaxRefresh
    /\ \E f \in CurrentFamily(k) :
         /\ MayRotate(f)
         /\ Spend(k, f)
         /\ refreshDrawn' = refreshDrawn + 1
         /\ families' = (families \ {f}) \union {[f EXCEPT !.current = refreshDrawn + 1]}
         /\ held' = held \union {[token |-> refreshDrawn + 1, family |-> f.id]}
    /\ UNCHANGED <<familyAccess, revokedClients, familyTime, replayed>>

RevokedRows(table, mine(_)) ==
    {IF mine(row) THEN [row EXCEPT !.revoked = TRUE] ELSE row : row \in table}

\* The second query: a spent token revokes its family and the family's access tokens.
RevokeForReplay(k) ==
    LET hit == {e.family : e \in {e \in spent : e.token = k}} IN
    /\ families' = RevokedRows(families, LAMBDA f : f.id \in hit)
    /\ familyAccess' = RevokedRows(familyAccess, LAMBDA a : a.family \in hit)

\* rotate with a token that is no family's current one any more.
Replay(k) ==
    /\ CurrentFamily(k) = {}
    /\ RevokeForReplay(k)
    /\ replayed' = replayed \union
         {f.id : f \in {f \in families : /\ [token |-> k, family |-> f.id] \in held
                                         /\ f.current # k}}
    /\ UNCHANGED <<spent, revokedClients, familyTime, refreshDrawn, held>>

RevokeForSession(s) ==
    /\ families' = RevokedRows(families, LAMBDA f : f.session = s)
    /\ familyAccess' = RevokedRows(familyAccess, LAMBDA a : a.session = s)
    /\ UNCHANGED <<spent, revokedClients, familyTime, refreshDrawn, held, replayed>>

\* revoke_for_installation of the client store.
RevokeFamilyClient(c) ==
    /\ revokedClients' = revokedClients \union {c}
    /\ families' = RevokedRows(families, LAMBDA f : f.client = c)
    /\ familyAccess' = RevokedRows(familyAccess, LAMBDA a : a.client = c)
    /\ UNCHANGED <<spent, familyTime, refreshDrawn, held, replayed>>

FamilyClock ==
    /\ familyTime < MaxFamilyTime
    /\ familyTime' = familyTime + 1
    /\ UNCHANGED <<families, spent, familyAccess, revokedClients, refreshDrawn, held, replayed>>

FamiliesNext ==
    \/ \E c \in FamilyClients : \E s \in FamilySessions : InsertFamily(c, s)
    \/ \E f \in families : InsertAccess(f)
    \/ \E h \in held : Rotate(h.token) \/ Replay(h.token)
    \/ \E s \in FamilySessions : RevokeForSession(s)
    \/ \E c \in FamilyClients : RevokeFamilyClient(c)
    \/ FamilyClock

FamiliesSpec == FamiliesInit /\ [][FamiliesNext]_familyVars

------------------------------------------------------------------------------
(* Properties *)

\* resolve_access finds the token.
FamilyResolves(a) ==
    /\ ~a.revoked /\ a.client \notin revokedClients /\ a.expiresAt > familyTime
    /\ \E f \in families : /\ f.id = a.family /\ ~f.revoked /\ f.expiresAt > familyTime
                           /\ f.client = a.client /\ f.session = a.session

\* Once a used refresh token has come back, no token of its family is good for
\* anything: none can be rotated, none can be added, and no access token issued for
\* the family resolves.
ReuseEndsTheFamily ==
    \A f \in families : f.id \in replayed =>
        /\ f.revoked
        /\ \A a \in familyAccess : a.family = f.id => ~FamilyResolves(a)
==============================================================================
