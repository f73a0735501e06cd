------------------------ MODULE LocalAccountsProofs ------------------------
(***************************************************************************)
(* The safety properties of LocalAccounts for any number of requests and   *)
(* sessions, any limit on the attempts and any clock.  They rest on one    *)
(* inductive invariant: the counter of the credential row is the number of *)
(* verifiers handed out, and a request that changes the password still     *)
(* knows every session of its copy that is live.                           *)
(***************************************************************************)
EXTENDS LocalAccounts, TLAPS

Stages == {"loaded", "verifying", "verified"}

\* What a request thread can hold.
RequestType ==
    [stage : Stages, kind : {"login", "reauthenticate", "change"}, at : Nat,
     password : Passwords, hash : Passwords \X Nat, loaded : Nat, seen : SUBSET Nat]

SessionType ==
    [hash : Passwords \X Nat, authenticatedAt : Nat, revoked : BOOLEAN, tokenRevoked : BOOLEAN]

TypeOK ==
    /\ now \in Nat
    /\ credential \in [hash : Passwords \X Nat, failedAttempts : Nat,
                       blockedUntil : Nat \cup {NotBlocked}]
    /\ sessions \in Seq(SessionType)
    /\ requests \in [Requests -> RequestType \cup {Idle}]
    /\ guesses \in Nat

\* begin_attempt counts every verifier it hands out, and the one that reaches the limit
\* leaves the account blocked.
CounterCounts ==
    /\ credential.failedAttempts = guesses
    /\ guesses <= MaximumAttempts
    /\ credential.blockedUntil = NotBlocked => guesses < MaximumAttempts

\* Revocation is for good, so a session of the copy that is live now was live in it.
CopyKnowsTheLive ==
    \A r \in Requests : requests[r] # Idle =>
        /\ requests[r].loaded <= Len(sessions)
        /\ \A i \in 1 .. requests[r].loaded :
              ~ sessions[i].revoked => i \in requests[r].seen

AccountsInv == TypeOK /\ CounterCounts /\ CopyKnowsTheLive

-----------------------------------------------------------------------------
\* A thread at one of the stages of a request holds a request.
LEMMA BusyIsRequest ==
    ASSUME TypeOK, NEW r \in Requests, requests[r].stage # "idle"
    PROVE  requests[r] \in RequestType /\ requests[r] # Idle
BY DEF TypeOK, Idle, RequestType

\* Before the first request nothing was counted and no session is open.
LEMMA InitEstablishesInv == Init => AccountsInv
BY AccountsAssumption
DEF Init, AccountsInv, TypeOK, CounterCounts, CopyKnowsTheLive, NotBlocked, Idle, RequestType, Stages

\* Marking sessions as revoked keeps their number and their type, and revives none.
LEMMA RevokedSessions ==
    ASSUME sessions \in Seq(SessionType), NEW seen
    PROVE  /\ Revoked(seen) \in Seq(SessionType)
           /\ Len(Revoked(seen)) = Len(sessions)
           /\ \A i \in 1 .. Len(sessions) :
                 ~ Revoked(seen)[i].revoked => ~ sessions[i].revoked /\ i \notin seen
<1>1. DOMAIN sessions = 1 .. Len(sessions) /\ Len(sessions) \in Nat
  OBVIOUS
<1>2. \A i \in 1 .. Len(sessions) : sessions[i] \in SessionType
  OBVIOUS
<1>3. \A i \in 1 .. Len(sessions) : Revoked(seen)[i] \in SessionType
  BY <1>1, <1>2 DEF Revoked, SessionType
<1>4. Revoked(seen) = [i \in 1 .. Len(sessions) |-> Revoked(seen)[i]]
  BY <1>1 DEF Revoked
<1>5. Revoked(seen) \in Seq(SessionType) /\ Len(Revoked(seen)) = Len(sessions)
  BY <1>1, <1>3, <1>4
<1>6. \A i \in 1 .. Len(sessions) :
         ~ Revoked(seen)[i].revoked => ~ sessions[i].revoked /\ i \notin seen
  BY <1>1, <1>2 DEF Revoked, SessionType
<1> QED
  BY <1>5, <1>6

\* A step that leaves credential and sessions alone, and puts a thread back to idle or
\* leaves it where it is, keeps the invariant.
LEMMA FinishKeepsInv ==
    ASSUME AccountsInv, NEW r \in Requests, Finish(r), now' \in Nat,
           UNCHANGED <<credential, sessions, guesses>>
    PROVE  AccountsInv'
<1>1. TypeOK'
  BY DEF AccountsInv, TypeOK, Finish
<1>2. CounterCounts'
  BY DEF AccountsInv, CounterCounts
<1>3. CopyKnowsTheLive'
  BY DEF AccountsInv, CopyKnowsTheLive, Finish, TypeOK
<1> QED
  BY <1>1, <1>2, <1>3 DEF AccountsInv

\* Loading the account state takes a copy of the credential and of the live sessions.
LEMMA LoadKeepsInv ==
    ASSUME AccountsInv, NEW r \in Requests, NEW password \in Passwords,
           NEW kind \in {"login", "reauthenticate", "change"}, Load(r, kind, password)
    PROVE  AccountsInv'
<1> DEFINE q == [stage |-> "loaded", kind |-> kind, at |-> now, password |-> password,
                 hash |-> credential.hash,
                 loaded |-> IF kind = "change" THEN Len(sessions) ELSE 0,
                 seen |-> IF kind = "change" THEN NotRevoked ELSE {}]
<1>1. DOMAIN sessions = 1 .. Len(sessions) /\ Len(sessions) \in Nat
  BY DEF AccountsInv, TypeOK
<1>2. NotRevoked \in SUBSET Nat
  BY <1>1 DEF NotRevoked
<1>3. q \in RequestType /\ requests' = [requests EXCEPT ![r] = q]
  BY <1>1, <1>2 DEF Load, AccountsInv, TypeOK, RequestType, Stages
<1>4. TypeOK'
  BY <1>3 DEF Load, AccountsInv, TypeOK
<1>5. CounterCounts'
  BY DEF Load, AccountsInv, CounterCounts
<1>6. CopyKnowsTheLive'
  <2>1. q.loaded <= Len(sessions) /\ \A i \in 1 .. q.loaded : ~ sessions[i].revoked => i \in q.seen
    BY <1>1 DEF NotRevoked
  <2>2. sessions' = sessions
    BY DEF Load
  <2>3. ASSUME NEW s \in Requests, requests'[s] # Idle
        PROVE  /\ requests'[s].loaded <= Len(sessions)
               /\ \A i \in 1 .. requests'[s].loaded :
                     ~ sessions[i].revoked => i \in requests'[s].seen
    <3>1. CASE s = r
      BY <3>1, <2>1, <1>3 DEF AccountsInv, TypeOK
    <3>2. CASE s # r
      <4>1. requests'[s] = requests[s]
        BY <3>2, <1>3 DEF AccountsInv, TypeOK
      <4> QED
        BY <4>1, <2>3 DEF AccountsInv, CopyKnowsTheLive
    <3> QED
      BY <3>1, <3>2
  <2> QED
    BY <2>2, <2>3 DEF CopyKnowsTheLive
<1> QED
  BY <1>4, <1>5, <1>6 DEF AccountsInv

\* begin_attempt: the counter and the number of verifiers handed out move together.
LEMMA BeginAttemptKeepsInv ==
    ASSUME AccountsInv, NEW r \in Requests, BeginAttempt(r)
    PROVE  AccountsInv'
<1> USE AccountsAssumption
<1> DEFINE q == requests[r]
           expired == credential.blockedUntil # NotBlocked
           previous == IF expired THEN 0 ELSE credential.failedAttempts
<1>1. q \in RequestType /\ q # Idle
  BY BusyIsRequest DEF BeginAttempt, At, AccountsInv
<1>2. CASE credential.blockedUntil > q.at
  <2>1. Finish(r) /\ UNCHANGED <<credential, guesses, now, sessions>>
    BY <1>2 DEF BeginAttempt
  <2> QED
    BY <2>1, FinishKeepsInv DEF AccountsInv, TypeOK
<1>3. CASE ~ (credential.blockedUntil > q.at)
  <2>1. /\ credential' = CountedAttempt(previous + 1, q.at)
        /\ guesses' = (IF expired THEN 0 ELSE guesses) + 1
        /\ requests' = [requests EXCEPT ![r].stage = "verifying", ![r].hash = credential.hash]
        /\ UNCHANGED <<now, sessions>>
    BY <1>3 DEF BeginAttempt
  <2>2. /\ previous \in Nat /\ guesses' = previous + 1
        /\ previous + 1 <= MaximumAttempts
    BY <2>1 DEF AccountsInv, TypeOK, CounterCounts
  <2>3. /\ credential'.failedAttempts = previous + 1
        /\ credential'.hash = credential.hash
        /\ credential'.blockedUntil =
              IF previous + 1 >= MaximumAttempts THEN q.at + LockoutSeconds ELSE NotBlocked
        /\ credential' \in [hash : Passwords \X Nat, failedAttempts : Nat,
                            blockedUntil : Nat \cup {NotBlocked}]
    <3>1. q.at + LockoutSeconds \in Nat
      BY <1>1 DEF RequestType
    <3>2. credential \in [hash : Passwords \X Nat, failedAttempts : Nat,
                          blockedUntil : Nat \cup {NotBlocked}]
      BY DEF AccountsInv, TypeOK
    <3>3. credential' = [credential EXCEPT !.failedAttempts = previous + 1,
             !.blockedUntil = IF previous + 1 >= MaximumAttempts THEN q.at + LockoutSeconds
                              ELSE NotBlocked]
      BY <2>1 DEF CountedAttempt
    <3> DEFINE until == IF previous + 1 >= MaximumAttempts THEN q.at + LockoutSeconds
                        ELSE NotBlocked
    <3>4. until \in Nat \cup {NotBlocked} /\ previous + 1 \in Nat
      BY <3>1, <2>2
    <3>5. credential' = [credential EXCEPT !.failedAttempts = previous + 1,
                                           !.blockedUntil = until]
      BY <3>3
    <3> HIDE DEF previous, q, until
    <3>6. /\ credential'.failedAttempts = previous + 1
          /\ credential'.hash = credential.hash
          /\ credential'.blockedUntil = until
      BY <3>2, <3>5
    <3>7. credential' \in [hash : Passwords \X Nat, failedAttempts : Nat,
                           blockedUntil : Nat \cup {NotBlocked}]
      BY <3>2, <3>4, <3>5
    <3> QED
      BY <3>6, <3>7 DEF until
  <2>4. /\ requests' = [requests EXCEPT ![r] =
                           [q EXCEPT !.stage = "verifying", !.hash = credential.hash]]
        /\ [q EXCEPT !.stage = "verifying", !.hash = credential.hash] \in RequestType
    BY <2>1, <1>1 DEF AccountsInv, TypeOK, RequestType, Stages
  <2>5. TypeOK'
    BY <2>1, <2>2, <2>3, <2>4 DEF AccountsInv, TypeOK
  <2>6. CounterCounts'
    BY <2>2, <2>3, <1>1 DEF CounterCounts, RequestType, NotBlocked
  <2>7. CopyKnowsTheLive'
    <3>1. ASSUME NEW s \in Requests, requests'[s] # Idle
          PROVE  /\ requests[s] # Idle
                 /\ requests'[s].loaded = requests[s].loaded
                 /\ requests'[s].seen = requests[s].seen
      BY <3>1, <2>4, <1>1 DEF AccountsInv, TypeOK, RequestType
    <3> QED
      BY <3>1, <2>1 DEF AccountsInv, CopyKnowsTheLive
  <2> QED
    BY <2>5, <2>6, <2>7 DEF AccountsInv
<1> QED
  BY <1>2, <1>3

\* record_success, or a wrong password.
LEMMA VerifyKeepsInv ==
    ASSUME AccountsInv, NEW r \in Requests, Verify(r)
    PROVE  AccountsInv'
<1> USE AccountsAssumption
<1> DEFINE q == requests[r]
           after == IF q.kind = "reauthenticate" THEN Idle ELSE [q EXCEPT !.stage = "verified"]
<1>1. q \in RequestType /\ q # Idle
  BY BusyIsRequest DEF Verify, At, AccountsInv
<1>2. CASE q.password # q.hash[1]
  <2>1. Finish(r) /\ UNCHANGED <<credential, guesses, now, sessions>>
    BY <1>2 DEF Verify
  <2> QED
    BY <2>1, FinishKeepsInv DEF AccountsInv, TypeOK
<1>3. CASE q.password = q.hash[1]
  <2>1. /\ credential' = AttemptsCleared /\ guesses' = 0
        /\ requests' = [requests EXCEPT ![r] = after]
        /\ UNCHANGED <<now, sessions>>
    BY <1>3 DEF Verify
  <2>2. after \in RequestType \cup {Idle}
    BY <1>1 DEF RequestType, Stages
  <2>3. TypeOK'
    BY <2>1, <2>2 DEF AccountsInv, TypeOK, AttemptsCleared
  <2>4. CounterCounts'
    BY <2>1 DEF AccountsInv, TypeOK, CounterCounts, AttemptsCleared
  <2>5. CopyKnowsTheLive'
    <3>1. ASSUME NEW s \in Requests, requests'[s] # Idle
          PROVE  /\ requests[s] # Idle
                 /\ requests'[s].loaded = requests[s].loaded
                 /\ requests'[s].seen = requests[s].seen
      BY <3>1, <2>1, <1>1 DEF AccountsInv, TypeOK, RequestType
    <3> QED
      BY <3>1, <2>1 DEF AccountsInv, CopyKnowsTheLive
  <2> QED
    BY <2>3, <2>4, <2>5 DEF AccountsInv
<1> QED
  BY <1>2, <1>3

\* A new session comes after every session of any copy.
LEMMA CreateSessionKeepsInv ==
    ASSUME AccountsInv, NEW r \in Requests, CreateSession(r)
    PROVE  AccountsInv'
<1> DEFINE q == requests[r]
           session == [hash |-> q.hash, authenticatedAt |-> q.at,
                       revoked |-> FALSE, tokenRevoked |-> FALSE]
<1>1. q \in RequestType
  BY BusyIsRequest DEF CreateSession, At, AccountsInv
<1>2. CASE ~ ProofIsCurrent(q)
  <2>1. Finish(r) /\ UNCHANGED <<credential, guesses, now, sessions>>
    BY <1>2 DEF CreateSession
  <2> QED
    BY <2>1, FinishKeepsInv DEF AccountsInv, TypeOK
<1>3. CASE ProofIsCurrent(q)
  <2>1. /\ sessions' = Append(sessions, session)
        /\ Finish(r) /\ UNCHANGED <<now, credential, guesses>>
    BY <1>3 DEF CreateSession
  <2>2. session \in SessionType
    BY <1>1 DEF RequestType, SessionType
  <2>3. /\ sessions' \in Seq(SessionType) /\ Len(sessions') = Len(sessions) + 1
        /\ Len(sessions) \in Nat
        /\ \A i \in 1 .. Len(sessions) : sessions'[i] = sessions[i]
    BY <2>1, <2>2 DEF AccountsInv, TypeOK
  <2>4. TypeOK'
    BY <2>1, <2>3 DEF AccountsInv, TypeOK, Finish
  <2>5. CounterCounts'
    BY <2>1 DEF AccountsInv, CounterCounts
  <2>6. CopyKnowsTheLive'
    <3>1. ASSUME NEW s \in Requests, requests'[s] # Idle
          PROVE  requests[s] # Idle /\ requests'[s] = requests[s] /\ requests[s].loaded \in Nat
      BY <3>1, <2>1 DEF AccountsInv, TypeOK, RequestType, Finish
    <3> QED
      BY <3>1, <2>3 DEF AccountsInv, CopyKnowsTheLive
  <2> QED
    BY <2>4, <2>5, <2>6 DEF AccountsInv
<1> QED
  BY <1>2, <1>3

\* Sessions that end are never live again.
LEMMA ChangePasswordKeepsInv ==
    ASSUME AccountsInv, NEW r \in Requests, NEW password \in Passwords,
           ChangePassword(r, password)
    PROVE  AccountsInv'
<1> USE AccountsAssumption
<1> DEFINE q == requests[r]
<1>1. q \in RequestType
  BY BusyIsRequest DEF ChangePassword, At, AccountsInv
<1>2. CASE ~ CanChangePassword(q)
  <2>1. Finish(r) /\ UNCHANGED <<credential, guesses, now, sessions>>
    BY <1>2 DEF ChangePassword
  <2> QED
    BY <2>1, FinishKeepsInv DEF AccountsInv, TypeOK
<1>3. CASE CanChangePassword(q)
  <2>1. /\ credential' = [hash |-> <<password, credential.hash[2] + 1>>,
                          failedAttempts |-> 0, blockedUntil |-> NotBlocked]
        /\ sessions' = Revoked(q.seen) /\ guesses' = 0
        /\ Finish(r) /\ UNCHANGED now
    BY <1>3 DEF ChangePassword
  <2>2. credential.hash[2] + 1 \in Nat
    BY DEF AccountsInv, TypeOK
  <2>3. /\ sessions' \in Seq(SessionType) /\ Len(sessions') = Len(sessions)
        /\ Len(sessions) \in Nat
        /\ \A i \in 1 .. Len(sessions) : ~ sessions'[i].revoked => ~ sessions[i].revoked
    <3>1. sessions \in Seq(SessionType) /\ Len(sessions) \in Nat
      BY DEF AccountsInv, TypeOK
    <3> QED
      BY <3>1, <2>1, RevokedSessions
  <2>4. TypeOK'
    BY <2>1, <2>2, <2>3 DEF AccountsInv, TypeOK, Finish
  <2>5. CounterCounts'
    BY <2>1 DEF CounterCounts
  <2>6. CopyKnowsTheLive'
    <3>1. ASSUME NEW s \in Requests, requests'[s] # Idle
          PROVE  requests[s] # Idle /\ requests'[s] = requests[s] /\ requests[s].loaded \in Nat
      BY <3>1, <2>1 DEF AccountsInv, TypeOK, RequestType, Finish
    <3> QED
      BY <3>1, <2>3 DEF AccountsInv, CopyKnowsTheLive
  <2> QED
    BY <2>4, <2>5, <2>6 DEF AccountsInv
<1> QED
  BY <1>2, <1>3

\* Logging out revokes one session and adds none.
LEMMA LogoutKeepsInv ==
    ASSUME AccountsInv, NEW i \in DOMAIN sessions, Logout(i)
    PROVE  AccountsInv'
<1>1. DOMAIN sessions = 1 .. Len(sessions) /\ Len(sessions) \in Nat
  BY DEF AccountsInv, TypeOK
<1>2. \A k \in 1 .. Len(sessions) : sessions[k] \in SessionType
  BY DEF AccountsInv, TypeOK
<1>3. sessions' = [sessions EXCEPT ![i] =
                      [sessions[i] EXCEPT !.revoked = TRUE, !.tokenRevoked = TRUE]]
  BY <1>1, <1>2 DEF Logout
<1>4. [sessions[i] EXCEPT !.revoked = TRUE, !.tokenRevoked = TRUE] \in SessionType
  BY <1>1, <1>2 DEF SessionType
<1>5. /\ sessions' \in Seq(SessionType) /\ Len(sessions') = Len(sessions)
      /\ \A k \in 1 .. Len(sessions) : ~ sessions'[k].revoked => ~ sessions[k].revoked
  BY <1>1, <1>2, <1>3, <1>4 DEF AccountsInv, TypeOK, SessionType
<1>6. TypeOK'
  BY <1>5 DEF Logout, AccountsInv, TypeOK
<1>7. CounterCounts'
  BY DEF Logout, AccountsInv, CounterCounts
<1>8. CopyKnowsTheLive'
  <2>1. ASSUME NEW s \in Requests, requests[s] # Idle
        PROVE  requests[s].loaded \in Nat
    BY <2>1 DEF AccountsInv, TypeOK, RequestType
  <2> QED
    BY <2>1, <1>1, <1>5 DEF Logout, AccountsInv, CopyKnowsTheLive
<1> QED
  BY <1>6, <1>7, <1>8 DEF AccountsInv

\* Every step of every thread, every logout and every setting of the clock keeps it.
LEMMA NextKeepsInv == AccountsInv /\ [Next]_vars => AccountsInv'
<1> SUFFICES ASSUME AccountsInv, [Next]_vars
             PROVE  AccountsInv'
  OBVIOUS
<1>1. CASE UNCHANGED vars
  BY <1>1 DEF vars, AccountsInv, TypeOK, CounterCounts, CopyKnowsTheLive
<1>2. ASSUME NEW r \in Requests, NEW kind \in {"login", "reauthenticate", "change"},
             NEW p \in Passwords, Load(r, kind, p)
      PROVE  AccountsInv'
  BY <1>2, LoadKeepsInv
<1>3. ASSUME NEW r \in Requests, BeginAttempt(r)
      PROVE  AccountsInv'
  BY <1>3, BeginAttemptKeepsInv
<1>4. ASSUME NEW r \in Requests, Verify(r)
      PROVE  AccountsInv'
  BY <1>4, VerifyKeepsInv
<1>5. ASSUME NEW r \in Requests, CreateSession(r)
      PROVE  AccountsInv'
  BY <1>5, CreateSessionKeepsInv
<1>6. ASSUME NEW r \in Requests, NEW p \in Passwords, ChangePassword(r, p)
      PROVE  AccountsInv'
  BY <1>6, ChangePasswordKeepsInv
<1>7. ASSUME NEW r \in Requests, Abandon(r)
      PROVE  AccountsInv'
  BY <1>7, FinishKeepsInv DEF Abandon, AccountsInv, TypeOK
<1>8. ASSUME NEW i \in DOMAIN sessions, Logout(i)
      PROVE  AccountsInv'
  BY <1>8, LogoutKeepsInv
<1>9. ASSUME NEW t \in Times, SetClock(t)
      PROVE  AccountsInv'
  BY <1>9, AccountsAssumption
  DEF SetClock, AccountsInv, TypeOK, CounterCounts, CopyKnowsTheLive
<1> QED
  BY <1>1, <1>2, <1>3, <1>4, <1>5, <1>6, <1>7, <1>8, <1>9 DEF Next

-----------------------------------------------------------------------------
\* Only create adds a session, and it compares the verifier of the proof with the row.
LEMMA OnlyCurrentProofsOpen ==
    ASSUME AccountsInv, [Next]_vars, Len(sessions') > Len(sessions)
    PROVE  sessions'[Len(sessions')].hash = credential.hash
<1>1. sessions \in Seq(SessionType) /\ Len(sessions) \in Nat
  BY DEF AccountsInv, TypeOK
<1>2. sessions' # sessions
  BY <1>1
<1>3. ASSUME NEW r \in Requests, CreateSession(r)
      PROVE  sessions'[Len(sessions')].hash = credential.hash
  <2> DEFINE session == [hash |-> requests[r].hash, authenticatedAt |-> requests[r].at,
                         revoked |-> FALSE, tokenRevoked |-> FALSE]
  <2>1. requests[r] \in RequestType
    BY <1>3, BusyIsRequest DEF CreateSession, At, AccountsInv
  <2>2. session \in SessionType
    BY <2>1 DEF RequestType, SessionType
  <2>3. sessions' = Append(sessions, session) /\ requests[r].hash = credential.hash
    BY <1>2, <1>3 DEF CreateSession, ProofIsCurrent
  <2>4. sessions'[Len(sessions')] = session
    <3> HIDE DEF session
    <3> QED
      BY <1>1, <2>2, <2>3
  <2> QED
    BY <2>3, <2>4
<1>4. ASSUME NEW r \in Requests, NEW p \in Passwords, ChangePassword(r, p)
      PROVE  FALSE
  <2>1. sessions' = Revoked(requests[r].seen)
    BY <1>2, <1>4 DEF ChangePassword
  <2>2. Len(sessions') = Len(sessions)
    BY <1>1, <2>1, RevokedSessions
  <2> QED
    BY <1>1, <2>2
<1>5. ASSUME NEW i \in DOMAIN sessions, Logout(i)
      PROVE  FALSE
  BY <1>1, <1>5 DEF Logout
<1>6. \E r \in Requests : CreateSession(r) \/ (\E p \in Passwords : ChangePassword(r, p))
  BY <1>2, <1>5
  DEF Next, vars, Load, BeginAttempt, Verify, Abandon, SetClock
<1> QED
  BY <1>3, <1>4, <1>6

\* Only a password change replaces the verifier, and it revokes what its copy shows as
\* live; what is live beyond that is not in the copy.
LEMMA OnlyChangesReplaceTheVerifier ==
    ASSUME AccountsInv, [Next]_vars, credential'.hash # credential.hash
    PROVE  \E r \in Requests :
              /\ At(r, "verified") /\ requests'[r] = Idle
              /\ NotRevoked' \cap (1 .. requests[r].loaded) = {}
<1>1. /\ sessions \in Seq(SessionType) /\ Len(sessions) \in Nat
      /\ requests \in [Requests -> RequestType \cup {Idle}]
      /\ credential \in [hash : Passwords \X Nat, failedAttempts : Nat,
                         blockedUntil : Nat \cup {NotBlocked}]
  BY DEF AccountsInv, TypeOK
<1>2. credential' # credential
  OBVIOUS
<1>3. ASSUME NEW r \in Requests, BeginAttempt(r)
      PROVE  FALSE
  BY <1>1, <1>3 DEF BeginAttempt, CountedAttempt
<1>4. ASSUME NEW r \in Requests, Verify(r)
      PROVE  FALSE
  BY <1>1, <1>4 DEF Verify, AttemptsCleared
<1>5. PICK r \in Requests, p \in Passwords : ChangePassword(r, p)
  BY <1>2, <1>3, <1>4 DEF Next, vars, Load, CreateSession, Abandon, Logout, SetClock
<1>6. /\ At(r, "verified") /\ Finish(r)
      /\ sessions' = Revoked(requests[r].seen)
  BY <1>2, <1>5 DEF ChangePassword
<1>7. requests[r] \in RequestType /\ requests[r] # Idle
  BY <1>6, BusyIsRequest DEF At, AccountsInv
<1>8. /\ requests[r].loaded \in Nat /\ requests[r].loaded <= Len(sessions)
      /\ \A i \in 1 .. requests[r].loaded : ~ sessions[i].revoked => i \in requests[r].seen
  BY <1>7 DEF AccountsInv, CopyKnowsTheLive, RequestType
<1>9. \A i \in 1 .. Len(sessions) :
         ~ sessions'[i].revoked => ~ sessions[i].revoked /\ i \notin requests[r].seen
  BY <1>1, <1>6, RevokedSessions
<1>10. \A i \in 1 .. requests[r].loaded : sessions'[i].revoked
  BY <1>1, <1>8, <1>9
<1>11. NotRevoked' \cap (1 .. requests[r].loaded) = {}
  BY <1>10 DEF NotRevoked
<1>12. requests'[r] = Idle
  BY <1>1, <1>6 DEF Finish
<1> QED
  BY <1>6, <1>11, <1>12

-----------------------------------------------------------------------------
\* The invariant of the account tables and of the request threads holds always.
THEOREM AccountsInvariant == Spec => []AccountsInv
<1>1. Init => AccountsInv
  BY InitEstablishesInv
<1>2. AccountsInv /\ [Next]_vars => AccountsInv'
  BY NextKeepsInv
<1> QED
  BY <1>1, <1>2, PTL DEF Spec

\* For any number of threads, any limit and any clock: no more verifiers are handed out
\* between two resets of the counter than the policy allows (begin_attempt).
THEOREM GuessesBound == Spec => []GuessesAreBounded
<1>1. AccountsInv => GuessesAreBounded
  BY DEF AccountsInv, CounterCounts, GuessesAreBounded
<1> QED
  BY <1>1, AccountsInvariant, PTL

\* A session is opened only by a proof made with the password of that moment
\* (BrowserSessionRepository::create).
THEOREM SessionsAreCurrent == Spec => SessionsOpenUnderTheCurrentPassword
<1>1. AccountsInv /\ [Next]_vars =>
         [Len(sessions') > Len(sessions) =>
            sessions'[Len(sessions')].hash = credential.hash]_vars
  BY OnlyCurrentProofsOpen
<1> QED
  BY <1>1, AccountsInvariant, PTL DEF Spec, SessionsOpenUnderTheCurrentPassword

\* A change of the password ends every session of the copy it worked on
\* (replace_password_and_revoke_sessions).
THEOREM ChangesEndSessions == Spec => ChangeEndsEarlierSessions
<1>1. AccountsInv /\ [Next]_vars =>
         [credential'.hash # credential.hash =>
            \E r \in Requests :
               /\ At(r, "verified") /\ requests'[r] = Idle
               /\ NotRevoked' \cap (1 .. requests[r].loaded) = {}]_vars
  BY OnlyChangesReplaceTheVerifier
<1> QED
  BY <1>1, AccountsInvariant, PTL DEF Spec, ChangeEndsEarlierSessions
=============================================================================
