------------------------- MODULE OidcProviderProofs -------------------------
(***************************************************************************)
(* Proofs about the authorization code flow, for any number of clients,    *)
(* sessions, requests and rows and for all lifetimes.                      *)
(*                                                                         *)
(* None of the properties is inductive.  What is missing is what a request *)
(* knows between its transactions: OidcInv says that a request that has    *)
(* consumed a code is the only one that holds it, that no token has come   *)
(* of it yet, and that a request whose session had been logged out when it *)
(* took the code never gets past its look at the session.                  *)
(***************************************************************************)
EXTENDS OidcProvider, TLAPS

Approving ==
    {<<"session", "client", "approve">>, <<"client", "approve">>, <<"approve">>}

Presenting ==
    {<<"client", "consume", "session", "issue">>, <<"consume", "session", "issue">>}

Holding == {<<"session", "issue">>, <<"issue">>}

Remaining ==
    {<<"session", "client", "insert">>, <<"client", "insert">>, <<"insert">>}
        \cup Approving \cup Presenting \cup Holding

(***************************************************************************)
(* Each row names the row it came of, agrees with it and expires in time.  *)
(***************************************************************************)
CodesFollow ==
    \A i \in DOMAIN codes :
        LET t == transactions[codes[i].transaction] IN
        /\ codes[i].transaction \in DOMAIN transactions
        /\ t.consumed
        /\ t.client = codes[i].client /\ t.session = codes[i].session
        /\ codes[i].expiresAt < t.expiresAt + CodeLifetime

TokensFollow ==
    \A i \in DOMAIN tokens :
        LET k == codes[tokens[i].code] IN
        /\ tokens[i].code \in DOMAIN codes
        /\ k.consumed
        /\ k.client = tokens[i].client /\ k.session = tokens[i].session
        /\ tokens[i].expiresAt < k.expiresAt + TokenLifetime

(***************************************************************************)
(* A code or token of a client that is still active has its consent; a     *)
(* code is only revoked with its client.                                   *)
(***************************************************************************)
ConsentsStand ==
    /\ \A i \in DOMAIN codes : codes[i].client \in activeClients =>
          <<UserOf[codes[i].session], codes[i].client>> \in consents
    /\ \A i \in DOMAIN tokens : tokens[i].client \in activeClients =>
          <<UserOf[tokens[i].session], tokens[i].client>> \in consents

(***************************************************************************)
(* What a request knows between two of its transactions.                   *)
(***************************************************************************)
RequestInv(q) ==
    /\ q.steps \in Approving => q.row \in DOMAIN transactions
    /\ q.steps \in Presenting \cup Holding =>
          q.row \in DOMAIN codes /\ q.session = codes[q.row].session
    /\ q.steps \in Holding =>
          /\ codes[q.row].consumed
          /\ codes[q.row].client = q.client
          /\ q.at < codes[q.row].expiresAt
          /\ \A i \in DOMAIN tokens : tokens[i].code # q.row
          /\ q.late => q.session \in loggedOut /\ q.steps # <<"issue">>

RequestsKnow ==
    /\ \A r \in Requests : requests[r].steps \in Remaining \cup {<<>>}
    /\ \A r \in Requests : RequestInv(requests[r])
    /\ \A r, s \in Requests :
          /\ requests[r].steps \in Holding /\ requests[s].steps \in Holding
          /\ requests[r].row = requests[s].row
          => r = s

OidcInv ==
    /\ TypeOK
    /\ CodesFollow
    /\ TokensFollow
    /\ ConsentsStand
    /\ RequestsKnow
    /\ GrantsAreUsedOnce
    /\ NothingOutlivesItsClient
    /\ NoTokenAfterLogout

-----------------------------------------------------------------------------
(***************************************************************************)
(* A function from the row numbers of a table to rows is a table.          *)
(***************************************************************************)
LEMMA IsTable ==
    ASSUME NEW Row, NEW n \in Nat, NEW table \in [1 .. n -> Row]
    PROVE  table \in Seq(Row)
  OBVIOUS

MarkConsumed(table, n) == [table EXCEPT ![n].consumed = TRUE]

(***************************************************************************)
(* Marking a row consumed (the UPDATE at the end of approve_transaction    *)
(* and of consume_code) leaves its other columns and all other rows alone. *)
(***************************************************************************)
LEMMA TransactionConsumed ==
    ASSUME NEW table \in Seq(TransactionRow), NEW n \in DOMAIN table,
           NEW new, new = MarkConsumed(table, n)
    PROVE  /\ new \in Seq(TransactionRow)
           /\ DOMAIN new = DOMAIN table
           /\ \A i \in DOMAIN table :
                 /\ new[i].client = table[i].client
                 /\ new[i].session = table[i].session
                 /\ new[i].expiresAt = table[i].expiresAt
                 /\ new[i].revoked = table[i].revoked
                 /\ new[i].consumed = (table[i].consumed \/ i = n)
  <1>1. /\ DOMAIN table = 1 .. Len(table) /\ Len(table) \in Nat
        /\ \A i \in DOMAIN table : table[i] \in TransactionRow
    OBVIOUS
  <1>2. /\ DOMAIN new = DOMAIN table
        /\ \A i \in DOMAIN table :
              new[i] = IF i = n THEN [table[n] EXCEPT !.consumed = TRUE] ELSE table[i]
    BY DEF MarkConsumed
  <1>3. ASSUME NEW i \in DOMAIN table
        PROVE  /\ new[i] \in TransactionRow
               /\ new[i].client = table[i].client
               /\ new[i].session = table[i].session
               /\ new[i].expiresAt = table[i].expiresAt
               /\ new[i].revoked = table[i].revoked
               /\ new[i].consumed = (table[i].consumed \/ i = n)
    <2>1. table[i] \in TransactionRow
      BY <1>1
    <2>2. CASE i = n
      BY <1>2, <2>1, <2>2 DEF TransactionRow
    <2>3. CASE i # n
      BY <1>2, <2>1, <2>3 DEF TransactionRow
    <2> QED
      BY <2>2, <2>3
  <1>4. new \in [1 .. Len(table) -> TransactionRow]
    <2>1. new = [i \in 1 .. Len(table) |-> new[i]]
      BY <1>1 DEF MarkConsumed
    <2> QED
      BY <1>1, <1>3, <2>1
  <1>5. new \in Seq(TransactionRow)
    BY <1>1, <1>4, IsTable
  <1> QED
    BY <1>2, <1>3, <1>5

(***************************************************************************)
(* The same for a code.                                                    *)
(***************************************************************************)
LEMMA CodeConsumed ==
    ASSUME NEW table \in Seq(CodeRow), NEW n \in DOMAIN table,
           NEW new, new = MarkConsumed(table, n)
    PROVE  /\ new \in Seq(CodeRow)
           /\ DOMAIN new = DOMAIN table
           /\ \A i \in DOMAIN table :
                 /\ new[i].transaction = table[i].transaction
                 /\ new[i].client = table[i].client
                 /\ new[i].session = table[i].session
                 /\ new[i].expiresAt = table[i].expiresAt
                 /\ new[i].revoked = table[i].revoked
                 /\ new[i].consumed = (table[i].consumed \/ i = n)
  <1>1. /\ DOMAIN table = 1 .. Len(table) /\ Len(table) \in Nat
        /\ \A i \in DOMAIN table : table[i] \in CodeRow
    OBVIOUS
  <1>2. /\ DOMAIN new = DOMAIN table
        /\ \A i \in DOMAIN table :
              new[i] = IF i = n THEN [table[n] EXCEPT !.consumed = TRUE] ELSE table[i]
    BY DEF MarkConsumed
  <1>3. ASSUME NEW i \in DOMAIN table
        PROVE  /\ new[i] \in CodeRow
               /\ new[i].transaction = table[i].transaction
               /\ new[i].client = table[i].client
               /\ new[i].session = table[i].session
               /\ new[i].expiresAt = table[i].expiresAt
               /\ new[i].revoked = table[i].revoked
               /\ new[i].consumed = (table[i].consumed \/ i = n)
    <2>1. table[i] \in CodeRow
      BY <1>1
    <2>2. CASE i = n
      BY <1>2, <2>1, <2>2 DEF CodeRow
    <2>3. CASE i # n
      BY <1>2, <2>1, <2>3 DEF CodeRow
    <2> QED
      BY <2>2, <2>3
  <1>4. new \in [1 .. Len(table) -> CodeRow]
    <2>1. new = [i \in 1 .. Len(table) |-> new[i]]
      BY <1>1 DEF MarkConsumed
    <2> QED
      BY <1>1, <1>3, <2>1
  <1>5. new \in Seq(CodeRow)
    BY <1>1, <1>4, IsTable
  <1> QED
    BY <1>2, <1>3, <1>5

(***************************************************************************)
(* revoke_for_installation revokes the rows of its client, in each table,  *)
(* and changes no other column.                                            *)
(***************************************************************************)
LEMMA TransactionsRevoked ==
    ASSUME NEW table \in Seq(TransactionRow), NEW c \in Clients,
           NEW new, new = RevokedFor(c, table)
    PROVE  /\ new \in Seq(TransactionRow)
           /\ DOMAIN new = DOMAIN table
           /\ \A i \in DOMAIN table :
                 /\ new[i].client = table[i].client
                 /\ new[i].session = table[i].session
                 /\ new[i].expiresAt = table[i].expiresAt
                 /\ new[i].consumed = table[i].consumed
                 /\ new[i].revoked = (table[i].revoked \/ table[i].client = c)
  <1>1. /\ DOMAIN table = 1 .. Len(table) /\ Len(table) \in Nat
        /\ \A i \in DOMAIN table : table[i] \in TransactionRow
    OBVIOUS
  <1> DEFINE mark(i) == table[i].revoked \/ table[i].client = c
  <1>2. new = [i \in 1 .. Len(table) |-> [table[i] EXCEPT !.revoked = mark(i)]]
    BY <1>1 DEF RevokedFor, TransactionRow
  <1>3. \A i \in DOMAIN table : mark(i) \in BOOLEAN
    OBVIOUS
  <1> HIDE DEF mark
  <1>4. \A i \in DOMAIN table :
            /\ new[i] \in TransactionRow
            /\ new[i].client = table[i].client
            /\ new[i].session = table[i].session
            /\ new[i].expiresAt = table[i].expiresAt
            /\ new[i].consumed = table[i].consumed
            /\ new[i].revoked = mark(i)
    BY <1>1, <1>2, <1>3 DEF TransactionRow
  <1>5. new \in [1 .. Len(table) -> TransactionRow]
    BY <1>1, <1>2, <1>4
  <1> QED
    BY <1>1, <1>2, <1>4, <1>5, IsTable DEF mark

(***************************************************************************)
(* The same for codes.                                                     *)
(***************************************************************************)
LEMMA CodesRevoked ==
    ASSUME NEW table \in Seq(CodeRow), NEW c \in Clients,
           NEW new, new = RevokedFor(c, table)
    PROVE  /\ new \in Seq(CodeRow)
           /\ DOMAIN new = DOMAIN table
           /\ \A i \in DOMAIN table :
                 /\ new[i].transaction = table[i].transaction
                 /\ new[i].client = table[i].client
                 /\ new[i].session = table[i].session
                 /\ new[i].expiresAt = table[i].expiresAt
                 /\ new[i].consumed = table[i].consumed
                 /\ new[i].revoked = (table[i].revoked \/ table[i].client = c)
  <1>1. /\ DOMAIN table = 1 .. Len(table) /\ Len(table) \in Nat
        /\ \A i \in DOMAIN table : table[i] \in CodeRow
    OBVIOUS
  <1> DEFINE mark(i) == table[i].revoked \/ table[i].client = c
  <1>2. new = [i \in 1 .. Len(table) |-> [table[i] EXCEPT !.revoked = mark(i)]]
    BY <1>1 DEF RevokedFor, CodeRow
  <1>3. \A i \in DOMAIN table : mark(i) \in BOOLEAN
    OBVIOUS
  <1> HIDE DEF mark
  <1>4. \A i \in DOMAIN table :
            /\ new[i] \in CodeRow
            /\ new[i].transaction = table[i].transaction
            /\ new[i].client = table[i].client
            /\ new[i].session = table[i].session
            /\ new[i].expiresAt = table[i].expiresAt
            /\ new[i].consumed = table[i].consumed
            /\ new[i].revoked = mark(i)
    BY <1>1, <1>2, <1>3 DEF CodeRow
  <1>5. new \in [1 .. Len(table) -> CodeRow]
    BY <1>1, <1>2, <1>4
  <1> QED
    BY <1>1, <1>2, <1>4, <1>5, IsTable DEF mark

(***************************************************************************)
(* The same for tokens.                                                    *)
(***************************************************************************)
LEMMA TokensRevoked ==
    ASSUME NEW table \in Seq(TokenRow), NEW c \in Clients,
           NEW new, new = RevokedFor(c, table)
    PROVE  /\ new \in Seq(TokenRow)
           /\ DOMAIN new = DOMAIN table
           /\ \A i \in DOMAIN table :
                 /\ new[i].code = table[i].code
                 /\ new[i].client = table[i].client
                 /\ new[i].session = table[i].session
                 /\ new[i].expiresAt = table[i].expiresAt
                 /\ new[i].late = table[i].late
                 /\ new[i].revoked = (table[i].revoked \/ table[i].client = c)
  <1>1. /\ DOMAIN table = 1 .. Len(table) /\ Len(table) \in Nat
        /\ \A i \in DOMAIN table : table[i] \in TokenRow
    OBVIOUS
  <1> DEFINE mark(i) == table[i].revoked \/ table[i].client = c
  <1>2. new = [i \in 1 .. Len(table) |-> [table[i] EXCEPT !.revoked = mark(i)]]
    BY <1>1 DEF RevokedFor, TokenRow
  <1>3. \A i \in DOMAIN table : mark(i) \in BOOLEAN
    OBVIOUS
  <1> HIDE DEF mark
  <1>4. \A i \in DOMAIN table :
            /\ new[i] \in TokenRow
            /\ new[i].code = table[i].code
            /\ new[i].client = table[i].client
            /\ new[i].session = table[i].session
            /\ new[i].expiresAt = table[i].expiresAt
            /\ new[i].late = table[i].late
            /\ new[i].revoked = mark(i)
    BY <1>1, <1>2, <1>3 DEF TokenRow
  <1>5. new \in [1 .. Len(table) -> TokenRow]
    BY <1>1, <1>2, <1>4
  <1> QED
    BY <1>1, <1>2, <1>4, <1>5, IsTable DEF mark

MarkRevoked(table, n) == [table EXCEPT ![n].revoked = TRUE]

(***************************************************************************)
(* revoke_access revokes one token.                                        *)
(***************************************************************************)
LEMMA TokenRevoked ==
    ASSUME NEW table \in Seq(TokenRow), NEW n \in DOMAIN table,
           NEW new, new = MarkRevoked(table, n)
    PROVE  /\ new \in Seq(TokenRow)
           /\ DOMAIN new = DOMAIN table
           /\ \A i \in DOMAIN table :
                 /\ new[i].code = table[i].code
                 /\ new[i].client = table[i].client
                 /\ new[i].session = table[i].session
                 /\ new[i].expiresAt = table[i].expiresAt
                 /\ new[i].late = table[i].late
                 /\ new[i].revoked = (table[i].revoked \/ i = n)
  <1>1. /\ DOMAIN table = 1 .. Len(table) /\ Len(table) \in Nat
        /\ \A i \in DOMAIN table : table[i] \in TokenRow
    OBVIOUS
  <1>2. /\ DOMAIN new = DOMAIN table
        /\ \A i \in DOMAIN table :
              new[i] = IF i = n THEN [table[n] EXCEPT !.revoked = TRUE] ELSE table[i]
    BY DEF MarkRevoked
  <1>3. ASSUME NEW i \in DOMAIN table
        PROVE  /\ new[i] \in TokenRow
               /\ new[i].code = table[i].code
               /\ new[i].client = table[i].client
               /\ new[i].session = table[i].session
               /\ new[i].expiresAt = table[i].expiresAt
               /\ new[i].late = table[i].late
               /\ new[i].revoked = (table[i].revoked \/ i = n)
    <2>1. table[i] \in TokenRow
      BY <1>1
    <2>2. CASE i = n
      BY <1>2, <2>1, <2>2 DEF TokenRow
    <2>3. CASE i # n
      BY <1>2, <2>1, <2>3 DEF TokenRow
    <2> QED
      BY <2>2, <2>3
  <1>4. new \in [1 .. Len(table) -> TokenRow]
    <2>1. new = [i \in 1 .. Len(table) |-> new[i]]
      BY <1>1 DEF MarkRevoked
    <2> QED
      BY <1>1, <1>3, <2>1
  <1>5. new \in Seq(TokenRow)
    BY <1>1, <1>4, IsTable
  <1> QED
    BY <1>2, <1>3, <1>5

-----------------------------------------------------------------------------
(***************************************************************************)
(* The steps that may remain are sequences of steps.                       *)
(***************************************************************************)
LEMMA RemainingIsTyped ==
    Remaining \subseteq
        Seq({"session", "client", "insert", "approve", "consume", "issue"}) \ {<<>>}
  <1> DEFINE Steps == {"session", "client", "insert", "approve", "consume", "issue"}
  <1>1. /\ <<"session", "client", "insert">> \in Seq(Steps) \ {<<>>}
        /\ <<"client", "insert">> \in Seq(Steps) \ {<<>>}
        /\ <<"insert">> \in Seq(Steps) \ {<<>>}
    OBVIOUS
  <1>2. /\ <<"session", "client", "approve">> \in Seq(Steps) \ {<<>>}
        /\ <<"client", "approve">> \in Seq(Steps) \ {<<>>}
        /\ <<"approve">> \in Seq(Steps) \ {<<>>}
    OBVIOUS
  <1>3. /\ <<"client", "consume", "session", "issue">> \in Seq(Steps) \ {<<>>}
        /\ <<"consume", "session", "issue">> \in Seq(Steps) \ {<<>>}
        /\ <<"session", "issue">> \in Seq(Steps) \ {<<>>}
        /\ <<"issue">> \in Seq(Steps) \ {<<>>}
    OBVIOUS
  <1> HIDE DEF Steps
  <1>4. Remaining \subseteq Seq(Steps) \ {<<>>}
    BY <1>1, <1>2, <1>3 DEF Remaining, Approving, Presenting, Holding
  <1> QED
    BY <1>4 DEF Steps

(***************************************************************************)
(* What is left of a request whose next step is known.                     *)
(***************************************************************************)
LEMMA StepsOfDoing ==
    ASSUME TypeOK, RequestsKnow, NEW r \in Requests, NEW step, Doing(r, step)
    PROVE  /\ requests[r] \in Request
           /\ step = "session" => requests[r].steps \in
                 {<<"session", "client", "insert">>, <<"session", "client", "approve">>,
                  <<"session", "issue">>}
           /\ step = "client" => requests[r].steps \in
                 {<<"client", "insert">>, <<"client", "approve">>,
                  <<"client", "consume", "session", "issue">>}
           /\ step = "insert" => requests[r].steps = <<"insert">>
           /\ step = "approve" => requests[r].steps = <<"approve">>
           /\ step = "consume" => requests[r].steps = <<"consume", "session", "issue">>
           /\ step = "issue" => requests[r].steps = <<"issue">>
  <1>1. requests[r].steps \in Remaining /\ requests[r].steps # <<>>
    BY DEF RequestsKnow, Doing
  <1>2. requests[r] \in Request
    BY <1>1 DEF TypeOK, Idle
  <1>3. Head(requests[r].steps) = step
    BY DEF Doing
  <1> QED
    BY <1>1, <1>2, <1>3 DEF Remaining, Approving, Presenting, Holding

(***************************************************************************)
(* The tables are only added to, and a code keeps what a request that read *)
(* it relies on.                                                           *)
(***************************************************************************)
TablesKeep ==
    /\ loggedOut \subseteq loggedOut'
    /\ DOMAIN transactions \subseteq DOMAIN transactions'
    /\ DOMAIN codes \subseteq DOMAIN codes'
    /\ \A i \in DOMAIN codes :
          /\ codes'[i].session = codes[i].session
          /\ codes'[i].client = codes[i].client
          /\ codes'[i].expiresAt = codes[i].expiresAt
          /\ codes[i].consumed => codes'[i].consumed

StillNoTokenOf(row) == \A i \in DOMAIN tokens' : tokens'[i].code # row

(***************************************************************************)
(* One request moves on to q; the others keep what they know.              *)
(***************************************************************************)
LEMMA OneRequestMoves ==
    ASSUME TypeOK, RequestsKnow, TablesKeep,
           NEW r \in Requests, NEW q \in Request \cup {Idle},
           requests' = [requests EXCEPT ![r] = q],
           q.steps \in Remaining \cup {<<>>},
           RequestInv(q)',
           \A s \in Requests \ {r} : requests[s].steps \in Holding =>
               /\ StillNoTokenOf(requests[s].row)
               /\ q.steps \in Holding => requests[s].row # q.row
    PROVE  /\ requests' \in [Requests -> Request \cup {Idle}]
           /\ RequestsKnow'
  <1>1. /\ requests' \in [Requests -> Request \cup {Idle}]
        /\ requests'[r] = q
        /\ \A s \in Requests \ {r} : requests'[s] = requests[s]
    BY DEF TypeOK
  <1>2. ASSUME NEW s \in Requests
        PROVE  RequestInv(requests[s])'
    <2>1. CASE s = r
      BY <1>1, <2>1 DEF RequestInv
    <2>2. CASE s # r
      <3>1. RequestInv(requests[s]) /\ requests'[s] = requests[s]
        BY <1>1, <2>2 DEF RequestsKnow
      <3> QED
        BY <2>2, <3>1 DEF RequestInv, TablesKeep, StillNoTokenOf
    <2> QED
      BY <2>1, <2>2
  <1>3. \A s \in Requests : requests'[s].steps \in Remaining \cup {<<>>}
    BY <1>1 DEF RequestsKnow
  <1>4. \A s, t \in Requests :
            /\ requests'[s].steps \in Holding /\ requests'[t].steps \in Holding
            /\ requests'[s].row = requests'[t].row
            => s = t
    BY <1>1 DEF RequestsKnow
  <1> QED
    BY <1>1, <1>2, <1>3, <1>4 DEF RequestsKnow

(***************************************************************************)
(* A request that ends knows nothing.                                      *)
(***************************************************************************)
LEMMA FinishKeepsRequests ==
    ASSUME TypeOK, RequestsKnow, TablesKeep, NEW r \in Requests, Finish(r),
           \A s \in Requests \ {r} :
               requests[s].steps \in Holding => StillNoTokenOf(requests[s].row)
    PROVE  /\ requests' \in [Requests -> Request \cup {Idle}]
           /\ RequestsKnow'
  <1>1. Idle.steps = <<>> /\ <<>> \notin Approving \cup Presenting \cup Holding
    BY DEF Idle, Approving, Presenting, Holding
  <1>2. RequestInv(Idle)'
    BY <1>1 DEF RequestInv
  <1> QED
    BY <1>1, <1>2, OneRequestMoves DEF Finish

(***************************************************************************)
(* A step of no request leaves all of them what they know.                 *)
(***************************************************************************)
LEMMA RequestsStand ==
    ASSUME RequestsKnow, TablesKeep, requests' = requests,
           DOMAIN tokens' = DOMAIN tokens,
           \A i \in DOMAIN tokens : tokens'[i].code = tokens[i].code
    PROVE  RequestsKnow'
  <1>1. ASSUME NEW r \in Requests
        PROVE  RequestInv(requests[r])'
    <2>1. RequestInv(requests[r])
      BY DEF RequestsKnow
    <2> QED
      BY <2>1 DEF RequestInv, TablesKeep
  <1> QED
    BY <1>1 DEF RequestsKnow

(***************************************************************************)
(* The part of the invariant that is about the tables and the clients.     *)
(***************************************************************************)
TablesInv ==
    /\ CodesFollow
    /\ TokensFollow
    /\ ConsentsStand
    /\ GrantsAreUsedOnce
    /\ NothingOutlivesItsClient
    /\ NoTokenAfterLogout

\* The invariant of the tables speaks of the tables and the clients only.
LEMMA TablesInvUnchanged ==
    ASSUME TablesInv, UNCHANGED <<activeClients, tables>>
    PROVE  TablesInv'
  BY DEF TablesInv, tables, CodesFollow, TokensFollow, ConsentsStand,
         GrantsAreUsedOnce, NothingOutlivesItsClient, NoTokenAfterLogout

(***************************************************************************)
(* A request that starts names rows that exist.                            *)
(***************************************************************************)
LEMMA StartKeepsInv ==
    ASSUME OidcInv, NEW r \in Requests, NEW steps, NEW c \in Clients, NEW s \in Sessions,
           NEW row \in Nat, Start(r, steps, c, s, row),
           \/ steps = <<"session", "client", "insert">>
           \/ steps = <<"session", "client", "approve">> /\ row \in DOMAIN transactions
           \/ /\ steps = <<"client", "consume", "session", "issue">>
              /\ row \in DOMAIN codes /\ s = codes[row].session
    PROVE  OidcInv'
  <1> PICK q : q = [steps |-> steps, at |-> now, client |-> c, session |-> s,
                    row |-> row, late |-> FALSE]
    OBVIOUS
  <1>1. UNCHANGED <<now, loggedOut, activeClients, tables>>
    BY DEF Start
  <1>2. TablesInv'
    BY <1>1, TablesInvUnchanged DEF OidcInv, TablesInv
  <1>3. /\ q \in Request
        /\ q.steps \in Remaining /\ q.steps \notin Holding
    <2>1. steps \in Remaining /\ steps \notin Holding
      BY DEF Remaining, Approving, Presenting, Holding
    <2> QED
      BY <2>1, RemainingIsTyped DEF Request, OidcInv, TypeOK
  <1>4. TablesKeep
    BY <1>1 DEF TablesKeep, tables
  <1>5. RequestInv(q)'
    BY <1>1, <1>3 DEF RequestInv, tables, Approving, Presenting, Holding
  <1>6. \A t \in Requests : requests[t].steps \in Holding => StillNoTokenOf(requests[t].row)
    BY <1>1 DEF OidcInv, RequestsKnow, RequestInv, StillNoTokenOf, tables
  <1>7. requests' \in [Requests -> Request \cup {Idle}] /\ RequestsKnow'
    <2>1. requests' = [requests EXCEPT ![r] = q]
      BY DEF Start
    <2> QED
      BY <1>3, <1>4, <1>5, <1>6, <2>1, OneRequestMoves DEF OidcInv
  <1>8. TypeOK'
    BY <1>1, <1>7 DEF TypeOK, OidcInv, tables
  <1> QED
    BY <1>2, <1>7, <1>8 DEF OidcInv, TablesInv

(***************************************************************************)
(* A request that ends and changes nothing.                                *)
(***************************************************************************)
LEMMA FinishKeepsInv ==
    ASSUME OidcInv, NEW r \in Requests, Finish(r),
           UNCHANGED <<now, loggedOut, activeClients, tables>>
    PROVE  OidcInv'
  <1>1. TablesInv'
    BY TablesInvUnchanged DEF OidcInv, TablesInv
  <1>2. TablesKeep
    BY DEF TablesKeep, tables
  <1>3. \A t \in Requests :
            requests[t].steps \in Holding => StillNoTokenOf(requests[t].row)
    BY DEF OidcInv, RequestsKnow, RequestInv, StillNoTokenOf, tables
  <1>4. requests' \in [Requests -> Request \cup {Idle}] /\ RequestsKnow'
    BY <1>2, <1>3, FinishKeepsRequests DEF OidcInv
  <1>5. TypeOK'
    BY <1>4 DEF TypeOK, OidcInv, tables
  <1> QED
    BY <1>1, <1>4, <1>5 DEF OidcInv, TablesInv

(***************************************************************************)
(* A request that goes on to its next step and changes nothing else: it    *)
(* holds a code afterwards only if it held it before, and gets to issuing  *)
(* only while its session is not logged out.                               *)
(***************************************************************************)
LEMMA AdvanceKeepsInv ==
    ASSUME OidcInv, NEW r \in Requests, Advance(r),
           \/ Doing(r, "client")
           \/ Doing(r, "session") /\ requests[r].session \notin loggedOut,
           UNCHANGED <<now, loggedOut, activeClients, tables>>
    PROVE  OidcInv'
  <1> PICK p : p = requests[r]
    OBVIOUS
  <1> PICK q : q = [p EXCEPT !.steps = Tail(@)]
    OBVIOUS
  <1>1. p \in Request
    BY StepsOfDoing DEF OidcInv
  <1>2. p.steps \in {<<"session", "client", "insert">>, <<"session", "client", "approve">>,
                     <<"session", "issue">>, <<"client", "insert">>,
                     <<"client", "approve">>, <<"client", "consume", "session", "issue">>}
    BY StepsOfDoing DEF OidcInv
  <1>3. /\ q.steps = Tail(p.steps)
        /\ q.at = p.at /\ q.client = p.client /\ q.session = p.session
        /\ q.row = p.row /\ q.late = p.late
        /\ q \in [steps : {Tail(p.steps)}, at : 0 .. MaxTime, client : Clients,
                  session : Sessions, row : Nat, late : BOOLEAN]
    BY <1>1 DEF Request
  <1>4. /\ q.steps \in Remaining
        /\ q.steps \in Approving => p.steps \in Approving
        /\ q.steps \in Presenting => p.steps \in Presenting
        /\ q.steps \in Holding => p.steps = <<"session", "issue">>
    <2>1. CASE p.steps = <<"session", "client", "insert">>
      <3>1. q.steps = <<"client", "insert">>
        BY <1>3, <2>1
      <3> QED
        BY <2>1, <3>1 DEF Remaining, Approving, Presenting, Holding
    <2>2. CASE p.steps = <<"session", "client", "approve">>
      <3>1. q.steps = <<"client", "approve">>
        BY <1>3, <2>2
      <3> QED
        BY <2>2, <3>1 DEF Remaining, Approving, Presenting, Holding
    <2>3. CASE p.steps = <<"session", "issue">>
      <3>1. q.steps = <<"issue">>
        BY <1>3, <2>3
      <3> QED
        BY <2>3, <3>1 DEF Remaining, Approving, Presenting, Holding
    <2>4. CASE p.steps = <<"client", "insert">>
      <3>1. q.steps = <<"insert">>
        BY <1>3, <2>4
      <3> QED
        BY <2>4, <3>1 DEF Remaining, Approving, Presenting, Holding
    <2>5. CASE p.steps = <<"client", "approve">>
      <3>1. q.steps = <<"approve">>
        BY <1>3, <2>5
      <3> QED
        BY <2>5, <3>1 DEF Remaining, Approving, Presenting, Holding
    <2>6. CASE p.steps = <<"client", "consume", "session", "issue">>
      <3>1. q.steps = <<"consume", "session", "issue">>
        BY <1>3, <2>6
      <3> QED
        BY <2>6, <3>1 DEF Remaining, Approving, Presenting, Holding
    <2> QED
      BY <1>2, <2>1, <2>2, <2>3, <2>4, <2>5, <2>6
  <1>5. q \in Request
    BY <1>3, <1>4, RemainingIsTyped DEF Request
  <1>6. requests' = [requests EXCEPT ![r] = q]
    BY DEF Advance, OidcInv, TypeOK
  <1>7. TablesKeep
    BY DEF TablesKeep, tables
  <1>8. RequestInv(p)
    BY DEF OidcInv, RequestsKnow
  <1>9. q.steps \in Holding => p.session \notin loggedOut
    <2>1. ASSUME p.steps = <<"session", "issue">>
          PROVE  ~ Doing(r, "client")
      BY <2>1 DEF Doing
    <2> QED
      BY <1>4, <2>1
  <1>10. RequestInv(q)'
    BY <1>3, <1>4, <1>8, <1>9 DEF RequestInv, tables, Holding
  <1>11. \A t \in Requests \ {r} : requests[t].steps \in Holding =>
             /\ StillNoTokenOf(requests[t].row)
             /\ q.steps \in Holding => requests[t].row # q.row
    BY <1>3, <1>4 DEF OidcInv, RequestsKnow, RequestInv, StillNoTokenOf, tables, Holding
  <1>12. requests' \in [Requests -> Request \cup {Idle}] /\ RequestsKnow'
    BY <1>4, <1>5, <1>6, <1>7, <1>10, <1>11, OneRequestMoves DEF OidcInv
  <1>13. TablesInv'
    BY TablesInvUnchanged DEF OidcInv, TablesInv
  <1>14. TypeOK'
    BY <1>12 DEF TypeOK, OidcInv, tables
  <1> QED
    BY <1>12, <1>13, <1>14 DEF OidcInv, TablesInv

(***************************************************************************)
(* begin inserts a row of an active client.                                *)
(***************************************************************************)
LEMMA InsertTransactionKeepsInv ==
    ASSUME OidcInv, NEW r \in Requests, InsertTransaction(r)
    PROVE  OidcInv'
  <1> DEFINE q == requests[r]
             row == [client |-> q.client, session |-> q.session,
                     expiresAt |-> q.at + TransactionLifetime,
                     consumed |-> FALSE, revoked |-> FALSE]
  <1>1. CASE q.client \notin activeClients
    BY <1>1, FinishKeepsInv DEF InsertTransaction, tables
  <1>2. CASE q.client \in activeClients
    <2>1. /\ q \in Request /\ Finish(r)
          /\ transactions' = Append(transactions, row)
          /\ UNCHANGED <<now, loggedOut, activeClients, codes, tokens, subjects, consents>>
      BY <1>2, StepsOfDoing DEF InsertTransaction, OidcInv
    <2>2. row \in TransactionRow
      BY <2>1, ConstantsAssumption DEF Request, TransactionRow
    <2> HIDE DEF q
    <2>3. /\ transactions' \in Seq(TransactionRow)
          /\ DOMAIN transactions' = DOMAIN transactions \cup {Len(transactions) + 1}
          /\ \A i \in DOMAIN transactions : transactions'[i] = transactions[i]
          /\ transactions'[Len(transactions) + 1] = row
      BY <2>1, <2>2 DEF OidcInv, TypeOK
    <2>4. row.client \in activeClients
      BY <1>2
    <2> HIDE DEF row
    <2>5. TablesKeep
      BY <2>1, <2>3 DEF TablesKeep
    <2>6. \A t \in Requests :
              requests[t].steps \in Holding => StillNoTokenOf(requests[t].row)
      BY <2>1 DEF OidcInv, RequestsKnow, RequestInv, StillNoTokenOf
    <2>7. requests' \in [Requests -> Request \cup {Idle}] /\ RequestsKnow'
      BY <2>1, <2>5, <2>6, FinishKeepsRequests DEF OidcInv
    <2>8. TypeOK'
      BY <2>1, <2>3, <2>7 DEF TypeOK, OidcInv
    <2>9. CodesFollow'
      BY <2>1, <2>3 DEF OidcInv, CodesFollow
    <2>10. NothingOutlivesItsClient'
      BY <2>1, <2>3, <2>4 DEF OidcInv, NothingOutlivesItsClient
    <2>11. TokensFollow' /\ ConsentsStand' /\ GrantsAreUsedOnce' /\ NoTokenAfterLogout'
      BY <2>1 DEF OidcInv, TokensFollow, ConsentsStand, GrantsAreUsedOnce, NoTokenAfterLogout
    <2> QED
      BY <2>7, <2>8, <2>9, <2>10, <2>11 DEF OidcInv
  <1> QED
    BY <1>1, <1>2

(***************************************************************************)
(* approve_transaction issues the only code of the transaction it consumes *)
(* and leaves the consent behind that the code rests on.                   *)
(***************************************************************************)
LEMMA ApproveTransactionKeepsInv ==
    ASSUME OidcInv, NEW r \in Requests, ApproveTransaction(r)
    PROVE  OidcInv'
  <1> DEFINE q == requests[r]
             grant == <<UserOf[q.session], q.client>>
             row == [transaction |-> q.row, client |-> q.client, session |-> q.session,
                     expiresAt |-> q.at + CodeLifetime,
                     consumed |-> FALSE, revoked |-> FALSE]
  <1>1. CASE ~ CanApprove(q)
    BY <1>1, FinishKeepsInv DEF ApproveTransaction, tables
  <1>2. CASE CanApprove(q)
    <2>1. /\ q \in Request /\ q.steps = <<"approve">> /\ Finish(r)
          /\ codes' = Append(codes, row)
          /\ transactions' = [transactions EXCEPT ![q.row].consumed = TRUE]
          /\ consents' = consents \cup {grant} /\ subjects' = subjects \cup {grant}
          /\ UNCHANGED <<now, loggedOut, activeClients, tokens>>
      BY <1>2, StepsOfDoing DEF ApproveTransaction, IssueCode, OidcInv
    <2>2. q.row \in DOMAIN transactions
      BY <2>1 DEF OidcInv, RequestsKnow, RequestInv, Approving
    <2>3. row \in CodeRow /\ grant \in Grants
      BY <2>1, ConstantsAssumption DEF Request, CodeRow, Grants
    <2>4. /\ codes' \in Seq(CodeRow)
          /\ DOMAIN codes' = DOMAIN codes \cup {Len(codes) + 1}
          /\ Len(codes) + 1 \notin DOMAIN codes
          /\ \A i \in DOMAIN codes : codes'[i] = codes[i]
          /\ codes'[Len(codes) + 1] = row
      BY <2>1, <2>3 DEF OidcInv, TypeOK
    <2>5. /\ transactions' \in Seq(TransactionRow)
          /\ DOMAIN transactions' = DOMAIN transactions
          /\ \A i \in DOMAIN transactions :
                /\ transactions'[i].client = transactions[i].client
                /\ transactions'[i].session = transactions[i].session
                /\ transactions'[i].expiresAt = transactions[i].expiresAt
                /\ transactions'[i].revoked = transactions[i].revoked
                /\ transactions'[i].consumed = (transactions[i].consumed \/ i = q.row)
      <3>1. transactions \in Seq(TransactionRow)
        BY DEF OidcInv, TypeOK
      <3>2. transactions' = MarkConsumed(transactions, q.row)
        BY <2>1 DEF MarkConsumed
      <3> HIDE DEF q
      <3> QED
        BY <2>2, <3>1, <3>2, TransactionConsumed
    <2>6. /\ q.client \in activeClients
          /\ ~ transactions[q.row].consumed
          /\ transactions[q.row].client = q.client /\ transactions[q.row].session = q.session
          /\ q.at < transactions[q.row].expiresAt
      BY <1>2 DEF CanApprove
    <2>7. /\ row.transaction = q.row /\ row.client = q.client /\ row.session = q.session
          /\ row.expiresAt < transactions[q.row].expiresAt + CodeLifetime
      <3>1. /\ q.at \in Nat /\ CodeLifetime \in Nat
            /\ transactions[q.row].expiresAt \in Nat
        <4>1. transactions[q.row] \in TransactionRow
          BY <2>2 DEF OidcInv, TypeOK
        <4>2. q.at \in Nat
          BY <2>1, ConstantsAssumption DEF Request
        <4> QED
          BY <4>1, <4>2, ConstantsAssumption DEF TransactionRow
      <3> QED
        BY <2>6, <3>1
    <2> HIDE DEF q, row
    <2>8. TablesKeep
      BY <2>1, <2>4, <2>5 DEF TablesKeep
    <2>9. \A t \in Requests :
              requests[t].steps \in Holding => StillNoTokenOf(requests[t].row)
      BY <2>1 DEF OidcInv, RequestsKnow, RequestInv, StillNoTokenOf
    <2>10. requests' \in [Requests -> Request \cup {Idle}] /\ RequestsKnow'
      BY <2>1, <2>8, <2>9, FinishKeepsRequests DEF OidcInv
    <2>11. TypeOK'
      BY <2>1, <2>3, <2>4, <2>5, <2>10 DEF TypeOK, OidcInv
    <2>12. CodesFollow'
      <3>1. ASSUME NEW i \in DOMAIN codes
            PROVE  LET t == transactions'[codes'[i].transaction] IN
                   /\ codes'[i].transaction \in DOMAIN transactions'
                   /\ t.consumed
                   /\ t.client = codes'[i].client /\ t.session = codes'[i].session
                   /\ codes'[i].expiresAt < t.expiresAt + CodeLifetime
        <4> DEFINE k == codes[i].transaction
        <4>1. /\ k \in DOMAIN transactions /\ transactions[k].consumed
              /\ transactions[k].client = codes[i].client
              /\ transactions[k].session = codes[i].session
              /\ codes[i].expiresAt < transactions[k].expiresAt + CodeLifetime
          BY DEF OidcInv, CodesFollow
        <4>2. /\ transactions'[k].client = transactions[k].client
              /\ transactions'[k].session = transactions[k].session
              /\ transactions'[k].expiresAt = transactions[k].expiresAt
              /\ transactions'[k].consumed
          BY <2>5, <4>1
        <4> HIDE DEF k
        <4>3. codes'[i] = codes[i]
          BY <2>4
        <4> QED
          BY <2>5, <4>1, <4>2, <4>3 DEF k
      <3>2. LET t == transactions'[row.transaction] IN
            /\ row.transaction \in DOMAIN transactions'
            /\ t.consumed
            /\ t.client = row.client /\ t.session = row.session
            /\ row.expiresAt < t.expiresAt + CodeLifetime
        BY <2>2, <2>5, <2>6, <2>7
      <3> QED
        BY <2>4, <3>1, <3>2 DEF CodesFollow
    <2>13. TokensFollow'
      BY <2>1, <2>4 DEF OidcInv, TokensFollow
    <2>14. ConsentsStand'
      BY <2>1, <2>4, <2>7 DEF OidcInv, ConsentsStand
    <2>15. GrantsAreUsedOnce'
      BY <2>1, <2>4, <2>6, <2>7 DEF OidcInv, GrantsAreUsedOnce, CodesFollow
    <2>16. NothingOutlivesItsClient'
      BY <2>1, <2>4, <2>5, <2>6, <2>7 DEF OidcInv, NothingOutlivesItsClient
    <2>17. NoTokenAfterLogout'
      BY <2>1 DEF OidcInv, NoTokenAfterLogout
    <2> QED
      BY <2>10, <2>11, <2>12, <2>13, <2>14, <2>15, <2>16, <2>17 DEF OidcInv
  <1> QED
    BY <1>1, <1>2

(***************************************************************************)
(* consume_code makes the request the only holder of a code from which no  *)
(* token has come.                                                         *)
(***************************************************************************)
LEMMA ConsumeCodeKeepsInv ==
    ASSUME OidcInv, NEW r \in Requests, ConsumeCode(r)
    PROVE  OidcInv'
  <1> PICK p : p = requests[r]
    OBVIOUS
  <1>1. CASE ~ CanConsume(p)
    BY <1>1, FinishKeepsInv DEF ConsumeCode, tables
  <1>2. CASE CanConsume(p)
    <2>late. PICK late : late = (p.session \in loggedOut)
      OBVIOUS
    <2>q. PICK q : q = [p EXCEPT !.steps = <<"session", "issue">>, !.late = late]
      OBVIOUS
    <2>1. p \in Request /\ p.steps = <<"consume", "session", "issue">>
      BY StepsOfDoing DEF ConsumeCode, OidcInv
    <2>2. /\ codes' = MarkConsumed(codes, p.row)
          /\ UNCHANGED <<now, loggedOut, activeClients, transactions, tokens,
                         subjects, consents>>
      BY <1>2 DEF ConsumeCode, MarkConsumed
    <2>3. requests' = [requests EXCEPT ![r] = q]
      <3>1. requests' = [requests EXCEPT ![r] =
                            [requests[r] EXCEPT !.steps = Tail(@),
                                                !.late = p.session \in loggedOut]]
        BY <1>2 DEF ConsumeCode, OidcInv, TypeOK
      <3>2. Tail(p.steps) = <<"session", "issue">>
        BY <2>1
      <3> QED
        BY <3>1, <3>2, <2>late, <2>q
    <2>4. /\ p.row \in DOMAIN codes /\ p.session = codes[p.row].session
          /\ ~ codes[p.row].consumed
          /\ codes[p.row].client = p.client
          /\ p.at < codes[p.row].expiresAt
      BY <1>2, <2>1 DEF CanConsume, OidcInv, RequestsKnow, RequestInv, Presenting
    <2>5. /\ codes' \in Seq(CodeRow)
          /\ DOMAIN codes' = DOMAIN codes
          /\ \A i \in DOMAIN codes :
                /\ codes'[i].transaction = codes[i].transaction
                /\ codes'[i].client = codes[i].client
                /\ codes'[i].session = codes[i].session
                /\ codes'[i].expiresAt = codes[i].expiresAt
                /\ codes'[i].revoked = codes[i].revoked
                /\ codes'[i].consumed = (codes[i].consumed \/ i = p.row)
      <3>1. codes \in Seq(CodeRow)
        BY DEF OidcInv, TypeOK
      <3>2. p.row \in DOMAIN codes /\ codes' = MarkConsumed(codes, p.row)
        BY <2>2, <2>4
      <3> QED
        BY <3>1, <3>2, CodeConsumed
    <2>6. /\ q.steps = <<"session", "issue">> /\ q.late = late
          /\ q.at = p.at /\ q.client = p.client /\ q.session = p.session
          /\ q.row = p.row
          /\ q \in Request
      <3>1. late \in BOOLEAN
        BY <2>late
      <3>2. <<"session", "issue">> \in Remaining
        BY DEF Remaining, Holding
      <3> QED
        BY <2>1, <2>q, <3>1, <3>2, RemainingIsTyped DEF Request
    <2>7. q.steps \in Remaining /\ q.steps \in Holding
          /\ q.steps \notin Approving /\ q.steps # <<"issue">>
      BY <2>6 DEF Remaining, Approving, Holding
    <2>8. \A i \in DOMAIN tokens : tokens[i].code # p.row
      BY <2>4 DEF OidcInv, TokensFollow
    <2>9. RequestInv(q)'
      <3>1. q.late => q.session \in loggedOut'
        BY <2>2, <2>6, <2>late
      <3>2. /\ q.row \in DOMAIN codes' /\ q.session = codes'[q.row].session
            /\ codes'[q.row].consumed
            /\ codes'[q.row].client = q.client
            /\ q.at < codes'[q.row].expiresAt
        <4>1. /\ codes'[p.row].session = codes[p.row].session
              /\ codes'[p.row].client = codes[p.row].client
              /\ codes'[p.row].expiresAt = codes[p.row].expiresAt
              /\ codes'[p.row].consumed
          BY <2>4, <2>5
        <4> QED
          BY <2>4, <2>5, <2>6, <4>1
      <3>3. \A i \in DOMAIN tokens' : tokens'[i].code # q.row
        BY <2>2, <2>6, <2>8
      <3> QED
        BY <2>7, <3>1, <3>2, <3>3 DEF RequestInv
    <2>10. TablesKeep
      BY <2>2, <2>5 DEF TablesKeep
    <2>11. \A t \in Requests \ {r} : requests[t].steps \in Holding =>
               /\ StillNoTokenOf(requests[t].row)
               /\ requests[t].row # q.row
      BY <2>2, <2>4, <2>6 DEF OidcInv, RequestsKnow, RequestInv, StillNoTokenOf
    <2>12. requests' \in [Requests -> Request \cup {Idle}] /\ RequestsKnow'
      BY <2>3, <2>6, <2>7, <2>9, <2>10, <2>11, OneRequestMoves DEF OidcInv
    <2>13. TypeOK'
      BY <2>2, <2>5, <2>12 DEF TypeOK, OidcInv
    <2>14. CodesFollow'
      <3>1. /\ DOMAIN codes' = DOMAIN codes /\ transactions' = transactions
            /\ \A i \in DOMAIN codes :
                  /\ codes'[i].transaction = codes[i].transaction
                  /\ codes'[i].client = codes[i].client
                  /\ codes'[i].session = codes[i].session
                  /\ codes'[i].expiresAt = codes[i].expiresAt
        BY <2>2, <2>5
      <3> QED
        BY <3>1 DEF OidcInv, CodesFollow
    <2>15. TokensFollow'
      <3>1. ASSUME NEW i \in DOMAIN tokens
            PROVE  LET k == codes'[tokens[i].code] IN
                   /\ tokens[i].code \in DOMAIN codes'
                   /\ k.consumed
                   /\ k.client = tokens[i].client /\ k.session = tokens[i].session
                   /\ tokens[i].expiresAt < k.expiresAt + TokenLifetime
        <4> DEFINE k == tokens[i].code
        <4>1. /\ k \in DOMAIN codes /\ codes[k].consumed
              /\ codes[k].client = tokens[i].client /\ codes[k].session = tokens[i].session
              /\ tokens[i].expiresAt < codes[k].expiresAt + TokenLifetime
          BY DEF OidcInv, TokensFollow
        <4> HIDE DEF k
        <4>2. /\ k \in DOMAIN codes' /\ codes'[k].consumed
              /\ codes'[k].client = codes[k].client /\ codes'[k].session = codes[k].session
              /\ codes'[k].expiresAt = codes[k].expiresAt
          BY <2>5, <4>1
        <4> QED
          BY <4>1, <4>2 DEF k
      <3> QED
        BY <2>2, <3>1 DEF TokensFollow
    <2>16. ConsentsStand'
      BY <2>2, <2>5 DEF OidcInv, ConsentsStand
    <2>17. GrantsAreUsedOnce'
      BY <2>2, <2>5 DEF OidcInv, GrantsAreUsedOnce
    <2>18. NothingOutlivesItsClient' /\ NoTokenAfterLogout'
      <3>1. /\ DOMAIN codes' = DOMAIN codes
            /\ \A i \in DOMAIN codes :
                  codes'[i].client = codes[i].client /\ codes'[i].revoked = codes[i].revoked
        BY <2>5
      <3>2. NothingOutlivesItsClient'
        <4>1. \A d \in Clients \ activeClients, i \in DOMAIN codes :
                  codes[i].client = d => codes[i].revoked
          BY DEF OidcInv, NothingOutlivesItsClient
        <4>2. \A d \in Clients \ activeClients, i \in DOMAIN codes' :
                  codes'[i].client = d => codes'[i].revoked
          BY <3>1, <4>1
        <4> QED
          BY <2>2, <4>2 DEF OidcInv, NothingOutlivesItsClient
      <3>3. NoTokenAfterLogout'
        BY <2>2 DEF OidcInv, NoTokenAfterLogout
      <3> QED
        BY <3>2, <3>3
    <2> QED
      BY <2>12, <2>13, <2>14, <2>15, <2>16, <2>17, <2>18 DEF OidcInv
  <1> QED
    BY <1>1, <1>2

(***************************************************************************)
(* issue_tokens inserts the only token of the code that the request holds. *)
(* A code that an active client holds is not revoked, so its consent       *)
(* stands.                                                                 *)
(***************************************************************************)
LEMMA IssueTokensKeepsInv ==
    ASSUME OidcInv, NEW r \in Requests, IssueTokens(r)
    PROVE  OidcInv'
  <1> DEFINE q == requests[r]
             row == [code |-> q.row, client |-> q.client, session |-> q.session,
                     expiresAt |-> q.at + TokenLifetime,
                     late |-> q.late, revoked |-> FALSE]
             inserted == q.client \in activeClients
                           /\ <<UserOf[q.session], q.client>> \in subjects
  <1>1. CASE ~ inserted
    BY <1>1, FinishKeepsInv DEF IssueTokens, tables
  <1>2. CASE inserted
    <2>1. /\ q \in Request /\ q.steps = <<"issue">> /\ Finish(r)
          /\ tokens' = Append(tokens, row)
          /\ UNCHANGED <<now, loggedOut, activeClients, transactions, codes,
                         subjects, consents>>
      BY <1>2, StepsOfDoing DEF IssueTokens, OidcInv
    <2>2. /\ q.row \in DOMAIN codes /\ q.session = codes[q.row].session
          /\ codes[q.row].consumed
          /\ codes[q.row].client = q.client
          /\ q.at < codes[q.row].expiresAt
          /\ \A i \in DOMAIN tokens : tokens[i].code # q.row
          /\ ~ q.late
      <3>1. RequestInv(q) /\ q.steps \in Holding
        BY <2>1 DEF OidcInv, RequestsKnow, Holding
      <3> HIDE DEF q
      <3> QED
        BY <2>1, <3>1 DEF RequestInv
    <2>3. row \in TokenRow
      BY <2>1, ConstantsAssumption DEF Request, TokenRow
    <2>4. /\ tokens' \in Seq(TokenRow)
          /\ DOMAIN tokens' = DOMAIN tokens \cup {Len(tokens) + 1}
          /\ Len(tokens) + 1 \notin DOMAIN tokens
          /\ \A i \in DOMAIN tokens : tokens'[i] = tokens[i]
          /\ tokens'[Len(tokens) + 1] = row
      <3>1. tokens \in Seq(TokenRow) /\ tokens' = Append(tokens, row)
        BY <2>1 DEF OidcInv, TypeOK
      <3> HIDE DEF q, row
      <3> QED
        BY <2>3, <3>1
    <2>5. /\ row.code = q.row /\ row.client = q.client /\ row.session = q.session
          /\ ~ row.late
          /\ row.expiresAt < codes[q.row].expiresAt + TokenLifetime
      <3>1. codes[q.row] \in CodeRow
        BY <2>2 DEF OidcInv, TypeOK
      <3>2. q.at \in Nat /\ TokenLifetime \in Nat /\ codes[q.row].expiresAt \in Nat
        BY <2>1, <3>1, ConstantsAssumption DEF Request, CodeRow
      <3> QED
        BY <2>2, <3>2
    <2>6. q.client \in activeClients
      BY <1>2
    <2>7. \A s \in Requests \ {r} :
              requests[s].steps \in Holding => requests[s].row # q.row
      <3>1. q.steps \in Holding
        BY <2>1 DEF Holding
      <3> QED
        BY <3>1 DEF OidcInv, RequestsKnow
    <2> HIDE DEF q, row, inserted
    <2>8. TablesKeep
      BY <2>1 DEF TablesKeep
    <2>9. \A s \in Requests \ {r} :
              requests[s].steps \in Holding => StillNoTokenOf(requests[s].row)
      <3>1. \A s \in Requests, i \in DOMAIN tokens :
                requests[s].steps \in Holding => tokens[i].code # requests[s].row
        BY DEF OidcInv, RequestsKnow, RequestInv
      <3> QED
        BY <2>4, <2>5, <2>7, <3>1 DEF StillNoTokenOf
    <2>10. requests' \in [Requests -> Request \cup {Idle}] /\ RequestsKnow'
      BY <2>1, <2>8, <2>9, FinishKeepsRequests DEF OidcInv
    <2>11. TypeOK'
      BY <2>1, <2>4, <2>10 DEF TypeOK, OidcInv
    <2>12. CodesFollow'
      BY <2>1 DEF OidcInv, CodesFollow
    <2>13. TokensFollow'
      <3>1. \A i \in DOMAIN tokens :
                /\ tokens[i].code \in DOMAIN codes
                /\ codes[tokens[i].code].consumed
                /\ codes[tokens[i].code].client = tokens[i].client
                /\ codes[tokens[i].code].session = tokens[i].session
                /\ tokens[i].expiresAt < codes[tokens[i].code].expiresAt + TokenLifetime
        BY DEF OidcInv, TokensFollow
      <3>2. /\ row.code \in DOMAIN codes
            /\ codes[row.code].consumed
            /\ codes[row.code].client = row.client
            /\ codes[row.code].session = row.session
            /\ row.expiresAt < codes[row.code].expiresAt + TokenLifetime
        BY <2>2, <2>5
      <3> QED
        BY <2>1, <2>4, <3>1, <3>2 DEF TokensFollow
    <2>14. ConsentsStand'
      <3>1. row.client \in activeClients =>
                <<UserOf[row.session], row.client>> \in consents
        BY <2>2, <2>5 DEF OidcInv, ConsentsStand
      <3> QED
        BY <2>1, <2>4, <3>1 DEF OidcInv, ConsentsStand
    <2>15. GrantsAreUsedOnce'
      BY <2>1, <2>2, <2>4, <2>5 DEF OidcInv, GrantsAreUsedOnce
    <2>16. NothingOutlivesItsClient'
      BY <2>1, <2>4, <2>5, <2>6 DEF OidcInv, NothingOutlivesItsClient
    <2>17. NoTokenAfterLogout'
      BY <2>4, <2>5 DEF OidcInv, NoTokenAfterLogout
    <2> QED
      BY <2>10, <2>11, <2>12, <2>13, <2>14, <2>15, <2>16, <2>17 DEF OidcInv
  <1> QED
    BY <1>1, <1>2

(***************************************************************************)
(* revoke_access touches the revoked column of one token.                  *)
(***************************************************************************)
LEMMA RevokeAccessKeepsInv ==
    ASSUME OidcInv, NEW n \in DOMAIN tokens, RevokeAccess(n)
    PROVE  OidcInv'
  <1>1. UNCHANGED <<now, loggedOut, activeClients, transactions, codes, subjects,
                    consents, requests>>
    BY DEF RevokeAccess
  <1>2. /\ tokens' \in Seq(TokenRow)
        /\ DOMAIN tokens' = DOMAIN tokens
        /\ \A i \in DOMAIN tokens :
              /\ tokens'[i].code = tokens[i].code
              /\ tokens'[i].client = tokens[i].client
              /\ tokens'[i].session = tokens[i].session
              /\ tokens'[i].expiresAt = tokens[i].expiresAt
              /\ tokens'[i].late = tokens[i].late
              /\ tokens'[i].revoked = (tokens[i].revoked \/ i = n)
    <2>1. tokens \in Seq(TokenRow) /\ tokens' = MarkRevoked(tokens, n)
      BY DEF OidcInv, TypeOK, RevokeAccess, MarkRevoked
    <2> QED
      BY <2>1, TokenRevoked
  <1>3. TypeOK'
    BY <1>1, <1>2 DEF OidcInv, TypeOK
  <1>4. CodesFollow' /\ TokensFollow'
    <2>1. CodesFollow'
      BY <1>1 DEF OidcInv, CodesFollow
    <2>2. TokensFollow'
      BY <1>1, <1>2 DEF OidcInv, TokensFollow
    <2> QED
      BY <2>1, <2>2
  <1>5. ConsentsStand' /\ GrantsAreUsedOnce' /\ NoTokenAfterLogout'
    <2>1. ConsentsStand'
      BY <1>1, <1>2 DEF OidcInv, ConsentsStand
    <2>2. GrantsAreUsedOnce' /\ NoTokenAfterLogout'
      BY <1>1, <1>2 DEF OidcInv, GrantsAreUsedOnce, NoTokenAfterLogout
    <2> QED
      BY <2>1, <2>2
  <1>6. NothingOutlivesItsClient'
    <2>1. \A i \in DOMAIN tokens : tokens[i].revoked => tokens'[i].revoked
      BY <1>2
    <2>2. \A c \in Clients \ activeClients, i \in DOMAIN tokens :
              tokens'[i].client = c => tokens'[i].revoked
      <3>1. \A c \in Clients \ activeClients, i \in DOMAIN tokens :
                tokens[i].client = c => tokens[i].revoked
        BY DEF OidcInv, NothingOutlivesItsClient
      <3>2. \A i \in DOMAIN tokens : tokens'[i].client = tokens[i].client
        BY <1>2
      <3> QED
        BY <2>1, <3>1, <3>2
    <2> QED
      BY <1>1, <1>2, <2>2 DEF OidcInv, NothingOutlivesItsClient
  <1>7. RequestsKnow'
    <2>1. TablesKeep
      BY <1>1 DEF TablesKeep
    <2> QED
      BY <1>1, <1>2, <2>1, RequestsStand DEF OidcInv
  <1> QED
    BY <1>3, <1>4, <1>5, <1>6, <1>7 DEF OidcInv

(***************************************************************************)
(* revoke_for_installation takes the client out of activeClients in the    *)
(* step that revokes its rows, so nothing is asked of its consents.        *)
(***************************************************************************)
LEMMA RevokeForInstallationKeepsInv ==
    ASSUME OidcInv, NEW c \in Clients, RevokeForInstallation(c)
    PROVE  OidcInv'
  <1>1. /\ activeClients' = activeClients \ {c}
        /\ consents' = {grant \in consents : grant[2] # c}
        /\ UNCHANGED <<now, loggedOut, subjects, requests>>
    BY DEF RevokeForInstallation
  <1>2. /\ transactions' \in Seq(TransactionRow)
        /\ DOMAIN transactions' = DOMAIN transactions
        /\ \A i \in DOMAIN transactions :
              /\ transactions'[i].client = transactions[i].client
              /\ transactions'[i].session = transactions[i].session
              /\ transactions'[i].expiresAt = transactions[i].expiresAt
              /\ transactions'[i].consumed = transactions[i].consumed
              /\ transactions'[i].revoked =
                    (transactions[i].revoked \/ transactions[i].client = c)
    <2>1. transactions \in Seq(TransactionRow) /\ transactions' = RevokedFor(c, transactions)
      BY DEF OidcInv, TypeOK, RevokeForInstallation
    <2> QED
      BY <2>1, TransactionsRevoked
  <1>3. /\ codes' \in Seq(CodeRow)
        /\ DOMAIN codes' = DOMAIN codes
        /\ \A i \in DOMAIN codes :
              /\ codes'[i].transaction = codes[i].transaction
              /\ codes'[i].client = codes[i].client
              /\ codes'[i].session = codes[i].session
              /\ codes'[i].expiresAt = codes[i].expiresAt
              /\ codes'[i].consumed = codes[i].consumed
              /\ codes'[i].revoked = (codes[i].revoked \/ codes[i].client = c)
    <2>1. codes \in Seq(CodeRow) /\ codes' = RevokedFor(c, codes)
      BY DEF OidcInv, TypeOK, RevokeForInstallation
    <2> QED
      BY <2>1, CodesRevoked
  <1>4. /\ tokens' \in Seq(TokenRow)
        /\ DOMAIN tokens' = DOMAIN tokens
        /\ \A i \in DOMAIN tokens :
              /\ tokens'[i].code = tokens[i].code
              /\ tokens'[i].client = tokens[i].client
              /\ tokens'[i].session = tokens[i].session
              /\ tokens'[i].expiresAt = tokens[i].expiresAt
              /\ tokens'[i].late = tokens[i].late
              /\ tokens'[i].revoked = (tokens[i].revoked \/ tokens[i].client = c)
    <2>1. tokens \in Seq(TokenRow) /\ tokens' = RevokedFor(c, tokens)
      BY DEF OidcInv, TypeOK, RevokeForInstallation
    <2> QED
      BY <2>1, TokensRevoked
  <1>5. TypeOK'
    BY <1>1, <1>2, <1>3, <1>4 DEF OidcInv, TypeOK
  <1>6. CodesFollow'
    BY <1>2, <1>3 DEF OidcInv, CodesFollow
  <1>7. TokensFollow'
    BY <1>3, <1>4 DEF OidcInv, TokensFollow
  <1>8. ConsentsStand'
    <2>1. \A u, d : d \in activeClients' /\ <<u, d>> \in consents => <<u, d>> \in consents'
      BY <1>1
    <2>2. /\ \A i \in DOMAIN codes' :
                codes'[i].client = codes[i].client /\ codes'[i].session = codes[i].session
          /\ \A i \in DOMAIN tokens' :
                tokens'[i].client = tokens[i].client /\ tokens'[i].session = tokens[i].session
          /\ DOMAIN codes' = DOMAIN codes /\ DOMAIN tokens' = DOMAIN tokens
          /\ activeClients' \subseteq activeClients
      BY <1>1, <1>3, <1>4
    <2> QED
      BY <2>1, <2>2 DEF OidcInv, ConsentsStand
  <1>9. GrantsAreUsedOnce' /\ NoTokenAfterLogout'
    <2>1. /\ \A i \in DOMAIN codes : codes'[i].transaction = codes[i].transaction
          /\ \A i \in DOMAIN tokens : tokens'[i].code = tokens[i].code
          /\ DOMAIN codes' = DOMAIN codes /\ DOMAIN tokens' = DOMAIN tokens
      BY <1>3, <1>4
    <2>2. GrantsAreUsedOnce'
      BY <2>1 DEF OidcInv, GrantsAreUsedOnce
    <2>3. NoTokenAfterLogout'
      BY <1>4 DEF OidcInv, NoTokenAfterLogout
    <2> QED
      BY <2>2, <2>3
  <1>10. NothingOutlivesItsClient'
    <2>1. ASSUME NEW d \in Clients \ activeClients'
          PROVE  /\ \A i \in DOMAIN transactions :
                       transactions[i].client = d => transactions'[i].revoked
                 /\ \A i \in DOMAIN codes : codes[i].client = d => codes'[i].revoked
                 /\ \A i \in DOMAIN tokens : tokens[i].client = d => tokens'[i].revoked
                 /\ \A u \in Users : <<u, d>> \notin consents'
      <3>1. CASE d = c
        BY <1>1, <1>2, <1>3, <1>4, <3>1
      <3>2. CASE d # c
        <4>1. /\ \A i \in DOMAIN transactions :
                    transactions[i].client = d => transactions[i].revoked
              /\ \A i \in DOMAIN codes : codes[i].client = d => codes[i].revoked
              /\ \A i \in DOMAIN tokens : tokens[i].client = d => tokens[i].revoked
              /\ \A u \in Users : <<u, d>> \notin consents
          BY <1>1, <3>2 DEF OidcInv, NothingOutlivesItsClient
        <4> QED
          BY <1>1, <1>2, <1>3, <1>4, <4>1
      <3> QED
        BY <3>1, <3>2
    <2>2. /\ \A i \in DOMAIN transactions' : transactions'[i].client = transactions[i].client
          /\ \A i \in DOMAIN codes' : codes'[i].client = codes[i].client
          /\ \A i \in DOMAIN tokens' : tokens'[i].client = tokens[i].client
      BY <1>2, <1>3, <1>4
    <2>3. /\ DOMAIN transactions' = DOMAIN transactions
          /\ DOMAIN codes' = DOMAIN codes
          /\ DOMAIN tokens' = DOMAIN tokens
      BY <1>2, <1>3, <1>4
    <2> QED
      BY <2>1, <2>2, <2>3 DEF NothingOutlivesItsClient
  <1>11. RequestsKnow'
    <2>1. TablesKeep
      BY <1>1, <1>2, <1>3 DEF TablesKeep
    <2> QED
      BY <1>1, <1>4, <2>1, RequestsStand DEF OidcInv
  <1> QED
    BY <1>5, <1>6, <1>7, <1>8, <1>9, <1>10, <1>11 DEF OidcInv

(***************************************************************************)
(* The initial tables are empty and every client is active.                *)
(***************************************************************************)
LEMMA InitEstablishesInv == Init => OidcInv
  <1> SUFFICES ASSUME Init PROVE OidcInv
    OBVIOUS
  <1>1. DOMAIN transactions = {} /\ DOMAIN codes = {} /\ DOMAIN tokens = {}
    BY DEF Init
  <1>2. TypeOK
    <2>1. <<>> \in Seq(TransactionRow) /\ <<>> \in Seq(CodeRow) /\ <<>> \in Seq(TokenRow)
      OBVIOUS
    <2> QED
      BY <2>1, ConstantsAssumption DEF Init, TypeOK, Grants
  <1>3. \A r \in Requests : requests[r].steps = <<>>
    BY DEF Init, Idle
  <1>4. RequestsKnow
    <2>1. <<>> \notin Approving \cup Presenting \cup Holding
      BY DEF Approving, Presenting, Holding
    <2> QED
      BY <1>3, <2>1 DEF RequestsKnow, RequestInv
  <1>5. TablesInv
    BY <1>1 DEF Init, TablesInv, CodesFollow, TokensFollow, ConsentsStand,
                GrantsAreUsedOnce, NothingOutlivesItsClient, NoTokenAfterLogout
  <1> QED
    BY <1>2, <1>4, <1>5 DEF OidcInv, TablesInv

(***************************************************************************)
(* Every step keeps the invariant.                                         *)
(***************************************************************************)
LEMMA NextKeepsInv == OidcInv /\ [Next]_vars => OidcInv'
  <1> SUFFICES ASSUME OidcInv, [Next]_vars PROVE OidcInv'
    OBVIOUS
  <1>1. ASSUME NEW r \in Requests, NEW c \in Clients, NEW s \in Sessions, Begin(r, c, s)
        PROVE  OidcInv'
    BY <1>1, StartKeepsInv DEF Begin
  <1>2. ASSUME NEW r \in Requests, NEW t \in DOMAIN transactions,
               NEW c \in Clients, NEW s \in Sessions, Approve(r, t, c, s)
        PROVE  OidcInv'
    <2>1. t \in Nat
      BY DEF OidcInv, TypeOK
    <2> QED
      BY <1>2, <2>1, StartKeepsInv DEF Approve
  <1>3. ASSUME NEW r \in Requests, NEW k \in DOMAIN codes, NEW c \in Clients,
               ExchangeCode(r, k, c)
        PROVE  OidcInv'
    <2>1. k \in Nat /\ codes[k].session \in Sessions
      <3>1. k \in Nat /\ codes[k] \in CodeRow
        BY DEF OidcInv, TypeOK
      <3> QED
        BY <3>1 DEF CodeRow
    <2> QED
      BY <1>3, <2>1, StartKeepsInv DEF ExchangeCode
  <1>4. ASSUME NEW r \in Requests, RequestStep(r)
        PROVE  OidcInv'
    <2>1. CASE RequireLiveSession(r)
      BY <2>1, AdvanceKeepsInv, FinishKeepsInv DEF RequireLiveSession
    <2>2. CASE ActiveClient(r)
      BY <2>2, AdvanceKeepsInv, FinishKeepsInv DEF ActiveClient
    <2>3. CASE InsertTransaction(r)
      BY <2>3, InsertTransactionKeepsInv
    <2>4. CASE ApproveTransaction(r)
      BY <2>4, ApproveTransactionKeepsInv
    <2>5. CASE ConsumeCode(r)
      BY <2>5, ConsumeCodeKeepsInv
    <2>6. CASE IssueTokens(r)
      BY <2>6, IssueTokensKeepsInv
    <2>7. CASE Abandon(r)
      BY <2>7, FinishKeepsInv DEF Abandon
    <2> QED
      BY <1>4, <2>1, <2>2, <2>3, <2>4, <2>5, <2>6, <2>7 DEF RequestStep
  <1>5. ASSUME NEW k \in DOMAIN tokens, RevokeAccess(k)
        PROVE  OidcInv'
    BY <1>5, RevokeAccessKeepsInv
  <1>6. ASSUME NEW s \in Sessions, Logout(s)
        PROVE  OidcInv'
    <2>1. TablesInv'
      BY <1>6, TablesInvUnchanged DEF Logout, OidcInv, TablesInv
    <2>2. TypeOK'
      BY <1>6 DEF Logout, OidcInv, TypeOK, tables
    <2>3. RequestsKnow'
      BY <1>6 DEF Logout, OidcInv, RequestsKnow, RequestInv, tables
    <2> QED
      BY <2>1, <2>2, <2>3 DEF OidcInv, TablesInv
  <1>7. ASSUME NEW c \in Clients, RevokeForInstallation(c)
        PROVE  OidcInv'
    BY <1>7, RevokeForInstallationKeepsInv
  <1>8. CASE Tick \/ UNCHANGED vars
    <2>1. UNCHANGED <<loggedOut, activeClients, tables, requests>>
      BY <1>8 DEF Tick, vars
    <2>2. now' \in 0 .. MaxTime
      BY <1>8, ConstantsAssumption DEF Tick, vars, OidcInv, TypeOK
    <2>3. TablesInv'
      BY <2>1, TablesInvUnchanged DEF OidcInv, TablesInv
    <2>4. TypeOK'
      BY <2>1, <2>2 DEF OidcInv, TypeOK, tables
    <2>5. RequestsKnow'
      BY <2>1 DEF OidcInv, RequestsKnow, RequestInv, tables
    <2> QED
      BY <2>3, <2>4, <2>5 DEF OidcInv, TablesInv
  <1> QED
    BY <1>1, <1>2, <1>3, <1>4, <1>5, <1>6, <1>7, <1>8 DEF Next

(***************************************************************************)
(* The invariant holds in every behaviour, and with it the types.          *)
(***************************************************************************)
THEOREM InvHolds == Spec => []OidcInv
  BY InitEstablishesInv, NextKeepsInv, PTL DEF Spec

(***************************************************************************)
(* However many requests race for it, a transaction yields one code and a  *)
(* code one token.                                                         *)
(***************************************************************************)
THEOREM GrantsUsedOnce == Spec => []GrantsAreUsedOnce
  <1>1. OidcInv => GrantsAreUsedOnce
    BY DEF OidcInv
  <1> QED
    BY <1>1, InvHolds, PTL

(***************************************************************************)
(* An uninstall leaves nothing of its client, and no request under way     *)
(* adds to it afterwards.                                                  *)
(***************************************************************************)
THEOREM ClientLeavesNothing == Spec => []NothingOutlivesItsClient
  <1>1. OidcInv => NothingOutlivesItsClient
    BY DEF OidcInv
  <1> QED
    BY <1>1, InvHolds, PTL

(***************************************************************************)
(* A code presented after the logout of its session gives no token.        *)
(***************************************************************************)
THEOREM LogoutEndsCodes == Spec => []NoTokenAfterLogout
  <1>1. OidcInv => NoTokenAfterLogout
    BY DEF OidcInv
  <1> QED
    BY <1>1, InvHolds, PTL

(***************************************************************************)
(* A token that a protected API accepts rests on a consent and on rows     *)
(* that agree with it.                                                     *)
(***************************************************************************)
THEOREM TokensRestOnConsent == Spec => []ResolvableTokensRestOnConsent
  <1>1. OidcInv => ResolvableTokensRestOnConsent
    <2> SUFFICES ASSUME OidcInv, NEW i \in DOMAIN tokens, Resolves(i, now)
                 PROVE  LET code == codes[tokens[i].code]
                            transaction == transactions[code.transaction]
                        IN  /\ <<UserOf[tokens[i].session], tokens[i].client>> \in consents
                            /\ code.consumed /\ transaction.consumed
                            /\ <<code.client, code.session>>
                                  = <<tokens[i].client, tokens[i].session>>
                            /\ <<transaction.client, transaction.session>>
                                  = <<code.client, code.session>>
      BY DEF ResolvableTokensRestOnConsent
    <2>1. <<UserOf[tokens[i].session], tokens[i].client>> \in consents
      BY DEF OidcInv, ConsentsStand, Resolves
    <2>2. /\ tokens[i].code \in DOMAIN codes /\ codes[tokens[i].code].consumed
          /\ codes[tokens[i].code].client = tokens[i].client
          /\ codes[tokens[i].code].session = tokens[i].session
      BY DEF OidcInv, TokensFollow
    <2> QED
      BY <2>1, <2>2 DEF OidcInv, CodesFollow
  <1> QED
    BY <1>1, InvHolds, PTL

(***************************************************************************)
(* No delay between the steps of the requests stretches a grant beyond the *)
(* sum of the lifetimes.                                                   *)
(***************************************************************************)
THEOREM GrantsExpire == Spec => []LifetimesAddUp
  <1>1. OidcInv => LifetimesAddUp
    BY DEF OidcInv, TokensFollow, CodesFollow, LifetimesAddUp
  <1> QED
    BY <1>1, InvHolds, PTL
=============================================================================
