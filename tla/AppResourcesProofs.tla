------------------------- MODULE AppResourcesProofs -------------------------
(***************************************************************************)
(* What the participants' calls do to the resources of an installation,    *)
(* wherever they stop, and what the journal says about the resources: the  *)
(* facts about AppResources and AppOperation from which                    *)
(* RunnerRecoveryProofs shows that crashes and recoveries keep the two in  *)
(* agreement.                                                              *)
(***************************************************************************)
EXTENDS AppOperationRunnerProofs

ResourceRecord ==
    [databases : {"Absent", "Staged", "Active", "Retained"}, image : BOOLEAN,
     runtime : {"Absent", "Prepared", "Active"}, delivered : BOOLEAN,
     client : [status : {"None", "Active", "Revoked"},
               createdAt : Times \cup {NoClient.createdAt}],
     secret : BOOLEAN]

\* The records a call can leave.
Leaves(call) == call.through \cup {call.end}

\* A call that finds nothing to do.
LEMMA KeepsCall ==
    ASSUME NEW r, NEW c, c = Keeps(r)
    PROVE  Leaves(c) = {r} /\ c.ok = TRUE /\ c.end = r
  BY DEF Leaves, Succeeds, Keeps

\* A call that is refused before it changes anything.
LEMMA FailsCall ==
    ASSUME NEW r, NEW c, c = Fails(r)
    PROVE  Leaves(c) = {r} /\ c.ok = FALSE /\ c.end = r
  BY DEF Leaves, Fails

\* provision and retain_installation touch the databases only.
LEMMA ProvisionCall ==
    ASSUME NEW r \in ResourceRecord, NEW c, c = ProvisionDatabases(r)
    PROVE  /\ c.ok => c.end.databases = "Active"
           /\ \A s \in Leaves(c) :
                 /\ s \in ResourceRecord
                 /\ s.runtime = r.runtime /\ s.delivered = r.delivered
                 /\ s.client = r.client /\ s.secret = r.secret
                 /\ r.databases = "Active" => s.databases = "Active"
<1> DEFINE With(state) == [r EXCEPT !.databases = state]
<1>1. ASSUME NEW state \in {"Absent", "Staged", "Active"}
      PROVE  /\ With(state) \in ResourceRecord /\ With(state).databases = state
             /\ With(state).runtime = r.runtime /\ With(state).delivered = r.delivered
             /\ With(state).client = r.client /\ With(state).secret = r.secret
  BY DEF ResourceRecord
<1>2. CASE r.databases \in {"Active", "Retained"}
  <2>1. Leaves(c) = {r} /\ c.end = r /\ (c.ok => r.databases = "Active")
    BY <1>2, KeepsCall, FailsCall, Zenon DEF ProvisionDatabases
  <2> QED
    BY <2>1
<1>3. CASE r.databases \notin {"Active", "Retained"}
  <2>1. c = Succeeds({r, With("Absent"), With("Staged")}, With("Active"))
    BY <1>3 DEF ProvisionDatabases
  <2> HIDE DEF With
  <2>2. /\ \A x \in Leaves(c) : \/ x = r \/ x = With("Absent")
                                \/ x = With("Staged") \/ x = With("Active")
        /\ c.end = With("Active")
    BY <2>1 DEF Succeeds, Leaves
  <2> QED
    BY <1>1, <1>3, <2>2
<1> QED
  BY <1>2, <1>3

\* retain_installation: only the databases change, and active ones never come back.
LEMMA RetainCall ==
    ASSUME NEW r \in ResourceRecord, NEW c, c = RetainDatabases(r)
    PROVE  /\ c.ok => c.end.databases # "Active"
           /\ \A s \in Leaves(c) :
                 /\ s \in ResourceRecord
                 /\ s.runtime = r.runtime /\ s.delivered = r.delivered
                 /\ s.client = r.client /\ s.secret = r.secret
                 /\ r.databases # "Active" => s.databases # "Active"
<1> DEFINE s == [r EXCEPT !.databases = "Retained"]
<1>1. /\ s \in ResourceRecord /\ s.databases = "Retained"
      /\ s.runtime = r.runtime /\ s.delivered = r.delivered
      /\ s.client = r.client /\ s.secret = r.secret
  BY DEF ResourceRecord
<1>2. CASE r.databases # "Active"
  <2>1. Leaves(c) = {r} /\ c.end = r
    BY <1>2, KeepsCall, FailsCall, Zenon DEF RetainDatabases
  <2> QED
    BY <1>2, <2>1
<1>3. CASE r.databases = "Active"
  <2>1. c = Succeeds({r}, s)
    BY <1>3 DEF RetainDatabases
  <2> HIDE DEF s
  <2>2. (\A x \in Leaves(c) : x = r \/ x = s) /\ c.end = s
    BY <2>1 DEF Succeeds, Leaves
  <2> QED
    BY <1>1, <1>3, <2>2
<1> QED
  BY <1>2, <1>3

\* The runtime calls touch the container only.
LEMMA RuntimeUpdate ==
    ASSUME NEW r \in ResourceRecord, NEW state \in {"Absent", "Prepared", "Active"},
           NEW s, s = [r EXCEPT !.runtime = state]
    PROVE  /\ s \in ResourceRecord /\ s.runtime = state
           /\ s.databases = r.databases /\ s.delivered = r.delivered
           /\ s.client = r.client /\ s.secret = r.secret
  BY DEF ResourceRecord

\* prepare: a container may be created; nothing else changes.
LEMMA PrepareCall ==
    ASSUME NEW r \in ResourceRecord, NEW app \in Declarations, NEW c, c = PrepareRuntime(r, app)
    PROVE  /\ c.ok /\ app.runtime = "Container" => c.end.runtime # "Absent"
           /\ \A s \in Leaves(c) :
                 /\ s \in ResourceRecord
                 /\ s.databases = r.databases /\ s.delivered = r.delivered
                 /\ s.client = r.client /\ s.secret = r.secret
                 /\ s.runtime = r.runtime \/ (r.runtime = "Absent" /\ s.runtime = "Prepared")
<1> DEFINE s == [r EXCEPT !.runtime = "Prepared"]
<1>1. /\ s \in ResourceRecord /\ s.runtime = "Prepared"
      /\ s.databases = r.databases /\ s.delivered = r.delivered
      /\ s.client = r.client /\ s.secret = r.secret
  BY RuntimeUpdate
<1> HIDE DEF s
<1>2. CASE c = Keeps(r) /\ (app.runtime = "Web" \/ r.runtime # "Absent")
  <2>1. Leaves(c) = {r} /\ c.end = r
    BY <1>2, KeepsCall, Zenon
  <2> QED
    BY <1>2, <2>1
<1>3. CASE c = Fails(r)
  <2>1. Leaves(c) = {r} /\ c.ok = FALSE
    BY <1>3, FailsCall, Zenon
  <2> QED
    BY <2>1
<1>4. CASE c = Succeeds({r}, s) /\ r.runtime = "Absent"
  <2>1. (\A x \in Leaves(c) : x = r \/ x = s) /\ c.end = s
    BY <1>4 DEF Succeeds, Leaves
  <2> QED
    BY <1>1, <1>4, <2>1
<1> QED
  BY <1>2, <1>3, <1>4, Zenon DEF PrepareRuntime, s

\* activate: a prepared container may be started; nothing else changes.
LEMMA ActivateCall ==
    ASSUME NEW r \in ResourceRecord, NEW app \in Declarations, NEW c, c = ActivateRuntime(r, app)
    PROVE  /\ c.ok /\ app.runtime = "Container" => c.end.runtime = "Active"
           /\ \A s \in Leaves(c) :
                 /\ s \in ResourceRecord
                 /\ s.databases = r.databases /\ s.delivered = r.delivered
                 /\ s.client = r.client /\ s.secret = r.secret
                 /\ s.runtime = r.runtime \/ (r.runtime = "Prepared" /\ s.runtime = "Active")
<1> DEFINE s == [r EXCEPT !.runtime = "Active"]
<1>1. /\ s \in ResourceRecord /\ s.runtime = "Active"
      /\ s.databases = r.databases /\ s.delivered = r.delivered
      /\ s.client = r.client /\ s.secret = r.secret
  BY RuntimeUpdate
<1> HIDE DEF s
<1>2. CASE c = Keeps(r) /\ (app.runtime = "Web" \/ r.runtime = "Active")
  <2>1. Leaves(c) = {r} /\ c.end = r
    BY <1>2, KeepsCall, Zenon
  <2> QED
    BY <1>2, <2>1
<1>3. CASE c = Fails(r)
  <2>1. Leaves(c) = {r} /\ c.ok = FALSE
    BY <1>3, FailsCall, Zenon
  <2> QED
    BY <2>1
<1>4. CASE c = Succeeds({r}, s) /\ r.runtime = "Prepared"
  <2>1. (\A x \in Leaves(c) : x = r \/ x = s) /\ c.end = s
    BY <1>4 DEF Succeeds, Leaves
  <2> QED
    BY <1>1, <1>4, <2>1
<1> QED
  BY <1>2, <1>3, <1>4, Zenon DEF ActivateRuntime, s

\* deactivate: a running container is stopped; nothing else changes.
LEMMA DeactivateCall ==
    ASSUME NEW r \in ResourceRecord, NEW c, c = DeactivateRuntime(r)
    PROVE  /\ c.end.runtime # "Active"
           /\ \A s \in Leaves(c) :
                 /\ s \in ResourceRecord
                 /\ s.databases = r.databases /\ s.delivered = r.delivered
                 /\ s.client = r.client /\ s.secret = r.secret
                 /\ s.runtime = r.runtime \/ (r.runtime = "Active" /\ s.runtime = "Prepared")
<1> DEFINE s == [r EXCEPT !.runtime = "Prepared"]
<1>1. /\ s \in ResourceRecord /\ s.runtime = "Prepared"
      /\ s.databases = r.databases /\ s.delivered = r.delivered
      /\ s.client = r.client /\ s.secret = r.secret
  BY RuntimeUpdate
<1> HIDE DEF s
<1>2. CASE c = Keeps(r) /\ r.runtime # "Active"
  <2>1. Leaves(c) = {r} /\ c.end = r
    BY <1>2, KeepsCall, Zenon
  <2> QED
    BY <1>2, <2>1
<1>3. CASE c = Succeeds({r}, s) /\ r.runtime = "Active"
  <2>1. (\A x \in Leaves(c) : x = r \/ x = s) /\ c.end = s
    BY <1>3 DEF Succeeds, Leaves
  <2> QED
    BY <1>1, <1>3, <2>1
<1> QED
  BY <1>2, <1>3 DEF DeactivateRuntime, s

\* remove: a stopped container is removed, even when the namespace then stays.
LEMMA RemoveRuntimeCall ==
    ASSUME NEW r \in ResourceRecord, NEW c, c = RemoveRuntime(r)
    PROVE  /\ c.ok => c.end.runtime = "Absent"
           /\ \A s \in Leaves(c) :
                 /\ s \in ResourceRecord
                 /\ s.databases = r.databases /\ s.delivered = r.delivered
                 /\ s.client = r.client /\ s.secret = r.secret
                 /\ s.runtime = r.runtime \/ s.runtime = "Absent"
<1> DEFINE s == [r EXCEPT !.runtime = "Absent"]
<1>1. /\ s \in ResourceRecord /\ s.runtime = "Absent"
      /\ s.databases = r.databases /\ s.delivered = r.delivered
      /\ s.client = r.client /\ s.secret = r.secret
  BY RuntimeUpdate
<1> HIDE DEF s
<1>2. CASE c = Fails(r)
  <2>1. Leaves(c) = {r} /\ c.ok = FALSE
    BY <1>2, FailsCall, Zenon
  <2> QED
    BY <2>1
<1>3. CASE c = [Succeeds({r}, s) EXCEPT !.ok = ~ r.delivered]
  <2>1. (\A x \in Leaves(c) : x = r \/ x = s) /\ c.end = s
    BY <1>3 DEF Succeeds, Leaves
  <2> QED
    BY <1>1, <2>1
<1> QED
  BY <1>2, <1>3, Zenon DEF RemoveRuntime, s

\* register_or_recover_installed_app touches the client and its secret only.
LEMMA RegisterCall ==
    ASSUME NEW r \in ResourceRecord, NEW app \in Declarations, NEW at \in Times,
           NEW c, c = RegisterClient(r, app, at)
    PROVE  /\ c.ok => /\ c.end.client.status = "Active"
                      /\ app.oidc = "confidential" => c.end.secret
           /\ c.end \in Leaves(c)
           /\ \A s \in Leaves(c) :
                 /\ s \in ResourceRecord
                 /\ s.databases = r.databases /\ s.runtime = r.runtime
                 /\ s.delivered = r.delivered
                 /\ r.client.status = "Active" => s = r
<1> DEFINE client == [status |-> "Active", createdAt |-> at]
           w == [r EXCEPT !.secret = TRUE]
           q == [r EXCEPT !.client = client]
           v == [w EXCEPT !.client = client]
<1>1. /\ w \in ResourceRecord /\ w.databases = r.databases /\ w.runtime = r.runtime
      /\ w.delivered = r.delivered /\ w.client = r.client /\ w.secret = TRUE
  BY Zenon DEF ResourceRecord
<1>2. client.status = "Active" /\ client \in [status : {"None", "Active", "Revoked"},
                                              createdAt : Times \cup {NoClient.createdAt}]
  OBVIOUS
<1> HIDE DEF client, w
<1>3. /\ q \in ResourceRecord /\ q.databases = r.databases /\ q.runtime = r.runtime
      /\ q.delivered = r.delivered /\ q.client = client /\ q.secret = r.secret
  BY <1>2 DEF ResourceRecord
<1>4. /\ v \in ResourceRecord /\ v.databases = r.databases /\ v.runtime = r.runtime
      /\ v.delivered = r.delivered /\ v.client = client /\ v.secret = TRUE
  BY <1>1, <1>2 DEF ResourceRecord
<1> HIDE DEF q, v
<1>5. CASE r.client.status = "Active"
  <2>1. c = [Keeps(r) EXCEPT !.ok = ((app.oidc = "confidential") = r.secret)]
    BY <1>5 DEF RegisterClient
  <2>2. Leaves(c) = {r} /\ c.end = r
    BY <2>1 DEF Keeps, Succeeds, Leaves
  <2>3. c.ok = ((app.oidc = "confidential") = r.secret)
    BY <2>1 DEF Keeps, Succeeds
  <2>4. r.secret \in BOOLEAN
    BY DEF ResourceRecord
  <2>5. c.ok /\ app.oidc = "confidential" => r.secret
    BY <2>3, <2>4
  <2> QED
    BY <1>5, <2>2, <2>5
<1>6. CASE r.client.status # "Active" /\ app.oidc = "public"
  <2>1. CASE c = Fails(r)
    <3>1. Leaves(c) = {r} /\ c.ok = FALSE /\ c.end = r
      BY <2>1, FailsCall, Zenon
    <3> QED
      BY <1>6, <3>1
  <2>2. CASE c = Succeeds({r}, q)
    <3>1. (\A x \in Leaves(c) : x = r \/ x = q) /\ c.end = q /\ q \in Leaves(c)
      BY <2>2 DEF Succeeds, Leaves
    <3> QED
      BY <1>2, <1>3, <1>6, <3>1
  <2> QED
    BY <1>6, <2>1, <2>2, Zenon DEF RegisterClient, InsertClient, q, client
<1>7. CASE r.client.status # "Active" /\ app.oidc # "public"
  <2> DEFINE second == InsertClient(w, at)
  <2>1. c = [through |-> ({r} \cup {w}) \cup second.through, end |-> second.end,
             ok |-> second.ok]
    BY <1>7, Zenon DEF RegisterClient, Then, Succeeds, w
  <2>2. CASE second = Fails(w)
    <3>1. second.through = {w} /\ second.end = w /\ second.ok = FALSE
      BY <2>2 DEF Fails
    <3>2. (\A x \in Leaves(c) : x = r \/ x = w) /\ c.end = w /\ w \in Leaves(c) /\ c.ok = FALSE
      BY <2>1, <3>1 DEF Leaves
    <3> QED
      BY <1>1, <1>7, <3>2
  <2>3. CASE second = Succeeds({w}, v)
    <3>1. second.through = {w} \cup {v} /\ second.end = v
      BY <2>3 DEF Succeeds
    <3>2. (\A x \in Leaves(c) : x = r \/ x = w \/ x = v) /\ c.end = v /\ v \in Leaves(c)
      BY <2>1, <3>1 DEF Leaves
    <3> QED
      BY <1>1, <1>2, <1>4, <1>7, <3>2
  <2> QED
    BY <2>2, <2>3 DEF InsertClient, v, client
<1> QED
  BY <1>5, <1>6, <1>7

\* deliver_oidc_client_secret: the secret is added to the namespace.
LEMMA DeliverCall ==
    ASSUME NEW r \in ResourceRecord, NEW c, c = DeliverSecret(r)
    PROVE  /\ c.ok => c.end.delivered
           /\ c.end \in Leaves(c)
           /\ \A s \in Leaves(c) :
                 /\ s \in ResourceRecord
                 /\ s.databases = r.databases /\ s.runtime = r.runtime
                 /\ s.client = r.client /\ s.secret = r.secret
                 /\ r.delivered => s.delivered
<1> DEFINE s == [r EXCEPT !.delivered = TRUE]
<1>1. /\ s \in ResourceRecord /\ s.databases = r.databases /\ s.runtime = r.runtime
      /\ s.client = r.client /\ s.secret = r.secret /\ s.delivered = TRUE
  BY Zenon DEF ResourceRecord
<1> HIDE DEF s
<1>2. CASE c = Keeps(r) /\ r.delivered
  <2>1. Leaves(c) = {r} /\ c.end = r
    BY <1>2, KeepsCall, Zenon
  <2> QED
    BY <1>2, <2>1
<1>3. CASE c = Fails(r)
  <2>1. Leaves(c) = {r} /\ c.ok = FALSE /\ c.end = r
    BY <1>3, FailsCall, Zenon
  <2> QED
    BY <2>1
<1>4. CASE c = Succeeds({r}, s)
  <2>1. (\A x \in Leaves(c) : x = r \/ x = s) /\ c.end = s /\ s \in Leaves(c)
    BY <1>4 DEF Succeeds, Leaves
  <2> QED
    BY <1>1, <2>1
<1> QED
  BY <1>2, <1>3, <1>4, Zenon DEF DeliverSecret, s

\* Registration, then delivery of the secret of a confidential client.
LEMMA ApplyOidcCall ==
    ASSUME NEW r \in ResourceRecord, NEW app \in Declarations, NEW at \in Times,
           NEW c, c = ApplyOidcClient(r, app, at)
    PROVE  /\ c.ok => /\ c.end.client.status = "Active"
                      /\ app.oidc = "confidential" => c.end.secret /\ c.end.delivered
           /\ \A s \in Leaves(c) :
                 /\ s \in ResourceRecord
                 /\ s.databases = r.databases /\ s.runtime = r.runtime
                 /\ r.delivered => s.delivered
                 /\ r.client.status = "Active" => s.client = r.client /\ s.secret = r.secret
<1> DEFINE first == RegisterClient(r, app, at)
           m == first.end
           second == IF app.oidc = "confidential" THEN DeliverSecret(m) ELSE Keeps(m)
<1>1. /\ first.ok => /\ m.client.status = "Active"
                     /\ app.oidc = "confidential" => m.secret
      /\ m \in Leaves(first)
      /\ \A s \in Leaves(first) :
            /\ s \in ResourceRecord
            /\ s.databases = r.databases /\ s.runtime = r.runtime
            /\ s.delivered = r.delivered
            /\ r.client.status = "Active" => s = r
  BY RegisterCall
<1>2. c = IF first.ok
          THEN [through |-> first.through \cup second.through, end |-> second.end,
                ok |-> second.ok]
          ELSE first
  BY DEF ApplyOidcClient, Then
<1> HIDE DEF first
<1>3. CASE ~ first.ok
  BY <1>1, <1>2, <1>3
<1>4. CASE first.ok
  <2>1. m \in ResourceRecord /\ m.databases = r.databases /\ m.runtime = r.runtime
        /\ m.delivered = r.delivered /\ (r.client.status = "Active" => m = r)
    BY <1>1
  <2>2. /\ second.ok /\ app.oidc = "confidential" => second.end.delivered
        /\ second.end \in Leaves(second)
        /\ \A s \in Leaves(second) :
              /\ s \in ResourceRecord
              /\ s.databases = m.databases /\ s.runtime = m.runtime
              /\ s.client = m.client /\ s.secret = m.secret
              /\ m.delivered => s.delivered
    <3>1. CASE app.oidc = "confidential"
      <4>1. second = DeliverSecret(m)
        BY <3>1
      <4> HIDE DEF second, m
      <4> QED
        BY <2>1, <4>1, DeliverCall
    <3>2. CASE app.oidc # "confidential"
      <4>1. Leaves(second) = {m} /\ second.end = m
        BY <3>2, KeepsCall, Zenon
      <4> QED
        BY <2>1, <3>2, <4>1
    <3> QED
      BY <3>1, <3>2
  <2> HIDE DEF second, m
  <2>3. /\ \A x \in Leaves(c) : x \in Leaves(first) \/ x \in Leaves(second)
        /\ c.end = second.end /\ c.ok = second.ok
    BY <1>2, <1>4 DEF Leaves
  <2>4. ASSUME c.ok
        PROVE  /\ c.end.client.status = "Active"
               /\ app.oidc = "confidential" => c.end.secret /\ c.end.delivered
    BY <1>1, <1>4, <2>2, <2>3, <2>4
  <2>5. ASSUME NEW s \in Leaves(c)
        PROVE  /\ s \in ResourceRecord
               /\ s.databases = r.databases /\ s.runtime = r.runtime
               /\ r.delivered => s.delivered
               /\ r.client.status = "Active" => s.client = r.client /\ s.secret = r.secret
    BY <1>1, <2>1, <2>2, <2>3
  <2> QED
    BY <2>4, <2>5
<1> QED
  BY <1>3, <1>4

\* revoke_for_installation: a client that is not active never becomes active.
LEMMA RevokeCall ==
    ASSUME NEW r \in ResourceRecord, NEW at, NEW c, c = RevokeClient(r, at)
    PROVE  /\ c.ok => c.end.client.status # "Active"
           /\ c.end \in Leaves(c)
           /\ \A s \in Leaves(c) :
                 /\ s \in ResourceRecord
                 /\ s.databases = r.databases /\ s.runtime = r.runtime
                 /\ s.delivered = r.delivered /\ s.secret = r.secret
                 /\ r.client.status # "Active" => s.client.status # "Active"
<1> DEFINE s == [r EXCEPT !.client.status = "Revoked"]
<1>1. s \in ResourceRecord
  BY DEF ResourceRecord
<1>2. /\ s.databases = r.databases /\ s.runtime = r.runtime
      /\ s.delivered = r.delivered /\ s.secret = r.secret /\ s.client.status = "Revoked"
  BY DEF ResourceRecord
<1> HIDE DEF s
<1>3. CASE c = Keeps(r) /\ r.client.status # "Active"
  <2>1. Leaves(c) = {r} /\ c.end = r
    BY <1>3, KeepsCall, Zenon
  <2> QED
    BY <1>3, <2>1
<1>4. CASE c = Fails(r)
  <2>1. Leaves(c) = {r} /\ c.ok = FALSE /\ c.end = r
    BY <1>4, FailsCall, Zenon
  <2> QED
    BY <2>1
<1>5. CASE c = Succeeds({r}, s)
  <2>1. (\A x \in Leaves(c) : x = r \/ x = s) /\ c.end = s /\ s \in Leaves(c)
    BY <1>5 DEF Succeeds, Leaves
  <2> QED
    BY <1>1, <1>2, <2>1
<1> QED
  BY <1>3, <1>4, <1>5, Zenon DEF RevokeClient, s

\* The delivered secret is deleted, the client revoked, the stored secret deleted.
LEMMA RemoveOidcCall ==
    ASSUME NEW r \in ResourceRecord, NEW at, NEW c, c = RemoveOidcMaterial(r, at)
    PROVE  /\ c.ok => c.end.client.status # "Active" /\ ~ c.end.secret /\ ~ c.end.delivered
           /\ \A s \in Leaves(c) :
                 /\ s \in ResourceRecord
                 /\ s.databases = r.databases /\ s.runtime = r.runtime
                 /\ ~ r.delivered => ~ s.delivered
                 /\ ~ r.secret => ~ s.secret
                 /\ r.client.status # "Active" => s.client.status # "Active"
<1> DEFINE d == [r EXCEPT !.delivered = FALSE]
           rv == RevokeClient(d, at)
           m == rv.end
           e == [m EXCEPT !.secret = FALSE]
           first == [through |-> ({r} \cup {d}) \cup rv.through, end |-> m, ok |-> rv.ok]
<1>1. /\ d \in ResourceRecord /\ d.databases = r.databases /\ d.runtime = r.runtime
      /\ d.delivered = FALSE /\ d.secret = r.secret /\ d.client = r.client
  BY Zenon DEF ResourceRecord
<1>2. c = IF rv.ok THEN [through |-> first.through \cup ({m} \cup {e}), end |-> e, ok |-> TRUE]
          ELSE first
  BY Zenon DEF RemoveOidcMaterial, Then, Succeeds
<1> HIDE DEF d
<1>3. /\ rv.ok => m.client.status # "Active"
      /\ m \in Leaves(rv)
      /\ \A s \in Leaves(rv) :
            /\ s \in ResourceRecord
            /\ s.databases = d.databases /\ s.runtime = d.runtime
            /\ s.delivered = d.delivered /\ s.secret = d.secret
            /\ d.client.status # "Active" => s.client.status # "Active"
  BY <1>1, RevokeCall
<1> HIDE DEF rv
<1>4. m \in ResourceRecord
  BY <1>3
<1> HIDE DEF m
<1>5. /\ e \in ResourceRecord /\ e.databases = m.databases /\ e.runtime = m.runtime
      /\ e.delivered = m.delivered /\ e.secret = FALSE /\ e.client = m.client
  BY <1>4, Zenon DEF ResourceRecord
<1> HIDE DEF e
<1>6. /\ \A x \in Leaves(c) : x = r \/ x = d \/ x \in Leaves(rv) \/ x = e
      /\ c.ok => c.end = e /\ rv.ok
  <2>1. CASE rv.ok
    BY <1>2, <1>3, <2>1 DEF Leaves
  <2>2. CASE ~ rv.ok
    BY <1>2, <1>3, <2>2 DEF Leaves
  <2> QED
    BY <2>1, <2>2
<1> HIDE DEF first
<1>7. c.ok => c.end.client.status # "Active" /\ ~ c.end.secret /\ ~ c.end.delivered
  BY <1>1, <1>3, <1>5, <1>6
<1>8. ASSUME NEW s \in Leaves(c)
      PROVE  /\ s \in ResourceRecord
             /\ s.databases = r.databases /\ s.runtime = r.runtime
             /\ ~ r.delivered => ~ s.delivered
             /\ ~ r.secret => ~ s.secret
             /\ r.client.status # "Active" => s.client.status # "Active"
  BY <1>1, <1>3, <1>5, <1>6
<1> QED
  BY <1>7, <1>8

-----------------------------------------------------------------------------
(***************************************************************************)
(* When a resource of installation i, with record r and snapshot s, is     *)
(* gone, and when it is made.                                              *)
(***************************************************************************)
Gone(res, i, r, s) ==
    /\ res = "AppDatabases" => r.databases # "Active"
    /\ res = "RuntimeInstance" => r.runtime = "Absent"
    /\ res = "OidcClient" => r.client.status # "Active" /\ ~ r.secret /\ ~ r.delivered
    /\ res = "RuntimeActivation" => r.runtime # "Active"
    /\ res = "PlatformSnapshot" => i \notin s.apps

Made(res, i, r, s) ==
    /\ res = "AppDatabases" => r.databases = "Active"
    /\ res = "RuntimeInstance" => (App(i).runtime = "Container" => r.runtime # "Absent")
    /\ res = "OidcClient" => /\ r.client.status = "Active"
                             /\ App(i).oidc = "confidential" => r.secret /\ r.delivered
    /\ res = "RuntimeActivation" => (App(i).runtime = "Container" => r.runtime = "Active")
    /\ res = "PlatformSnapshot" => i \in s.apps

\* The secret of a confidential client is there while the container runs.
HasSecret(i, r) == App(i).oidc = "confidential" /\ r.runtime = "Active" => r.delivered

Participants == {"AppDatabases", "RuntimeInstance", "OidcClient", "RuntimeActivation"}

(***************************************************************************)
(* apply_resource makes its resource when it reports success, and however  *)
(* it ends it unmakes nothing and makes nothing else.                      *)
(***************************************************************************)
LEMMA ApplyEffect ==
    ASSUME NEW i \in Installations, NEW r \in ResourceRecord, NEW at \in Times, NEW s,
           NEW res \in Participants, NEW c, c = ApplyResource(res, r, App(i), at)
    PROVE  /\ c.ok => Made(res, i, c.end, s)
           /\ \A x \in Leaves(c) :
                 /\ x \in ResourceRecord
                 /\ \A other \in Resources :
                       /\ other # res /\ Gone(other, i, r, s) => Gone(other, i, x, s)
                       /\ Made(other, i, r, s) => Made(other, i, x, s)
                 /\ HasSecret(i, r) /\ (res = "RuntimeActivation" => Made("OidcClient", i, r, s)
                                          \/ App(i).oidc # "confidential")
                       => HasSecret(i, x)
<1> DEFINE app == App(i)
<1>0. app \in Declarations
  BY ManifestAssumption
<1>1. CASE res = "AppDatabases"
  <2>1. c = ProvisionDatabases(r)
    BY <1>1 DEF ApplyResource
  <2> HIDE DEF app
  <2> QED
    BY <1>1, <2>1, ProvisionCall DEF Gone, Made, HasSecret, Resources
<1>2. CASE res = "RuntimeInstance"
  <2>1. c = PrepareRuntime(r, app)
    BY <1>2 DEF ApplyResource
  <2>2. /\ c.ok /\ app.runtime = "Container" => c.end.runtime # "Absent"
        /\ \A x \in Leaves(c) :
              /\ x \in ResourceRecord
              /\ x.databases = r.databases /\ x.delivered = r.delivered
              /\ x.client = r.client /\ x.secret = r.secret
              /\ x.runtime = r.runtime \/ (r.runtime = "Absent" /\ x.runtime = "Prepared")
    BY <1>0, <2>1, PrepareCall
  <2> QED
    BY <1>2, <2>2 DEF Gone, Made, HasSecret, Resources
<1>3. CASE res = "OidcClient"
  <2>1. c = ApplyOidcClient(r, app, at)
    BY <1>3 DEF ApplyResource
  <2>2. /\ c.ok => /\ c.end.client.status = "Active"
                   /\ app.oidc = "confidential" => c.end.secret /\ c.end.delivered
        /\ \A x \in Leaves(c) :
              /\ x \in ResourceRecord
              /\ x.databases = r.databases /\ x.runtime = r.runtime
              /\ r.delivered => x.delivered
              /\ r.client.status = "Active" => x.client = r.client /\ x.secret = r.secret
    BY <1>0, <2>1, ApplyOidcCall
  <2> QED
    BY <1>3, <2>2 DEF Gone, Made, HasSecret, Resources
<1>4. CASE res = "RuntimeActivation"
  <2>1. c = ActivateRuntime(r, app)
    BY <1>4 DEF ApplyResource
  <2>2. /\ c.ok /\ app.runtime = "Container" => c.end.runtime = "Active"
        /\ \A x \in Leaves(c) :
              /\ x \in ResourceRecord
              /\ x.databases = r.databases /\ x.delivered = r.delivered
              /\ x.client = r.client /\ x.secret = r.secret
              /\ x.runtime = r.runtime \/ (r.runtime = "Prepared" /\ x.runtime = "Active")
    BY <1>0, <2>1, ActivateCall
  <2> QED
    BY <1>4, <2>2 DEF Gone, Made, HasSecret, Resources
<1> QED
  BY <1>1, <1>2, <1>3, <1>4 DEF Participants

(***************************************************************************)
(* A removal makes its resource gone when it reports success, and however  *)
(* it ends it brings nothing back.                                         *)
(***************************************************************************)
LEMMA RemoveEffect ==
    ASSUME NEW i \in Installations, NEW r \in ResourceRecord, NEW at, NEW s,
           NEW res \in Participants, NEW c, c = RemoveResource(res, r, at)
    PROVE  /\ c.ok => Gone(res, i, c.end, s)
           /\ \A x \in Leaves(c) :
                 /\ x \in ResourceRecord
                 /\ \A other \in Resources : Gone(other, i, r, s) => Gone(other, i, x, s)
                 /\ HasSecret(i, r) /\ (res = "OidcClient" => r.runtime # "Active")
                       => HasSecret(i, x)
<1>1. CASE res = "AppDatabases"
  <2>1. c = RetainDatabases(r)
    BY <1>1 DEF RemoveResource
  <2> QED
    BY <1>1, <2>1, RetainCall DEF Gone, HasSecret, Resources
<1>2. CASE res = "RuntimeInstance"
  <2>1. c = RemoveRuntime(r)
    BY <1>2 DEF RemoveResource
  <2> QED
    BY <1>2, <2>1, RemoveRuntimeCall DEF Gone, HasSecret, Resources
<1>3. CASE res = "OidcClient"
  <2>1. c = RemoveOidcMaterial(r, at)
    BY <1>3 DEF RemoveResource
  <2> QED
    BY <1>3, <2>1, RemoveOidcCall DEF Gone, HasSecret, Resources
<1>4. CASE res = "RuntimeActivation"
  <2>1. c = DeactivateRuntime(r)
    BY <1>4 DEF RemoveResource
  <2> QED
    BY <1>4, <2>1, DeactivateCall DEF Gone, HasSecret, Resources
<1> QED
  BY <1>1, <1>2, <1>3, <1>4 DEF Participants

-----------------------------------------------------------------------------
(***************************************************************************)
(* What the journal says about a resource.  An install that has not begun  *)
(* it, or has undone it, and an uninstall that has removed it, leave it    *)
(* gone; an install that has applied it leaves it made until an uninstall  *)
(* starts.                                                                 *)
(***************************************************************************)
Undone(op, res) ==
    \A k \in DOMAIN op.steps : op.plan[k] = res => op.steps[k] \in {"Pending", "Compensated"}

Done(op, res) ==
    \E k \in DOMAIN op.steps : op.plan[k] = res /\ op.steps[k] = "Applied"

Those(j, t, i, kind) == {id \in In(j) : t[id] = i /\ j[id].kind = kind}

GoneBy(j, t, i, res) ==
    \/ \A id \in In(j) : t[id] # i
    \/ \E a \in Those(j, t, i, "Install") : Undone(j[a], res)
    \/ \E u \in Those(j, t, i, "Uninstall") : Done(j[u], res)

MadeBy(j, t, i, res) ==
    /\ \E a \in Those(j, t, i, "Install") : Done(j[a], res)
    /\ Those(j, t, i, "Uninstall") = {}

ResourcesOK(j, t, s, R) ==
    /\ R \in [Installations -> ResourceRecord]
    /\ \A i \in Installations :
          /\ HasSecret(i, R[i])
          /\ \A res \in Resources :
                /\ GoneBy(j, t, i, res) => Gone(res, i, R[i], s)
                /\ MadeBy(j, t, i, res) => Made(res, i, R[i], s)

(***************************************************************************)
(* One operation at a time; an installation is installed once and removed  *)
(* once, and its uninstall, which is not compensated, follows a committed  *)
(* install.                                                                *)
(***************************************************************************)
HistoryOK(j, t) ==
    /\ \A a, b \in In(j) : ~ IsTerminal(j[a]) /\ ~ IsTerminal(j[b]) => a = b
    /\ \A a, b \in In(j) : t[a] = t[b] /\ j[a].kind = j[b].kind => a = b
    /\ \A u \in In(j) : j[u].kind = "Uninstall" =>
          /\ j[u].phase \in {"Applying", "Committed"}
          /\ \E a \in Those(j, t, t[u], "Install") : j[a].phase = "Committed"

\* The installs and the uninstalls of one installation are journal entries.
LEMMA ThoseAreIn ==
    ASSUME NEW j, NEW t, NEW i
    PROVE  /\ \A a \in Those(j, t, i, "Install") :
                 a \in In(j) /\ t[a] = i /\ j[a].kind = "Install"
           /\ \A u \in Those(j, t, i, "Uninstall") :
                 u \in In(j) /\ t[u] = i /\ j[u].kind = "Uninstall"
  BY DEF Those

\* A transition of an operation that is not over keeps the history of every
\* installation in order, as long as no uninstall is turned round.
LEMMA TransitionKeepsHistory ==
    ASSUME NEW j, NEW t, JournalOK(j, t), HistoryOK(j, t), NEW id \in In(j),
           ~ IsTerminal(j[id]), NEW next, Progress(j[id], next),
           next.kind = "Uninstall" => next.phase \in {"Applying", "Committed"},
           NEW j2, j2 = [j EXCEPT ![id] = next]
    PROVE  HistoryOK(j2, t)
<1>1. id \in OperationIds /\ id \in DOMAIN j /\ next \in Operation /\ next # NoOperation
      /\ next.kind = j[id].kind
  BY RunnerAssumption DEF In, JournalOK, Progress
<1>2. /\ In(j2) = In(j) /\ j2[id] = next
      /\ \A a \in In(j) : a # id => j2[a] = j[a]
  BY <1>1 DEF In, JournalOK
<1>3. \A a \in In(j) : j2[a].kind = j[a].kind
  BY <1>1, <1>2
<1>4. ASSUME NEW a \in In(j2), NEW b \in In(j2), ~ IsTerminal(j2[a]), ~ IsTerminal(j2[b])
      PROVE  a = b
  BY <1>2, <1>4 DEF HistoryOK
<1>5. ASSUME NEW a \in In(j2), NEW b \in In(j2), t[a] = t[b], j2[a].kind = j2[b].kind
      PROVE  a = b
  BY <1>2, <1>3, <1>5 DEF HistoryOK
<1>6. ASSUME NEW u \in In(j2), j2[u].kind = "Uninstall"
      PROVE  /\ j2[u].phase \in {"Applying", "Committed"}
             /\ \E a \in Those(j2, t, t[u], "Install") : j2[a].phase = "Committed"
  <2>1. j[u].kind = "Uninstall" /\ u \in In(j)
    BY <1>2, <1>3, <1>6
  <2>2. PICK a \in In(j) : t[a] = t[u] /\ j[a].kind = "Install" /\ j[a].phase = "Committed"
    BY <2>1 DEF HistoryOK, Those
  <2>3. a # id
    BY <2>2 DEF IsTerminal
  <2>4. a \in Those(j2, t, t[u], "Install") /\ j2[a].phase = "Committed"
    BY <1>2, <2>2, <2>3 DEF Those
  <2>5. j2[u].phase \in {"Applying", "Committed"}
    BY <1>2, <1>6, <2>1 DEF HistoryOK
  <2> QED
    BY <2>4, <2>5
<1> QED
  BY <1>4, <1>5, <1>6, Zenon DEF HistoryOK

\* A transition says nothing new about a resource, except what is the case.
LEMMA TransitionKeepsResources ==
    ASSUME NEW j, NEW t, NEW s, NEW R, JournalOK(j, t), ResourcesOK(j, t, s, R),
           NEW id \in In(j), NEW next, Progress(j[id], next),
           \A k \in DOMAIN next.steps :
              /\ next.kind = "Install" /\ next.steps[k] \in {"Pending", "Compensated"} =>
                    \/ j[id].steps[k] \in {"Pending", "Compensated"}
                    \/ Gone(next.plan[k], t[id], R[t[id]], s)
              /\ next.kind = "Install" /\ next.steps[k] = "Applied" =>
                    \/ j[id].steps[k] = "Applied"
                    \/ Made(next.plan[k], t[id], R[t[id]], s)
              /\ next.kind = "Uninstall" /\ next.steps[k] = "Applied" =>
                    \/ j[id].steps[k] = "Applied"
                    \/ Gone(next.plan[k], t[id], R[t[id]], s),
           NEW j2, j2 = [j EXCEPT ![id] = next]
    PROVE  ResourcesOK(j2, t, s, R)
<1>1. /\ id \in OperationIds /\ id \in DOMAIN j /\ next \in Operation /\ next # NoOperation
      /\ next.kind = j[id].kind /\ next.plan = j[id].plan /\ j[id] \in Operation
  BY RunnerAssumption DEF In, JournalOK, Progress
<1>2. /\ In(j2) = In(j) /\ j2[id] = next
      /\ \A a \in In(j) : a # id => j2[a] = j[a]
  BY <1>1 DEF In, JournalOK
<1>3. DOMAIN next.steps = 1 .. Len(next.plan) /\ DOMAIN j[id].steps = 1 .. Len(j[id].plan)
  BY <1>1, OperationFacts
<1>4. \A a \in In(j) : j2[a].kind = j[a].kind
  BY <1>1, <1>2
<1>5. ASSUME NEW i \in Installations, NEW res \in Resources, GoneBy(j2, t, i, res)
      PROVE  Gone(res, i, R[i], s)
  <2>1. GoneBy(j, t, i, res) => Gone(res, i, R[i], s)
    BY DEF ResourcesOK
  <2>2. CASE \A a \in In(j2) : t[a] # i
    BY <1>2, <2>1, <2>2, Zenon DEF GoneBy
  <2>3. ASSUME NEW a \in Those(j2, t, i, "Install"), Undone(j2[a], res)
        PROVE  Gone(res, i, R[i], s)
    <3>0. a \in In(j) /\ t[a] = i /\ j2[a].kind = "Install"
      BY <1>2, <2>3 DEF Those
    <3>1. a \in Those(j, t, i, "Install") /\ a \in In(j)
      BY <1>4, <3>0 DEF Those
    <3>2. CASE a # id
      <4>1. Undone(j[a], res)
        BY <1>2, <2>3, <3>1, <3>2
      <4> QED
        BY <2>1, <3>1, <4>1 DEF GoneBy
    <3>3. CASE a = id
      <4>1. t[id] = i /\ next.kind = "Install" /\ Undone(next, res)
        BY <1>1, <1>2, <2>3, <3>1, <3>3 DEF Those
      <4>2. CASE Undone(j[id], res)
        BY <2>1, <3>1, <3>3, <4>2 DEF GoneBy
      <4>3. CASE ~ Undone(j[id], res)
        <5>1. PICK k \in DOMAIN j[id].steps :
                 j[id].plan[k] = res /\ j[id].steps[k] \notin {"Pending", "Compensated"}
          BY <4>3 DEF Undone
        <5>2. k \in DOMAIN next.steps /\ next.plan[k] = res
          BY <1>1, <1>3, <5>1
        <5>3. next.steps[k] \in {"Pending", "Compensated"}
          BY <4>1, <5>2 DEF Undone
        <5> QED
          BY <4>1, <5>1, <5>2, <5>3
      <4> QED
        BY <4>2, <4>3
    <3> QED
      BY <3>2, <3>3
  <2>4. ASSUME NEW u \in Those(j2, t, i, "Uninstall"), Done(j2[u], res)
        PROVE  Gone(res, i, R[i], s)
    <3>0. u \in In(j) /\ t[u] = i /\ j2[u].kind = "Uninstall"
      BY <1>2, <2>4 DEF Those
    <3>1. u \in Those(j, t, i, "Uninstall") /\ u \in In(j)
      BY <1>4, <3>0 DEF Those
    <3>2. CASE u # id
      <4>1. Done(j[u], res)
        BY <1>2, <2>4, <3>1, <3>2
      <4> QED
        BY <2>1, <3>1, <4>1 DEF GoneBy
    <3>3. CASE u = id
      <4>1. t[id] = i /\ next.kind = "Uninstall"
        BY <1>1, <3>1, <3>3 DEF Those
      <4>2. PICK k \in DOMAIN next.steps : next.plan[k] = res /\ next.steps[k] = "Applied"
        BY <1>2, <2>4, <3>3 DEF Done
      <4>3. CASE j[id].steps[k] = "Applied"
        <5>1. Done(j[id], res)
          BY <1>1, <1>3, <4>2, <4>3 DEF Done
        <5> QED
          BY <2>1, <3>1, <3>3, <5>1 DEF GoneBy
      <4> QED
        BY <4>1, <4>2, <4>3
    <3> QED
      BY <3>2, <3>3
  <2> QED
    BY <1>5, <2>2, <2>3, <2>4, Zenon DEF GoneBy
<1>6. ASSUME NEW i \in Installations, NEW res \in Resources, MadeBy(j2, t, i, res)
      PROVE  Made(res, i, R[i], s)
  <2>1. MadeBy(j, t, i, res) => Made(res, i, R[i], s)
    BY DEF ResourcesOK
  <2>2. PICK a \in Those(j2, t, i, "Install") : Done(j2[a], res)
    BY <1>6 DEF MadeBy
  <2>0. a \in In(j) /\ t[a] = i /\ j2[a].kind = "Install"
    BY <1>2, <2>2 DEF Those
  <2>a. ASSUME NEW u \in Those(j, t, i, "Uninstall") PROVE FALSE
    <3>1. u \in In(j) /\ t[u] = i /\ j[u].kind = "Uninstall"
      BY <2>a DEF Those
    <3>2. u \in Those(j2, t, i, "Uninstall")
      BY <1>2, <1>4, <3>1 DEF Those
    <3> QED
      BY <1>6, <3>2, Zenon DEF MadeBy
  <2>3. a \in Those(j, t, i, "Install") /\ a \in In(j) /\ Those(j, t, i, "Uninstall") = {}
    BY <1>4, <2>0, <2>a DEF Those
  <2>4. CASE Done(j[a], res)
    BY <2>1, <2>3, <2>4 DEF MadeBy
  <2>5. CASE ~ Done(j[a], res)
    <3>1. a = id
      BY <1>2, <2>2, <2>3, <2>5
    <3>2. PICK k \in DOMAIN next.steps : next.plan[k] = res /\ next.steps[k] = "Applied"
      BY <1>2, <2>2, <3>1 DEF Done
    <3>3. j[id].steps[k] # "Applied"
      BY <1>1, <1>3, <2>5, <3>1, <3>2 DEF Done
    <3>4. t[id] = i /\ next.kind = "Install"
      BY <1>1, <2>3, <3>1 DEF Those
    <3> QED
      BY <3>2, <3>3, <3>4
  <2> QED
    BY <2>4, <2>5
<1> QED
  BY <1>5, <1>6, Zenon DEF ResourcesOK

-----------------------------------------------------------------------------
(***************************************************************************)
(* What the only process holds.  Its operation is the stored one; the      *)
(* state it will publish is the stored one but for the target; when its    *)
(* participant has returned, the step in progress has had its effect; and  *)
(* a recovery has at most one operation to resume.                         *)
(***************************************************************************)
Achieved(op, k, i, r, s) ==
    IF op.kind = "Install" /\ op.phase = "Applying"
    THEN Made(op.plan[k], i, r, s)
    ELSE Gone(op.plan[k], i, r, s)

StagesOnly(op, i, staged, s) ==
    /\ \A other \in Installations \ {i} : other \in staged.apps <=> other \in s.apps
    /\ i \in staged.apps <=> op.kind = "Install" /\ op.phase = "Applying"

LoneOK(j, t, s, R, q) ==
    /\ q.pc = "running" =>
          /\ q.op = j[q.id] /\ ~ IsTerminal(q.op) /\ q.todo = <<>>
          /\ StagesOnly(q.op, t[q.id], q.staged, s)
          /\ q.called => \E k \in InProgress(q.op) :
                            Achieved(q.op, k, t[q.id], R[t[q.id]], s)
    /\ q.pc = "found" =>
          /\ q.op = j[q.id] /\ ~ IsTerminal(q.op) /\ q.op.kind = "Install"
          /\ q.live = s
    /\ q.pc \in {"listing", "recovering"} => q.live = s /\ Len(q.todo) <= 1
    /\ q.pc = "listing" => \A k \in DOMAIN q.todo : ~ IsTerminal(j[q.todo[k].id])
    /\ q.pc = "recovering" =>
          \A k \in DOMAIN q.todo :
             q.todo[k].op = j[q.todo[k].id] /\ ~ IsTerminal(q.todo[k].op)

RecoveryInv ==
    /\ RunnerInv
    /\ HistoryOK(journal, target)
    /\ ResourcesOK(journal, target, snapshot, resources)
    /\ \A p \in Processes : LoneOK(journal, target, snapshot, resources, proc[p])

(***************************************************************************)
(* A new operation while no other is incomplete: an install of an          *)
(* installation that was never a target, or the uninstall of one that is   *)
(* advertised.                                                             *)
(***************************************************************************)
Enters(j, t, id, i, kind, op, j2, t2) ==
    /\ id \in OperationIds \ In(j) /\ i \in Installations /\ kind \in RunnerKinds
    /\ \E at \in Times : op = NewOperation(kind, PlanForApp(App(i), kind), at)
    /\ j2 = [j EXCEPT ![id] = op] /\ t2 = [t EXCEPT ![id] = i]

Entered(j, t, id, i, kind, op, j2, t2) ==
    /\ In(j2) = In(j) \cup {id} /\ j2[id] = op /\ t2[id] = i
    /\ \A a \in In(j) : a # id /\ j2[a] = j[a] /\ t2[a] = t[a]
    /\ op.kind = kind /\ op.phase = "Applying"
    /\ \A k \in DOMAIN op.steps : op.steps[k] = "Pending"

\* Starting an operation adds one entry and leaves the others.
LEMMA NewEntry ==
    ASSUME NEW j, NEW t, NEW id, NEW i, NEW kind, NEW op, NEW j2, NEW t2,
           JournalOK(j, t), Enters(j, t, id, i, kind, op, j2, t2)
    PROVE  Entered(j, t, id, i, kind, op, j2, t2)
<1>0. /\ id \in OperationIds /\ id \notin In(j) /\ i \in Installations /\ kind \in RunnerKinds
      /\ \E at \in Times : op = NewOperation(kind, PlanForApp(App(i), kind), at)
      /\ j2 = [j EXCEPT ![id] = op] /\ t2 = [t EXCEPT ![id] = i]
  BY DEF Enters
<1>1. /\ op \in Operation /\ op.kind = kind /\ op.phase = "Applying"
      /\ DOMAIN op.steps = 1 .. Len(op.plan)
      /\ \A k \in 1 .. Len(op.plan) : op.steps[k] = "Pending"
  BY <1>0, NewOperationFields
<1>2. /\ op # NoOperation
      /\ j \in [OperationIds -> Operation \cup {NoOperation}]
      /\ t \in [OperationIds -> Installations \cup {SomeInstallation}]
  BY <1>1, RunnerAssumption DEF JournalOK
<1>3. j2[id] = op /\ t2[id] = i
  BY <1>0, <1>2
<1>4. \A a \in OperationIds : a # id => j2[a] = j[a] /\ t2[a] = t[a]
  BY <1>0, <1>2
<1>5. In(j2) = In(j) \cup {id}
  BY <1>0, <1>2, <1>3, <1>4 DEF In
<1>6. \A a \in In(j) : a # id /\ j2[a] = j[a] /\ t2[a] = t[a]
  BY <1>0, <1>4 DEF In
<1> QED
  BY <1>1, <1>3, <1>5, <1>6 DEF Entered

\* When every operation has ended, an advertised app has a committed install and was
\* never uninstalled.
LEMMA CommittedInstall ==
    ASSUME NEW j, NEW t, NEW s, NEW R, JournalOK(j, t), HistoryOK(j, t),
           ResourcesOK(j, t, s, R), \A a \in In(j) : IsTerminal(j[a]),
           NEW i \in Installations, i \in s.apps, AppliedIn(j, t, i)
    PROVE  /\ \E a \in In(j) : t[a] = i /\ j[a].kind = "Install" /\ j[a].phase = "Committed"
           /\ \A a \in In(j) : t[a] = i => j[a].kind # "Uninstall"
<1>1. ~ GoneBy(j, t, i, "PlatformSnapshot")
  BY DEF ResourcesOK, Resources, Gone
<1>2. PICK a \in In(j) : t[a] = i /\ j[a].kind = "Install"
  BY DEF AppliedIn
<1>3. j[a].phase # "Compensated"
  <2>1. ASSUME j[a].phase = "Compensated" PROVE Undone(j[a], "PlatformSnapshot")
    BY <2>1 DEF JournalOK, Ordered, Undone
  <2>2. a \in Those(j, t, i, "Install")
    BY <1>2 DEF Those
  <2> QED
    BY <1>1, <2>1, <2>2 DEF GoneBy
<1>4. j[a].phase = "Committed"
  BY <1>3 DEF IsTerminal
<1>5. ASSUME NEW u \in In(j), t[u] = i, j[u].kind = "Uninstall" PROVE FALSE
  <2>1. j[u].phase = "Committed" /\ Ordered(j[u]) /\ j[u] \in Operation
    BY <1>5 DEF IsTerminal, HistoryOK, JournalOK, In
  <2> DEFINE n == Len(j[u].plan)
  <2>2. n \in DOMAIN j[u].steps /\ j[u].plan[n] = "PlatformSnapshot"
    BY <2>1, OperationFacts
  <2>3. Done(j[u], "PlatformSnapshot")
    BY <2>1, <2>2 DEF Ordered, Done
  <2>4. u \in Those(j, t, i, "Uninstall")
    BY <1>5 DEF Those
  <2> QED
    BY <1>1, <2>3, <2>4 DEF GoneBy
<1> QED
  BY <1>2, <1>4, <1>5

\* An install of an installation without operations, and an uninstall of one whose
\* install is committed, keep the history in order.
LEMMA NewOperationKeepsHistory ==
    ASSUME NEW j, NEW t, HistoryOK(j, t), \A a \in In(j) : IsTerminal(j[a]),
           NEW id, NEW i, NEW kind, NEW op, NEW j2, NEW t2,
           Entered(j, t, id, i, kind, op, j2, t2),
           \/ kind = "Install" /\ \A a \in In(j) : t[a] # i
           \/ /\ kind = "Uninstall" /\ \A a \in In(j) : t[a] = i => j[a].kind # "Uninstall"
              /\ \E a \in In(j) : t[a] = i /\ j[a].kind = "Install" /\ j[a].phase = "Committed"
    PROVE  HistoryOK(j2, t2)
<1>0. /\ In(j2) = In(j) \cup {id} /\ j2[id] = op /\ t2[id] = i
      /\ \A a \in In(j) : a # id /\ j2[a] = j[a] /\ t2[a] = t[a]
      /\ op.kind = kind /\ op.phase = "Applying"
  BY DEF Entered
<1>1. ASSUME NEW a \in In(j2), NEW b \in In(j2), ~ IsTerminal(j2[a]), ~ IsTerminal(j2[b])
      PROVE  a = b
  BY <1>0, <1>1
<1>2. ASSUME NEW a \in In(j2), NEW b \in In(j2), t2[a] = t2[b], j2[a].kind = j2[b].kind
      PROVE  a = b
  <2>1. CASE a \in In(j) /\ b \in In(j)
    BY <1>0, <1>2, <2>1 DEF HistoryOK
  <2>2. CASE a = id /\ b \in In(j)
    BY <1>0, <1>2, <2>2
  <2>3. CASE b = id /\ a \in In(j)
    BY <1>0, <1>2, <2>3
  <2> QED
    BY <1>0, <2>1, <2>2, <2>3
<1>3. ASSUME NEW u \in In(j2), j2[u].kind = "Uninstall"
      PROVE  /\ j2[u].phase \in {"Applying", "Committed"}
             /\ \E a \in Those(j2, t2, t2[u], "Install") : j2[a].phase = "Committed"
  <2>1. /\ j2[u].phase \in {"Applying", "Committed"}
        /\ \E a \in In(j) : t[a] = t2[u] /\ j[a].kind = "Install" /\ j[a].phase = "Committed"
    <3>1. CASE u \in In(j)
      <4>1. j[u].kind = "Uninstall" /\ t2[u] = t[u] /\ j2[u] = j[u]
        BY <1>0, <1>3, <3>1
      <4>2. j[u].phase \in {"Applying", "Committed"}
            /\ \E a \in Those(j, t, t[u], "Install") : j[a].phase = "Committed"
        BY <3>1, <4>1 DEF HistoryOK
      <4> QED
        BY <4>1, <4>2 DEF Those
    <3>2. CASE u = id
      BY <1>0, <1>3, <3>2
    <3> QED
      BY <1>0, <3>1, <3>2
  <2>2. PICK a \in In(j) : t[a] = t2[u] /\ j[a].kind = "Install" /\ j[a].phase = "Committed"
    BY <2>1
  <2>3. a \in Those(j2, t2, t2[u], "Install") /\ j2[a].phase = "Committed"
    BY <1>0, <2>2 DEF Those
  <2> QED
    BY <2>1, <2>3
<1> QED
  BY <1>1, <1>2, <1>3 DEF HistoryOK

\* A new operation, all steps pending, says nothing new about the resources.
LEMMA NewOperationKeepsResources ==
    ASSUME NEW j, NEW t, NEW s, NEW R, ResourcesOK(j, t, s, R),
           NEW id, NEW i, NEW kind, NEW op, NEW j2, NEW t2,
           Entered(j, t, id, i, kind, op, j2, t2),
           kind = "Uninstall" \/ \A a \in In(j) : t[a] # i
    PROVE  ResourcesOK(j2, t2, s, R)
<1>0. /\ In(j2) = In(j) \cup {id} /\ j2[id] = op /\ t2[id] = i
      /\ \A a \in In(j) : a # id /\ j2[a] = j[a] /\ t2[a] = t[a]
      /\ op.kind = kind /\ op.phase = "Applying"
      /\ \A res : ~ Done(op, res)
  BY DEF Entered, Done
<1>1. ASSUME NEW d \in Installations, NEW res \in Resources, GoneBy(j2, t2, d, res)
      PROVE  GoneBy(j, t, d, res)
  <2>1. CASE \A a \in In(j2) : t2[a] # d
    <3>1. \A a \in In(j) : t[a] # d
      BY <1>0, <2>1
    <3> QED
      BY <1>0, <3>1 DEF GoneBy
  <2>2. ASSUME NEW a \in Those(j2, t2, d, "Install"), Undone(j2[a], res)
        PROVE  GoneBy(j, t, d, res)
    <3>1. a \in In(j2) /\ t2[a] = d /\ j2[a].kind = "Install"
      BY <1>0, <2>2 DEF Those
    <3>2. CASE a = id
      BY <1>0, <3>1, <3>2 DEF GoneBy
    <3>3. CASE a \in In(j)
      <4>1. a \in Those(j, t, d, "Install") /\ Undone(j[a], res)
        BY <1>0, <2>2, <3>1, <3>3 DEF Those
      <4> QED
        BY <1>0, <4>1 DEF GoneBy
    <3> QED
      BY <1>0, <3>1, <3>2, <3>3
  <2>3. ASSUME NEW u \in Those(j2, t2, d, "Uninstall"), Done(j2[u], res)
        PROVE  GoneBy(j, t, d, res)
    <3>1. u \in In(j2) /\ t2[u] = d /\ j2[u].kind = "Uninstall"
      BY <1>0, <2>3 DEF Those
    <3>2. u # id
      BY <1>0, <2>3
    <3>3. u \in Those(j, t, d, "Uninstall") /\ Done(j[u], res)
      BY <1>0, <2>3, <3>1, <3>2 DEF Those
    <3> QED
      BY <1>0, <3>3 DEF GoneBy
  <2> QED
    BY <1>0, <1>1, <2>1, <2>2, <2>3 DEF GoneBy
<1>2. ASSUME NEW d \in Installations, NEW res \in Resources, MadeBy(j2, t2, d, res)
      PROVE  MadeBy(j, t, d, res)
  <2>1. PICK a \in Those(j2, t2, d, "Install") : Done(j2[a], res)
    BY <1>0, <1>2 DEF MadeBy
  <2>2. a \in In(j2) /\ t2[a] = d /\ j2[a].kind = "Install" /\ a # id
    BY <1>0, <2>1 DEF Those
  <2>3. a \in Those(j, t, d, "Install") /\ Done(j[a], res)
    BY <1>0, <2>1, <2>2 DEF Those
  <2>4. ASSUME NEW u \in Those(j, t, d, "Uninstall") PROVE FALSE
    <3>1. u \in In(j) /\ t[u] = d /\ j[u].kind = "Uninstall"
      BY <1>0, <2>4 DEF Those
    <3>2. u \in Those(j2, t2, d, "Uninstall")
      BY <1>0, <3>1 DEF Those
    <3> QED
      BY <1>0, <1>2, <3>2 DEF MadeBy
  <2> QED
    BY <1>0, <2>3, <2>4 DEF MadeBy
<1> QED
  BY <1>0, <1>1, <1>2 DEF ResourcesOK

-----------------------------------------------------------------------------
(***************************************************************************)
(* What is known of an operation with a step in progress.                  *)
(***************************************************************************)
LEMMA StepInProgress ==
    ASSUME NEW op \in Operation, Ordered(op), NEW k \in InProgress(op)
    PROVE  /\ k \in DOMAIN op.steps /\ DOMAIN op.steps = 1 .. Len(op.plan)
           /\ \/ op.phase = "Applying" /\ op.steps[k] = "Applying"
              \/ op.phase = "Compensating" /\ op.steps[k] = "Compensating"
           /\ \A d \in InProgress(op) : d = k
           /\ op.plan[k] \in Resources
<1>1. /\ k \in DOMAIN op.steps /\ op.steps[k] \in {"Applying", "Compensating"}
      /\ \A d \in InProgress(op) : d \in DOMAIN op.steps
                                   /\ op.steps[d] \in {"Applying", "Compensating"}
  BY DEF InProgress
<1>2. op.phase \in Phases /\ DOMAIN op.steps = 1 .. Len(op.plan) /\ Len(op.plan) \in Nat
      /\ op.plan \in Seq(Resources)
  BY OperationFacts
<1>3. \/ op.phase = "Applying" /\ op.steps[k] = "Applying"
      \/ op.phase = "Compensating" /\ op.steps[k] = "Compensating"
  BY <1>1, <1>2 DEF Ordered, Phases
<1>4. ASSUME NEW d \in InProgress(op) PROVE d = k
  <2>1. CASE op.phase = "Applying"
    <3>1. /\ \A m \in 1 .. d - 1 : op.steps[m] = "Applied"
          /\ \A m \in 1 .. k - 1 : op.steps[m] = "Applied"
      BY <1>1, <2>1 DEF Ordered
    <3> QED
      BY <1>1, <1>2, <3>1
  <2>2. CASE op.phase = "Compensating"
    <3>1. /\ \A m \in 1 .. d - 1 : op.steps[m] = "CompensationPending"
          /\ \A m \in 1 .. k - 1 : op.steps[m] = "CompensationPending"
      BY <1>1, <2>2 DEF Ordered
    <3> QED
      BY <1>1, <1>2, <3>1
  <2> QED
    BY <1>3, <2>1, <2>2
<1>5. op.plan[k] \in Resources
  BY <1>1, <1>2
<1> QED
  BY <1>1, <1>2, <1>3, <1>4, <1>5

\* While an install applies, no uninstall of its target is stored.
LEMMA InstallUnderWay ==
    ASSUME NEW j, NEW t, HistoryOK(j, t), NEW id \in In(j),
           j[id].kind = "Install", j[id].phase = "Applying"
    PROVE  /\ Those(j, t, t[id], "Uninstall") = {}
           /\ \A res : MadeBy(j, t, t[id], res) <=> Done(j[id], res)
           /\ \A res : GoneBy(j, t, t[id], res) <=> Undone(j[id], res)
<1> DEFINE i == t[id]
<1>1. id \in Those(j, t, i, "Install") /\ \A a \in Those(j, t, i, "Install") : a = id
  BY DEF Those, HistoryOK
<1>2. ASSUME NEW u \in Those(j, t, i, "Uninstall") PROVE FALSE
  <2>1. u \in In(j) /\ t[u] = i /\ j[u].kind = "Uninstall"
    BY <1>2 DEF Those
  <2>2. \E a \in Those(j, t, t[u], "Install") : j[a].phase = "Committed"
    BY <2>1 DEF HistoryOK
  <2> QED
    BY <1>1, <2>1, <2>2
<1> HIDE DEF i
<1>3. Those(j, t, i, "Uninstall") = {}
  BY <1>2
<1>4. t[id] = i
  BY DEF i
<1> QED
  BY <1>1, <1>3, <1>4 DEF MadeBy, GoneBy

\* While an uninstall applies, or an install is compensated, nothing counts as made.
LEMMA RemovalUnderWay ==
    ASSUME NEW j, NEW t, JournalOK(j, t), HistoryOK(j, t), NEW id \in In(j),
           ~ IsTerminal(j[id]), ~ (j[id].kind = "Install" /\ j[id].phase = "Applying"), NEW res
    PROVE  ~ MadeBy(j, t, t[id], res)
<1> DEFINE i == t[id]
<1>1. Ordered(j[id]) /\ j[id].kind \in RunnerKinds /\ j[id].phase \in Phases
  BY OperationFacts DEF JournalOK, In
<1>2. CASE j[id].kind = "Uninstall"
  <2>1. id \in Those(j, t, i, "Uninstall")
    BY <1>2 DEF Those
  <2> QED
    BY <2>1 DEF MadeBy
<1>3. CASE j[id].kind = "Install" /\ j[id].phase = "Compensating"
  <2>1. ~ Done(j[id], res)
    BY <1>1, <1>3 DEF Ordered, Done
  <2>2. \A a \in Those(j, t, i, "Install") : a = id
    BY <1>3 DEF Those, HistoryOK
  <2> QED
    BY <2>1, <2>2 DEF MadeBy
<1> QED
  BY <1>1, <1>2, <1>3 DEF RunnerKinds, Phases, IsTerminal

\* The order of a plan, by ranks.
LEMMA PlanOrder ==
    ASSUME NEW j, NEW t, JournalOK(j, t), NEW id \in In(j), NEW op, op = j[id]
    PROVE  /\ t[id] \in Installations /\ op \in Operation /\ Ordered(op)
           /\ op.kind \in RunnerKinds
           /\ Lists(op.plan, Planned(App(t[id]), op.kind), Rank(op.kind))
<1>1. /\ t[id] \in Installations /\ op \in Operation /\ Ordered(op)
      /\ op.plan = PlanForApp(App(t[id]), op.kind)
  BY DEF JournalOK, In
<1>2. op.kind \in RunnerKinds /\ App(t[id]) \in Declarations
  BY <1>1, OperationFacts, ManifestAssumption
<1> QED
  BY <1>1, <1>2, PlanLists

\* The activation of a container comes after the OIDC client, in the plan and in fact.
LEMMA SecretIsThere ==
    ASSUME NEW j, NEW t, NEW s, NEW R, JournalOK(j, t), HistoryOK(j, t),
           ResourcesOK(j, t, s, R), NEW id \in In(j), NEW op, op = j[id],
           NEW k \in InProgress(op), op.kind = "Install", op.phase = "Applying",
           op.plan[k] = "RuntimeActivation", NEW i, i = t[id]
    PROVE  Made("OidcClient", i, R[i], s) \/ App(i).oidc # "confidential"
<1> SUFFICES ASSUME App(i).oidc = "confidential"
             PROVE  Made("OidcClient", i, R[i], s)
  OBVIOUS
<1>1. /\ i \in Installations /\ op \in Operation /\ Ordered(op)
      /\ Lists(op.plan, Planned(App(i), "Install"), Rank("Install"))
  BY PlanOrder
<1>2. k \in DOMAIN op.steps /\ DOMAIN op.steps = 1 .. Len(op.plan) /\ op.steps[k] = "Applying"
  BY <1>1, StepInProgress
<1>3. PICK m \in 1 .. Len(op.plan) : op.plan[m] = "OidcClient"
  <2>1. "OidcClient" \in Planned(App(i), "Install")
    BY DEF Planned
  <2> QED
    BY <1>1, <2>1 DEF Lists
<1>4. m < k
  <2>1. /\ \A a, b \in 1 .. Len(op.plan) : a < b => Rank("Install")[op.plan[a]] < Rank("Install")[op.plan[b]]
        /\ Rank("Install")["OidcClient"] = 3 /\ Rank("Install")["RuntimeActivation"] = 4
    BY <1>1 DEF Lists, Rank
  <2>2. k \in 1 .. Len(op.plan) /\ Len(op.plan) \in Nat
    BY <1>1, <1>2, OperationFacts
  <2>3. k < m => Rank("Install")["RuntimeActivation"] < Rank("Install")["OidcClient"]
    BY <1>3, <2>1, <2>2
  <2>4. ~ (k < m)
    BY <2>1, <2>3
  <2>5. k # m
    BY <1>3
  <2> QED
    BY <1>3, <2>2, <2>4, <2>5
<1>5. op.steps[m] = "Applied"
  <2>1. \A a \in 1 .. k - 1 : op.steps[a] = "Applied"
    BY <1>1, <1>2 DEF Ordered
  <2>2. m \in 1 .. k - 1
    BY <1>2, <1>3, <1>4
  <2> QED
    BY <2>1, <2>2
<1>6. Done(op, "OidcClient")
  BY <1>2, <1>3, <1>5 DEF Done
<1>7. MadeBy(j, t, i, "OidcClient")
  BY <1>6, InstallUnderWay
<1> QED
  BY <1>1, <1>7 DEF ResourcesOK, Resources

\* The OIDC client is removed after the container was stopped.
LEMMA ContainerIsStopped ==
    ASSUME NEW j, NEW t, NEW s, NEW R, JournalOK(j, t), HistoryOK(j, t),
           ResourcesOK(j, t, s, R), NEW id \in In(j), NEW op, op = j[id],
           NEW k \in InProgress(op), ~ (op.kind = "Install" /\ op.phase = "Applying"),
           op.plan[k] = "OidcClient", NEW i, i = t[id]
    PROVE  R[i].runtime # "Active"
<1> DEFINE RA == "RuntimeActivation"
<1>1. /\ i \in Installations /\ op \in Operation /\ Ordered(op) /\ op.kind \in RunnerKinds
      /\ Lists(op.plan, Planned(App(i), op.kind), Rank(op.kind))
  BY PlanOrder
<1>2. /\ k \in DOMAIN op.steps /\ DOMAIN op.steps = 1 .. Len(op.plan)
      /\ \/ op.phase = "Applying" /\ op.steps[k] = "Applying"
         \/ op.phase = "Compensating" /\ op.steps[k] = "Compensating"
  BY <1>1, StepInProgress
<1>3. \A a, b \in 1 .. Len(op.plan) : a < b => Rank(op.kind)[op.plan[a]] < Rank(op.kind)[op.plan[b]]
  BY <1>1 DEF Lists
<1>4. k \in 1 .. Len(op.plan) /\ Len(op.plan) \in Nat
  BY <1>1, <1>2, OperationFacts
<1>5. CASE op.kind = "Uninstall"
  <2>1. op.phase = "Applying"
    BY <1>2, <1>5 DEF HistoryOK
  <2>2. PICK m \in 1 .. Len(op.plan) : op.plan[m] = RA
    <3>1. RA \in Planned(App(i), op.kind)
      BY <1>5 DEF Planned
    <3> QED
      BY <1>1, <3>1 DEF Lists
  <2>3. Rank(op.kind)["OidcClient"] = 2 /\ Rank(op.kind)[RA] = 1
    BY <1>5 DEF Rank
  <2>4. k < m => Rank(op.kind)["OidcClient"] < Rank(op.kind)[RA]
    BY <1>3, <1>4, <2>2
  <2>5. ~ (k < m) /\ k # m
    BY <2>2, <2>3, <2>4
  <2>6. m \in 1 .. k - 1
    BY <1>4, <2>2, <2>5
  <2>7. op.steps[m] = "Applied"
    <3>1. \A a \in 1 .. k - 1 : op.steps[a] = "Applied"
      BY <1>1, <1>2, <2>1 DEF Ordered
    <3> QED
      BY <2>6, <3>1
  <2>8. Done(op, RA) /\ id \in Those(j, t, i, "Uninstall")
    BY <1>2, <1>5, <2>2, <2>7 DEF Done, Those
  <2>9. GoneBy(j, t, i, RA)
    BY <2>8 DEF GoneBy
  <2> QED
    BY <1>1, <2>9, Zenon DEF ResourcesOK, Resources, Gone
<1>6. CASE op.kind = "Install"
  <2>1. op.phase = "Compensating" /\ op.steps[k] = "Compensating"
    BY <1>2, <1>6
  <2>2. Rank(op.kind)["OidcClient"] = 3 /\ Rank(op.kind)[RA] = 4
    BY <1>6 DEF Rank
  <2>3. ASSUME NEW m \in DOMAIN op.steps, op.plan[m] = RA
        PROVE  op.steps[m] \in {"Pending", "Compensated"}
    <3>1. m < k => Rank(op.kind)[RA] < Rank(op.kind)["OidcClient"]
      BY <1>2, <1>3, <1>4, <2>3
    <3>2. ~ (m < k) /\ k # m
      BY <2>2, <2>3, <3>1
    <3>3. k \in 1 .. m - 1
      BY <1>2, <1>4, <3>2
    <3> QED
      BY <1>1, <2>1, <3>3 DEF Ordered
  <2>4. Undone(op, RA) /\ id \in Those(j, t, i, "Install")
    BY <1>6, <2>3 DEF Undone, Those
  <2>5. GoneBy(j, t, i, RA)
    BY <2>4 DEF GoneBy
  <2> QED
    BY <1>1, <2>5 DEF ResourcesOK, Resources, Gone
<1> QED
  BY <1>1, <1>5, <1>6 DEF RunnerKinds

(***************************************************************************)
(* A participant call, wherever it ends, keeps what the journal says of    *)
(* the resources; one that reports success has achieved its step.          *)
(***************************************************************************)
LEMMA ParticipantEffect ==
    ASSUME NEW j, NEW t, NEW s, NEW R, JournalOK(j, t), HistoryOK(j, t),
           ResourcesOK(j, t, s, R), NEW id \in In(j), NEW op, op = j[id],
           NEW k \in InProgress(op), op.plan[k] # "PlatformSnapshot", NEW i, i = t[id],
           NEW c, c = IF op.kind = "Install" /\ op.phase = "Applying"
                      THEN ApplyResource(op.plan[k], R[i], App(i), op.startedAt)
                      ELSE RemoveResource(op.plan[k], R[i], op.startedAt)
    PROVE  /\ c.ok => Achieved(op, k, i, c.end, s)
           /\ \A x \in Leaves(c) : ResourcesOK(j, t, s, [R EXCEPT ![i] = x])
<1> DEFINE r == R[i]
           res == op.plan[k]
           at == op.startedAt
<1>1. i \in Installations /\ op \in Operation /\ Ordered(op) /\ op.kind \in RunnerKinds
  BY PlanOrder
<1>2. /\ k \in DOMAIN op.steps /\ res \in Resources
      /\ \/ op.phase = "Applying" /\ op.steps[k] = "Applying"
         \/ op.phase = "Compensating" /\ op.steps[k] = "Compensating"
  BY <1>1, StepInProgress
<1>3. /\ r \in ResourceRecord /\ at \in Times /\ res \in Participants
      /\ R \in [Installations -> ResourceRecord]
  BY <1>1, <1>2, OperationFacts, Zenon DEF ResourcesOK, Resources, Participants
<1>4. /\ HasSecret(i, r)
      /\ \A other \in Resources : /\ GoneBy(j, t, i, other) => Gone(other, i, r, s)
                                  /\ MadeBy(j, t, i, other) => Made(other, i, r, s)
  BY <1>1, Zenon DEF ResourcesOK
<1> HIDE DEF r, res, at
\* It is enough to look at the record of i.
<1>5. ASSUME NEW x \in ResourceRecord, HasSecret(i, x),
             \A other \in Resources : /\ GoneBy(j, t, i, other) => Gone(other, i, x, s)
                                      /\ MadeBy(j, t, i, other) => Made(other, i, x, s)
      PROVE  ResourcesOK(j, t, s, [R EXCEPT ![i] = x])
  <2> DEFINE R2 == [R EXCEPT ![i] = x]
  <2>1. /\ R2 \in [Installations -> ResourceRecord] /\ R2[i] = x
        /\ \A d \in Installations : d # i => R2[d] = R[d]
    BY <1>1, <1>3, Zenon
  <2> HIDE DEF R2
  <2>2. ResourcesOK(j, t, s, R2)
    BY <1>5, <2>1, Zenon DEF ResourcesOK
  <2> QED
    BY <2>2 DEF R2
<1>6. CASE op.kind = "Install" /\ op.phase = "Applying"
  <2>1. c = ApplyResource(res, r, App(i), at)
    BY <1>6 DEF res, r, at
  <2>2. /\ c.ok => Made(res, i, c.end, s)
        /\ \A x \in Leaves(c) :
              /\ x \in ResourceRecord
              /\ \A other \in Resources :
                    /\ other # res /\ Gone(other, i, r, s) => Gone(other, i, x, s)
                    /\ Made(other, i, r, s) => Made(other, i, x, s)
              /\ HasSecret(i, r) /\ (res = "RuntimeActivation" => Made("OidcClient", i, r, s)
                                       \/ App(i).oidc # "confidential")
                    => HasSecret(i, x)
    BY <1>1, <1>3, <2>1, ApplyEffect, ZenonT(60)
  <2>3. res = "RuntimeActivation" => Made("OidcClient", i, r, s) \/ App(i).oidc # "confidential"
    BY <1>6, SecretIsThere DEF res, r
  <2>4. ~ Undone(op, res)
    BY <1>2, <1>6 DEF Undone, res
  <2>5. ~ GoneBy(j, t, i, res)
    BY <1>6, <2>4, InstallUnderWay, Zenon
  <2>6. ASSUME NEW x \in Leaves(c)
        PROVE  ResourcesOK(j, t, s, [R EXCEPT ![i] = x])
    <3>1. HasSecret(i, x) /\ x \in ResourceRecord
      BY <1>4, <2>2, <2>3, <2>6, Zenon
    <3>2. ASSUME NEW other \in Resources
          PROVE  /\ GoneBy(j, t, i, other) => Gone(other, i, x, s)
                 /\ MadeBy(j, t, i, other) => Made(other, i, x, s)
      BY <1>4, <2>2, <2>5, <2>6, Zenon
    <3> QED
      BY <1>5, <3>1, <3>2, Zenon
  <2>7. c.ok => Achieved(op, k, i, c.end, s)
    BY <1>6, <2>2, Zenon DEF Achieved, res
  <2> QED
    BY <2>6, <2>7, Zenon
<1>7. CASE ~ (op.kind = "Install" /\ op.phase = "Applying")
  <2>1. c = RemoveResource(res, r, at)
    BY <1>7 DEF res, r, at
  <2>2. /\ c.ok => Gone(res, i, c.end, s)
        /\ \A x \in Leaves(c) :
              /\ x \in ResourceRecord
              /\ \A other \in Resources : Gone(other, i, r, s) => Gone(other, i, x, s)
              /\ HasSecret(i, r) /\ (res = "OidcClient" => r.runtime # "Active")
                    => HasSecret(i, x)
    BY <1>1, <1>3, <2>1, RemoveEffect, Zenon
  <2>3. res = "OidcClient" => r.runtime # "Active"
    BY <1>7, ContainerIsStopped, Zenon DEF res, r
  <2>4. \A other : ~ MadeBy(j, t, i, other)
    <3>1. ~ IsTerminal(op)
      BY <1>2 DEF IsTerminal
    <3> QED
      BY <1>7, <3>1, RemovalUnderWay, Zenon
  <2>5. ASSUME NEW x \in Leaves(c)
        PROVE  ResourcesOK(j, t, s, [R EXCEPT ![i] = x])
    <3>1. HasSecret(i, x) /\ x \in ResourceRecord
      BY <1>4, <2>2, <2>3, <2>5, Zenon
    <3>2. ASSUME NEW other \in Resources
          PROVE  /\ GoneBy(j, t, i, other) => Gone(other, i, x, s)
                 /\ MadeBy(j, t, i, other) => Made(other, i, x, s)
      BY <1>4, <2>2, <2>4, <2>5, Zenon
    <3> QED
      BY <1>5, <3>1, <3>2, Zenon
  <2>6. c.ok => Achieved(op, k, i, c.end, s)
    BY <1>7, <2>2, Zenon DEF Achieved, res
  <2> QED
    BY <2>5, <2>6, Zenon
<1> QED
  BY <1>6, <1>7, Zenon

\* Storing the staged state keeps it too, and achieves the last step.
LEMMA SnapshotEffect ==
    ASSUME NEW j, NEW t, NEW s, NEW R, JournalOK(j, t), HistoryOK(j, t),
           ResourcesOK(j, t, s, R), NEW id \in In(j), NEW op, op = j[id],
           NEW k \in InProgress(op), op.plan[k] = "PlatformSnapshot", NEW i, i = t[id],
           NEW staged, StagesOnly(op, i, staged, s)
    PROVE  /\ Achieved(op, k, i, R[i], staged)
           /\ ResourcesOK(j, t, staged, R)
<1>1. i \in Installations /\ op \in Operation /\ Ordered(op)
  BY PlanOrder
<1>2. /\ k \in DOMAIN op.steps
      /\ \/ op.phase = "Applying" /\ op.steps[k] = "Applying"
         \/ op.phase = "Compensating" /\ op.steps[k] = "Compensating"
  BY <1>1, StepInProgress
<1>3. Achieved(op, k, i, R[i], staged)
  BY DEF Achieved, StagesOnly, Made, Gone
<1>4. \A d \in Installations, res \in Resources :
         d # i \/ res # "PlatformSnapshot" =>
            /\ Gone(res, d, R[d], staged) <=> Gone(res, d, R[d], s)
            /\ Made(res, d, R[d], staged) <=> Made(res, d, R[d], s)
  <2> SUFFICES ASSUME NEW d \in Installations, NEW res \in Resources,
                      d # i \/ res # "PlatformSnapshot"
               PROVE  /\ Gone(res, d, R[d], staged) <=> Gone(res, d, R[d], s)
                      /\ Made(res, d, R[d], staged) <=> Made(res, d, R[d], s)
    OBVIOUS
  <2>1. res = "PlatformSnapshot" => (d \in staged.apps <=> d \in s.apps)
    BY DEF StagesOnly
  <2> QED
    BY <2>1 DEF Made, Gone
<1>5. /\ GoneBy(j, t, i, "PlatformSnapshot") => Gone("PlatformSnapshot", i, R[i], staged)
      /\ MadeBy(j, t, i, "PlatformSnapshot") => Made("PlatformSnapshot", i, R[i], staged)
  <2>1. CASE op.kind = "Install" /\ op.phase = "Applying"
    <3>1. ~ Undone(op, "PlatformSnapshot")
      BY <1>2, <2>1 DEF Undone
    <3>2. ~ GoneBy(j, t, i, "PlatformSnapshot")
      BY <2>1, <3>1, InstallUnderWay, Zenon
    <3> QED
      BY <2>1, <3>2 DEF StagesOnly, Made
  <2>2. CASE ~ (op.kind = "Install" /\ op.phase = "Applying")
    <3>1. ~ IsTerminal(op)
      BY <1>2 DEF IsTerminal
    <3>2. ~ MadeBy(j, t, i, "PlatformSnapshot")
      BY <2>2, <3>1, RemovalUnderWay
    <3> QED
      BY <2>2, <3>2, Zenon DEF StagesOnly, Gone
  <2> QED
    BY <2>1, <2>2, Zenon
<1>6. ResourcesOK(j, t, staged, R)
  BY <1>4, <1>5, Zenon DEF ResourcesOK
<1> QED
  BY <1>3, <1>6
=============================================================================
