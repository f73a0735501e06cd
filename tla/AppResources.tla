---------------------------- MODULE AppResources ----------------------------
(***************************************************************************)
(* What the participants of an app operation do to the resources of one    *)
(* installation: the SQLite app databases (app_database_provider.rs), the  *)
(* container and its secret namespace (docker_runtime_target.rs,           *)
(* namespace_secret_target.rs, reached through the runtime supervisor),    *)
(* and the OIDC client with its encrypted secret (registrar.rs,            *)
(* oidc_client_repository.rs, secret_store.rs).                            *)
(*                                                                         *)
(* The resources of an installation are a record                           *)
(*   databases   state of its database directory                           *)
(*   image       whether its container image reference is staged           *)
(*   runtime     state of its container                                    *)
(*   delivered   whether the OIDC secret is in the secret namespace        *)
(*   client      its OIDC client, with the time of registration            *)
(*   secret      whether the encrypted client secret is stored             *)
(*                                                                         *)
(* A participant call works in several durable steps.  It is described by  *)
(* the resource records it passes through, the one it ends with, and       *)
(* whether it reports success.  A call that is cut short, by a failure or  *)
(* by a crash, leaves one of the records it passes through.                *)
(***************************************************************************)
EXTENDS Naturals

CONSTANT Times

(***************************************************************************)
(* The durable state of an installation's resources.  databases is Absent, *)
(* Staged, Active or Retained; runtime Absent, Prepared or Active; the     *)
(* client's status None, Active or Revoked.                                *)
(***************************************************************************)
NoClient == [status |-> "None", createdAt |-> CHOOSE at \in Times : TRUE]

NoResources ==
    [databases |-> "Absent", image |-> FALSE, runtime |-> "Absent",
     delivered |-> FALSE, client |-> NoClient, secret |-> FALSE]

Succeeds(passed, end) == [through |-> passed \cup {end}, end |-> end, ok |-> TRUE]
Fails(r) == [through |-> {r}, end |-> r, ok |-> FALSE]
Keeps(r) == Succeeds({}, r)

(***************************************************************************)
(* first, then second from where first ended, unless first fails.          *)
(***************************************************************************)
Then(first, Second(_)) ==
    IF first.ok
    THEN LET second == Second(first.end)
         IN  [through |-> first.through \cup second.through, end |-> second.end,
              ok |-> second.ok]
    ELSE first

-----------------------------------------------------------------------------
(***************************************************************************)
(* App databases.  Provisioning clears an old staging directory, fills a   *)
(* new one and renames it; a failure may leave it behind.                  *)
(***************************************************************************)
ProvisionDatabases(r) ==
    LET With(state) == [r EXCEPT !.databases = state]
    IN  IF r.databases = "Active" THEN Keeps(r)
        ELSE IF r.databases = "Retained" THEN Fails(r)
        ELSE Succeeds({r, With("Absent"), With("Staged")}, With("Active"))

RetainDatabases(r) ==
    IF r.databases = "Staged" THEN Fails(r)
    ELSE IF r.databases = "Active"
         THEN Succeeds({r}, [r EXCEPT !.databases = "Retained"])
         ELSE Keeps(r)

-----------------------------------------------------------------------------
(***************************************************************************)
(* The runtime supervisor.  A web app has no container, so preparing and   *)
(* activating it do nothing; removal is always sent to the supervisor.     *)
(***************************************************************************)
PrepareRuntime(r, app) ==
    IF app.runtime = "Web" \/ r.runtime # "Absent" THEN Keeps(r)
    ELSE IF r.image THEN Succeeds({r}, [r EXCEPT !.runtime = "Prepared"])
    ELSE Fails(r)

ActivateRuntime(r, app) ==
    IF app.runtime = "Web" \/ r.runtime = "Active" THEN Keeps(r)
    ELSE IF r.runtime = "Prepared"
         THEN Succeeds({r}, [r EXCEPT !.runtime = "Active"])
         ELSE Fails(r)

DeactivateRuntime(r) ==
    IF r.runtime = "Active"
    THEN Succeeds({r}, [r EXCEPT !.runtime = "Prepared"])
    ELSE Keeps(r)

(***************************************************************************)
(* An active container is not removed.  A namespace that still holds the   *)
(* secret is not empty, so its removal fails after the container is gone.  *)
(***************************************************************************)
RemoveRuntime(r) ==
    LET removed == [r EXCEPT !.runtime = "Absent"]
    IN  IF r.runtime = "Active" THEN Fails(r)
        ELSE [Succeeds({r}, removed) EXCEPT !.ok = ~ r.delivered]

-----------------------------------------------------------------------------
(***************************************************************************)
(* register_or_recover_installed_app.  The secret is stored before the     *)
(* client that carries its digest; one installation has one client row     *)
(* for ever, so a revoked client blocks a new one.                         *)
(***************************************************************************)
InsertClient(r, at) ==
    IF r.client.status = "None"
    THEN Succeeds({r}, [r EXCEPT !.client = [status |-> "Active", createdAt |-> at]])
    ELSE Fails(r)

RegisterClient(r, app, at) ==
    IF r.client.status = "Active"
    THEN [Keeps(r) EXCEPT !.ok = ((app.oidc = "confidential") = r.secret)]
    ELSE IF app.oidc = "public"
    THEN IF r.secret THEN Fails(r) ELSE InsertClient(r, at)
    ELSE Then(Succeeds({r}, [r EXCEPT !.secret = TRUE]),
              LAMBDA s : InsertClient(s, at))

(***************************************************************************)
(* deliver_oidc_client_secret needs the namespace that preparation made.   *)
(***************************************************************************)
DeliverSecret(r) ==
    IF r.delivered THEN Keeps(r)
    ELSE IF r.runtime = "Absent" THEN Fails(r)
    ELSE Succeeds({r}, [r EXCEPT !.delivered = TRUE])

(* Mutant: a recovered registration delivers nothing. *)
ApplyOidcClientOnce(r, app, at) ==
    IF r.client.status = "Active" THEN Keeps(r)
    ELSE Then(RegisterClient(r, app, at),
              LAMBDA s : IF app.oidc = "confidential" THEN DeliverSecret(s)
                         ELSE Keeps(s))

ApplyOidcClient(r, app, at) ==
    Then(RegisterClient(r, app, at),
         LAMBDA s : IF app.oidc = "confidential" THEN DeliverSecret(s)
                    ELSE Keeps(s))

(* Mutant: revoking twice is an error. *)
RevokeClientOnce(r, at) ==
    IF r.client.status # "Active" \/ at < r.client.createdAt THEN Fails(r)
    ELSE Succeeds({r}, [r EXCEPT !.client.status = "Revoked"])

(***************************************************************************)
(* remove_oidc_material.  The client table refuses a revocation earlier    *)
(* than the registration: CHECK (revoked_at >= created_at).                *)
(***************************************************************************)
RevokeClient(r, at) ==
    IF r.client.status # "Active" THEN Keeps(r)
    ELSE IF at < r.client.createdAt THEN Fails(r)
    ELSE Succeeds({r}, [r EXCEPT !.client.status = "Revoked"])

(* Mutant: nothing is left to remove once the client is revoked. *)
RemoveOidcMaterialOnce(r, at) ==
    IF r.client.status # "Active" THEN Keeps(r)
    ELSE Then(Then(Succeeds({r}, [r EXCEPT !.delivered = FALSE]),
                   LAMBDA s : RevokeClient(s, at)),
              LAMBDA s : Succeeds({s}, [s EXCEPT !.secret = FALSE]))

RemoveOidcMaterial(r, at) ==
    Then(Then(Succeeds({r}, [r EXCEPT !.delivered = FALSE]),
              LAMBDA s : RevokeClient(s, at)),
         LAMBDA s : Succeeds({s}, [s EXCEPT !.secret = FALSE]))

-----------------------------------------------------------------------------
(***************************************************************************)
(* apply_resource, and the removal that apply_uninstall_resource and       *)
(* compensate_install_resource share, for every resource but the snapshot. *)
(***************************************************************************)
ApplyResource(resource, r, app, at) ==
    [AppDatabases      |-> ProvisionDatabases(r),
     RuntimeInstance   |-> PrepareRuntime(r, app),
     OidcClient        |-> ApplyOidcClient(r, app, at),
     RuntimeActivation |-> ActivateRuntime(r, app)][resource]

RemoveResource(resource, r, at) ==
    [AppDatabases      |-> RetainDatabases(r),
     RuntimeInstance   |-> RemoveRuntime(r),
     OidcClient        |-> RemoveOidcMaterial(r, at),
     RuntimeActivation |-> DeactivateRuntime(r)][resource]

(***************************************************************************)
(* The resources an app has once every step of its install is applied, and *)
(* the ones that keep an uninstalled app alive.                            *)
(***************************************************************************)
IsProvisioned(r, app, activated) ==
    /\ app.databases => r.databases = "Active"
    /\ app.runtime = "Container" => r.runtime # "Absent"
    /\ app.runtime = "Container" /\ activated => r.runtime = "Active"
    /\ app.oidc # "none" => r.client.status = "Active"
    /\ app.oidc = "confidential" => r.secret /\ r.delivered

IsRemoved(r) ==
    /\ r.databases # "Active"
    /\ r.runtime = "Absent"
    /\ r.client.status # "Active"
    /\ ~ r.secret
    /\ ~ r.delivered
=============================================================================
