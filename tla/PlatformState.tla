---------------------------- MODULE PlatformState ----------------------------
(***************************************************************************)
(* The platform state as values: app manifests, installed apps and the     *)
(* registries derived from them, permission grants, the snapshot that      *)
(* stores them, and what the authorization engine and the runtime router   *)
(* answer for such a state.                                                *)
(*                                                                         *)
(* A manifest is a record of                                               *)
(*   app, publisher, kind ("web", "container" or "native"), lifecycle,     *)
(*   entrypoints   sequence of [id, kind, file]                            *)
(*   permissions, capabilities, events, databases, settings  sequences     *)
(*   contributions sequence of [id, kind, capability]                      *)
(*   connectors    sequence of [target, entrypoint]                        *)
(*   oidc          sequence of at most one [type, entrypoint]              *)
(*   stream        sequence of at most one entrypoint id                   *)
(* An installed app is [identity, manifest], an identity of an app         *)
(* [kind |-> "app", app, inst, publisher], of a user [kind |-> "user", id] *)
(* and of a service [kind |-> "service", id].  Versions, names, titles and *)
(* the text of settings are left out: nothing depends on them.             *)
(***************************************************************************)
EXTENDS Integers, Sequences

Elements(s) == {s[n] : n \in DOMAIN s}

Distinct(s) == \A m, n \in DOMAIN s : s[m] = s[n] => m = n

DistinctBy(s, key) == \A m, n \in DOMAIN s : s[m][key] = s[n][key] => m = n

(***************************************************************************)
(* Manifests                                                               *)
(***************************************************************************)
MaxDatabases == 8
MaxSettings == 64

\* RuntimeDescriptor::add_entrypoint
EntrypointsFitRuntime(m) ==
    /\ DistinctBy(m.entrypoints, "id")
    /\ \A e \in Elements(m.entrypoints) :
           \/ m.kind = "web" /\ e.kind = "WebAsset"
           \/ m.kind = "container" /\ e.kind \in {"ContainerArtifact", "Endpoint"}

\* add_permission_request, add_provided_capability, add_contribution,
\* add_event_subscription
ListsAreDistinct(m) ==
    /\ Distinct(m.permissions)
    /\ Distinct(m.capabilities)
    /\ DistinctBy(m.contributions, "id")
    /\ Distinct(m.events)

DatabasesFit(m) == Distinct(m.databases) /\ Len(m.databases) <= MaxDatabases

SettingsFit(m) == Distinct(m.settings) /\ Len(m.settings) <= MaxSettings

ConnectorsFit(m) == DistinctBy(m.connectors, "target")

DeclaredOnce(m) == Len(m.oidc) <= 1 /\ Len(m.stream) <= 1

\* What can be assembled with the methods of AppManifest.
IsManifest(m) ==
    /\ EntrypointsFitRuntime(m)
    /\ ListsAreDistinct(m)
    /\ DatabasesFit(m)
    /\ SettingsFit(m)
    /\ ConnectorsFit(m)
    /\ DeclaredOnce(m)

HasEntrypoint(m, id, kind) ==
    \E e \in Elements(m.entrypoints) : e.id = id /\ e.kind = kind

RequiredEntrypoint == [web |-> "WebAsset", container |-> "ContainerArtifact"]

ValidRuntime(m) ==
    /\ m.kind # "native"
    /\ \E e \in Elements(m.entrypoints) : e.kind = RequiredEntrypoint[m.kind]

ValidLifecycle(m) == m.lifecycle = "AlwaysOn" => m.kind = "container"

ValidConnectors(m) ==
    \A c \in Elements(m.connectors) : HasEntrypoint(m, c.entrypoint, "ContainerArtifact")

ValidStream(m) ==
    \A entrypoint \in Elements(m.stream) :
        m.kind = "container" /\ HasEntrypoint(m, entrypoint, "ContainerArtifact")

ValidOidc(m) ==
    \A o \in Elements(m.oidc) :
        \/ m.kind = "web" /\ o.type = "public" /\ HasEntrypoint(m, o.entrypoint, "WebAsset")
        \/ m.kind = "container" /\ o.type = "confidential"
           /\ HasEntrypoint(m, o.entrypoint, "Endpoint")

ValidContributions(m) ==
    \A c \in Elements(m.contributions) :
        c.kind = "Search" => c.capability \in Elements(m.capabilities)

ValidManifest(m) ==
    /\ ValidRuntime(m)
    /\ ValidLifecycle(m)
    /\ ValidConnectors(m)
    /\ ValidStream(m)
    /\ ValidOidc(m)
    /\ ValidContributions(m)

UserIdentity(u) == [kind |-> "user", id |-> u]

AppIdentity(m, inst) ==
    [kind |-> "app", app |-> m.app, inst |-> inst, publisher |-> m.publisher]

\* InstalledApp::create, with a fresh installation id
InstalledApp(m, inst) == [identity |-> AppIdentity(m, inst), manifest |-> m]

\* InstalledApp::restore
Restorable(a) ==
    /\ ValidManifest(a.manifest)
    /\ a.identity.app = a.manifest.app
    /\ a.identity.publisher = a.manifest.publisher

(***************************************************************************)
(* The state: the installed apps in order, and the registries.             *)
(***************************************************************************)
EmptyState ==
    [apps |-> <<>>, providers |-> {}, contributions |-> {}, commands |-> {},
     searches |-> {}, subscriptions |-> {}, databases |-> {}]

\* PlatformRegistration::prepare
Registration(a) ==
    LET owner == a.identity
        m == a.manifest
        ofKind(kind) == {c \in Elements(m.contributions) : c.kind = kind}
        owned(ids) == {[owner |-> owner, id |-> i] : i \in ids}
    IN  [providers |-> owned(Elements(m.capabilities)),
         contributions |-> owned({c.id : c \in Elements(m.contributions)}),
         commands |-> owned({c.id : c \in ofKind("Command")}),
         searches |-> {[owner |-> owner, id |-> c.id, capability |-> c.capability] :
                          c \in ofKind("Search")},
         subscriptions |-> owned(Elements(m.events)),
         databases |-> owned(Elements(m.databases))]

\* InstalledAppRegistry::can_register
NotInstalled(state, a) ==
    \A other \in Elements(state.apps) :
        /\ other.identity.app # a.identity.app
        /\ other.identity.inst # a.identity.inst

NoneWithId(registered, new) == \A r \in registered, n \in new : r.id # n.id

\* PlatformRegistrar::can_register: contributions are unique by id across the
\* apps, the others only within an app.
NoConflict(state, r) ==
    /\ state.providers \cap r.providers = {}
    /\ NoneWithId(state.contributions, r.contributions)
    /\ NoneWithId(state.commands, r.commands)
    /\ NoneWithId(state.searches, r.searches)
    /\ state.subscriptions \cap r.subscriptions = {}
    /\ state.databases \cap r.databases = {}

CanRegister(state, a) == NotInstalled(state, a) /\ NoConflict(state, Registration(a))

\* AppLifecycle::register on a clone that replaces the state at the end
Registered(state, a) ==
    LET r == Registration(a)
    IN  [apps |-> Append(state.apps, a),
         providers |-> state.providers \cup r.providers,
         contributions |-> state.contributions \cup r.contributions,
         commands |-> state.commands \cup r.commands,
         searches |-> state.searches \cup r.searches,
         subscriptions |-> state.subscriptions \cup r.subscriptions,
         databases |-> state.databases \cup r.databases]

NotOwnedBy(owner, registered) == {r \in registered : r.owner # owner}

\* InstalledAppRegistry::remove
WithoutApp(apps, inst) == SelectSeq(apps, LAMBDA a : a.identity.inst # inst)


\* PlatformRegistrar::apply_deregistration, and the removal of the app
Deregistered(state, a) ==
    [apps |-> WithoutApp(state.apps, a.identity.inst),
     providers |-> NotOwnedBy(a.identity, state.providers),
     contributions |-> NotOwnedBy(a.identity, state.contributions),
     commands |-> NotOwnedBy(a.identity, state.commands),
     searches |-> NotOwnedBy(a.identity, state.searches),
     subscriptions |-> NotOwnedBy(a.identity, state.subscriptions),
     databases |-> NotOwnedBy(a.identity, state.databases)]

\* AppLifecycle::register: the state with the app, if nothing stands against it
WithRegistered(state, a) == {x \in {Registered(state, a)} : CanRegister(state, a)}

(***************************************************************************)
(* Grants: [id, subject, permission, scope, resources, by].                *)
(***************************************************************************)
IsGrant(g) ==
    /\ g.scope = "Explicit" => g.resources # {}
    /\ g.scope = "System" => g.resources = {}

ScopesOf(role) ==
    CASE role = "User" -> {"UserOwn", "UserSelected", "Explicit"}
      [] role \in {"Manager", "Administrator"} ->
             {"UserOwn", "UserSelected", "Explicit", "FamilyShared"}
      [] role = "Owner" -> {"AppPrivate", "UserOwn", "UserSelected", "Explicit",
                            "FamilyShared", "System"}
      [] OTHER -> {}

\* policy is [roles: a function from some users to their roles, trusted: services]
MayIssue(policy, issuer, scope) ==
    \/ issuer.kind = "service" /\ issuer.id \in policy.trusted
    \/ /\ issuer.kind = "user"
       /\ issuer.id \in DOMAIN policy.roles
       /\ scope \in ScopesOf(policy.roles[issuer.id])

\* GrantAuthority::issue: the set is empty when it refuses
Issued(policy, grant) ==
    {g \in {grant} : MayIssue(policy, g.by, g.scope) /\ IsGrant(g)}

RevokedForSubject(grants, subject) == {g \in grants : g.subject # subject}

\* AppLifecycle::uninstall: state and grants are replaced together
Uninstalled(state, grants, a) ==
    [state |-> Deregistered(state, a), grants |-> RevokedForSubject(grants, a.identity)]

(***************************************************************************)
(* AuthorizationEngine::authorize.  resources holds the requested          *)
(* resource, or nothing.                                                   *)
(***************************************************************************)
GrantAllows(g, resources) ==
    \/ g.scope = "System"
    \/ g.scope = "Explicit" /\ resources # {} /\ resources \subseteq g.resources

Decision(grants, actor, permission, resources) ==
    LET mine == {g \in grants : g.subject = actor}
        matching == {g \in mine : g.permission = permission}
        explicit == {g \in matching : g.scope = "Explicit"}
    IN  CASE \E g \in matching : GrantAllows(g, resources) -> "Allow"
          [] mine = {} -> "NoGrantForActor"
          [] mine # {} /\ matching = {} -> "PermissionNotGranted"
          [] explicit # {} /\ resources = {} -> "ResourceRequired"
          [] explicit # {} /\ resources # {} -> "ResourceOutsideScope"
          [] OTHER -> "UnsupportedScope"

(***************************************************************************)
(* The stored snapshot.  The wire form leaves out the default lifecycle.   *)
(***************************************************************************)
SnapshotVersion == 1

Capture(state, grants) ==
    [version |-> SnapshotVersion, apps |-> state.apps, grants |-> grants]

(* Mutant: the lifecycle is never written. *)
WireManifestWithoutLifecycle(m) == [m EXCEPT !.lifecycle = <<>>]

WireManifest(m) ==
    [m EXCEPT !.lifecycle = IF @ = "OnDemand" THEN <<>> ELSE <<@>>]

WireInstalledApp(a) == [a EXCEPT !.manifest = WireManifest(@)]

WireSnapshot(snapshot) ==
    [snapshot EXCEPT !.apps = [n \in DOMAIN @ |-> WireInstalledApp(@[n])]]

\* SqliteSnapshotRepository::store: the row with id 1
Row(snapshot) == [version |-> snapshot.version, payload |-> WireSnapshot(snapshot)]

FromWire(w) == [w EXCEPT !.lifecycle = IF @ = <<>> THEN "OnDemand" ELSE @[1]]

InstalledAppFromWire(w) == [w EXCEPT !.manifest = FromWire(@)]

\* SqliteSnapshotRepository::load, when it succeeds
Decoded(row) ==
    [row.payload EXCEPT !.apps = [n \in DOMAIN @ |-> InstalledAppFromWire(@[n])]]

Decodes(row) ==
    /\ row.version = row.payload.version
    /\ \A a \in Elements(Decoded(row).apps) : IsManifest(a.manifest) /\ Restorable(a)
    /\ \A g \in row.payload.grants : IsGrant(g)

(***************************************************************************)
(* PlatformRecovery::recover restores the apps one after another into an   *)
(* empty state, and then the grants.                                       *)
(***************************************************************************)
Restore(apps) ==
    LET step[n \in 0 .. Len(apps)] ==
            IF n = 0 THEN [ok |-> TRUE, state |-> EmptyState]
            ELSE [ok |-> step[n - 1].ok /\ CanRegister(step[n - 1].state, apps[n]),
                  state |-> Registered(step[n - 1].state, apps[n])]
    IN  step[Len(apps)]

ValidGrant(g, apps) ==
    /\ g.subject.kind = "app" => \E a \in Elements(apps) : a.identity = g.subject
    /\ g.by.kind # "app"

Recovers(snapshot) ==
    /\ snapshot.version = SnapshotVersion
    /\ Restore(snapshot.apps).ok
    /\ \A g, h \in snapshot.grants : g.id = h.id => g = h
    /\ \A g \in snapshot.grants : ValidGrant(g, snapshot.apps)

Recovered(snapshot) == Restore(snapshot.apps).state

(***************************************************************************)
(* Reading a state: providers in the order of the apps, and the router.    *)
(***************************************************************************)
InstalledIn(state, inst) ==
    {a \in Elements(state.apps) : a.identity.inst = inst}

\* build_capability_registries and providers_for: the first provider's app
FirstProvider(state, capability) ==
    LET provides == {n \in DOMAIN state.apps :
                        capability \in Elements(state.apps[n].manifest.capabilities)}
    IN  {state.apps[n] : n \in {m \in provides : \A k \in provides : m <= k}}

\* CapabilityDispatcher::authorize: every provided capability has the rule that
\* asks for the permission of the same name
DispatchDecision(state, grants, actor, capability, resources) ==
    IF FirstProvider(state, capability) = {} THEN "ProviderNotRegistered"
    ELSE Decision(grants, actor, capability, resources)

\* RuntimeRouter: the app must be installed under this identity, and its kind
\* of runtime must have an adapter
Routes(state, identity, adapters) ==
    {a \in Elements(state.apps) : a.identity = identity /\ a.manifest.kind \in adapters}

\* EventBus::prepare_deliveries
Deliveries(state, event) == {s.owner : s \in {x \in state.subscriptions : x.id = event}}

\* SearchProviderResolver::resolve
SearchProvider(state, search) ==
    {p \in state.providers : p.owner = search.owner /\ p.id = search.capability}
=============================================================================
