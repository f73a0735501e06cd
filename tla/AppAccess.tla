------------------------------ MODULE AppAccess ------------------------------
(***************************************************************************)
(* What a signed-in user does with installed apps: launching them under a  *)
(* lease, loading their resources, starting and stopping their runtimes,   *)
(* invoking capabilities, importing and uninstalling packages.             *)
(*                                                                         *)
(* Every request runs on a thread of its own.  It reads the accounts       *)
(* database, the platform database, the files and the runtime one after    *)
(* the other, so a logout, an uninstall or the end of a lease may fall     *)
(* between any two of its steps.  The gateway authenticates the cookie     *)
(* when a request begins; AppAccess asks the provider for the catalog      *)
(* (round 1), and the provider checks again for itself (round 2).          *)
(*                                                                         *)
(* A package request is the uninterrupted path of the operation runner;    *)
(* its journal, failures and crashes are in PackageService.                *)
(***************************************************************************)
EXTENDS PlatformState, FiniteSets

CONSTANTS
    Threads,            \* request threads
    PackageThreads,     \* those that serve imports and uninstalls, and only these
    AccessSessions,     \* browser sessions
    SessionUser,        \* the user of each session
    Offered,            \* Offered[n]: the manifest of the n-th package imported
    LeaseTime,          \* lifetime of a lease, in ticks (90 s)
    MaxLeases,          \* most leases at a time (1024)
    MaxSessionLeases,   \* most leases of a session at a time (32)
    MaxLeaseTokens,     \* bound: leases ever granted
    MaxTicks            \* bound: the clock

VARIABLES
    signedIn,   \* the sessions that are active
    imports,    \* packages imported so far
    stored,     \* the row of the snapshot table, in a set of at most one
    captured,   \* history: what the writer of that row captured
    assetDirs,  \* installations with published web assets
    runtime,    \* the container of each installation
    leases,     \* leases, live or not yet dropped
    granted,    \* leases granted so far
    ticks,      \* the clock
    access      \* the state of each thread

accessVars ==
    <<signedIn, imports, stored, captured, assetDirs, runtime, leases, granted, ticks, access>>

Insts == DOMAIN Offered

LaunchPermission == "rumahl.apps.launch"

(***************************************************************************)
(* A thread.  begunLive is history: whether the session its request rests  *)
(* on was active when the request began.                                   *)
(***************************************************************************)
FreeThread ==
    [pc |-> "idle", op |-> "none", session |-> CHOOSE s \in AccessSessions : TRUE,
     inst |-> 0, round |-> 0, lease |-> 0, begunLive |-> FALSE,
     state |-> EmptyState, grants |-> {}]

AccessInit ==
    /\ signedIn = AccessSessions
    /\ imports = 0
    /\ stored = {}
    /\ captured = {}
    /\ assetDirs = {}
    /\ runtime = [i \in Insts |-> "absent"]
    /\ leases = {}
    /\ granted = 0
    /\ ticks = 0
    /\ access = [t \in Threads |-> FreeThread]

Goto(t, pc) == access' = [access EXCEPT ![t].pc = pc]

Leave(t) == access' = [access EXCEPT ![t] = FreeThread]

platformVars == <<imports, stored, captured, assetDirs, runtime>>
leaseVars == <<leases, granted>>

(***************************************************************************)
(* The snapshot                                                            *)
(***************************************************************************)
CurrentSnapshot == {Decoded(row) : row \in {r \in stored : Decodes(r)}}

Usable == {s \in CurrentSnapshot : Recovers(s)}

LaunchResource(i) == <<"rumahl.apps", "installation", i>>

\* authorized_apps, for one installation
Authorized(snapshot, user, i) ==
    /\ \E a \in Elements(snapshot.apps) : a.identity.inst = i
    /\ Decision(snapshot.grants, UserIdentity(user), LaunchPermission,
                {LaunchResource(i)}) = "Allow"

StoreSnapshot(state, grants) ==
    /\ stored' = {Row(Capture(state, grants))}
    /\ captured' = {Capture(state, grants)}

ManifestOf(i) == Offered[i]

\* PersistentApps::web_entry and read_asset without the contents
Launchable(i) == ManifestOf(i).kind = "web" /\ i \in assetDirs

(***************************************************************************)
(* Requests that name an app: the gateway has authenticated the cookie.    *)
(* "read" stands for the app's settings and its data directory.            *)
(***************************************************************************)
BeginRequest(t, s, op, i) ==
    /\ access[t].pc = "idle"
    /\ s \in signedIn
    /\ (op = "uninstall") = (t \in PackageThreads)
    /\ access' = [access EXCEPT ![t] =
           [FreeThread EXCEPT !.pc = "account", !.op = op, !.session = s, !.inst = i,
                              !.round = 1, !.begunLive = TRUE]]
    /\ UNCHANGED <<signedIn, platformVars, leaseVars, ticks>>

\* AppAccess::resource: the lease stands for the cookie
BeginResource(t, l) ==
    /\ access[t].pc = "idle"
    /\ t \notin PackageThreads
    /\ l \in leases
    /\ l.expires > ticks
    /\ access' = [access EXCEPT ![t] =
           [FreeThread EXCEPT !.pc = "account", !.op = "resource", !.session = l.session,
                              !.inst = l.inst, !.round = 2,
                              !.begunLive = l.session \in signedIn]]
    /\ UNCHANGED <<signedIn, platformVars, leaseVars, ticks>>

BeginInvoke(t, s) ==
    /\ access[t].pc = "idle"
    /\ t \notin PackageThreads
    /\ s \in signedIn
    /\ access' = [access EXCEPT ![t] =
           [FreeThread EXCEPT !.pc = "account", !.op = "invoke", !.session = s,
                              !.begunLive = TRUE]]
    /\ UNCHANGED <<signedIn, platformVars, leaseVars, ticks>>

(* Mutant: the session is not looked up again. *)
AuthenticateNothing(t) ==
    /\ access[t].pc = "account"
    /\ Goto(t, IF access[t].op = "invoke" THEN "invoke" ELSE "platform")
    /\ UNCHANGED <<signedIn, platformVars, leaseVars, ticks>>

\* PersistentApps::authenticate
Authenticate(t) ==
    /\ access[t].pc = "account"
    /\ IF access[t].session \in signedIn
       THEN Goto(t, IF access[t].op = "invoke" THEN "invoke" ELSE "platform")
       ELSE Leave(t)
    /\ UNCHANGED <<signedIn, platformVars, leaseVars, ticks>>

AfterChecks ==
    [launch |-> "lease", resource |-> "asset", read |-> "served", start |-> "control",
     stop |-> "control", uninstall |-> "load"]

\* PersistentApps::apps and app, catalog and entrypoint
CheckPlatform(t) ==
    LET a == access[t]
        allowed ==
            /\ \E s \in Usable : Authorized(s, SessionUser[a.session], a.inst)
            /\ a.op = "launch" => Launchable(a.inst)
    IN  /\ a.pc = "platform"
        /\ IF allowed
           THEN access' = [access EXCEPT
                    ![t].pc = IF a.round = 1 THEN "account" ELSE AfterChecks[a.op],
                    ![t].round = 2]
           ELSE Leave(t)
        /\ UNCHANGED <<signedIn, platformVars, leaseVars, ticks>>

(***************************************************************************)
(* AppAccess::launch under the lock: expired leases are dropped, a named   *)
(* lease is renewed when it is this session's lease of this app, and a new *)
(* one needs room.                                                         *)
(***************************************************************************)
LiveLeases == {l \in leases : l.expires > ticks}

LeasesOf(s) == {l \in LiveLeases : l.session = s}

NewLease(t, token) ==
    [token |-> token, session |-> access[t].session, inst |-> access[t].inst,
     expires |-> ticks + LeaseTime]

RenewLease(t) ==
    /\ access[t].pc = "lease"
    /\ \E l \in LeasesOf(access[t].session) :
           /\ l.inst = access[t].inst
           /\ leases' = (LiveLeases \ {l}) \cup {NewLease(t, l.token)}
    /\ Goto(t, "served")
    /\ UNCHANGED <<signedIn, platformVars, granted, ticks>>

\* a lease of another app or session, or one that has expired
RefuseLease(t) ==
    /\ access[t].pc = "lease"
    /\ leases' = LiveLeases
    /\ Leave(t)
    /\ UNCHANGED <<signedIn, platformVars, granted, ticks>>

GrantLease(t) ==
    /\ access[t].pc = "lease"
    /\ granted < MaxLeaseTokens
    /\ Cardinality(LiveLeases) < MaxLeases
    /\ Cardinality(LeasesOf(access[t].session)) < MaxSessionLeases
    /\ granted' = granted + 1
    /\ leases' = LiveLeases \cup {NewLease(t, granted')}
    /\ Goto(t, "served")
    /\ UNCHANGED <<signedIn, platformVars, ticks>>

\* read_asset with the contents
ReadAsset(t) ==
    /\ access[t].pc = "asset"
    /\ IF Launchable(access[t].inst) THEN Goto(t, "served") ELSE Leave(t)
    /\ UNCHANGED <<signedIn, platformVars, leaseVars, ticks>>

(***************************************************************************)
(* Runtime control loads the snapshot once more and asks the adapter,      *)
(* which activates or deactivates the container.  A web app has no runtime *)
(* of its own: the provider accepts and does nothing.                      *)
(***************************************************************************)
LoadForControl(t) ==
    /\ access[t].pc = "control"
    /\ IF \E s \in Usable : InstalledIn(Recovered(s), access[t].inst) # {}
       THEN Goto(t, "adapter")
       ELSE Leave(t)
    /\ UNCHANGED <<signedIn, platformVars, leaseVars, ticks>>

\* activate: an absent container is not created
Activated(i) == [runtime EXCEPT ![i] = IF @ = "absent" THEN @ ELSE "active"]

Deactivated(i) == [runtime EXCEPT ![i] = IF @ = "active" THEN "prepared" ELSE @]

IsContainer(i) == ManifestOf(i).kind = "container"

AdapterControl(t) ==
    LET i == access[t].inst
        ok == ~IsContainer(i) \/ runtime[i] # "absent"
    IN  /\ access[t].pc = "adapter"
        /\ runtime' = IF ~IsContainer(i) THEN runtime
                      ELSE IF access[t].op = "start" THEN Activated(i) ELSE Deactivated(i)
        /\ IF ok THEN Goto(t, "served") ELSE Leave(t)
        /\ UNCHANGED <<signedIn, imports, stored, captured, assetDirs, leaseVars, ticks>>

(***************************************************************************)
(* invoke_capability after its authentication: one load decides.  A web    *)
(* app's capability is left to the browser; a container's goes through the *)
(* adapter to the app's channel, which is in AppChannels.                  *)
(***************************************************************************)
InvokeCapability(t, capability) ==
    LET user == UserIdentity(SessionUser[access[t].session])
        invoked ==
            \E s \in Usable :
                \E provider \in FirstProvider(Recovered(s), capability) :
                    /\ DispatchDecision(Recovered(s), s.grants, user, capability, {}) = "Allow"
                    /\ \/ provider.manifest.kind = "web"
                       \/ Routes(Recovered(s), provider.identity, {"web", "container"}) # {}
    IN  /\ access[t].pc = "invoke"
        /\ IF invoked THEN Goto(t, "served") ELSE Leave(t)
        /\ UNCHANGED <<signedIn, platformVars, leaseVars, ticks>>

Respond(t) ==
    /\ access[t].pc = "served"
    /\ access' = [access EXCEPT ![t] = FreeThread]
    /\ UNCHANGED <<signedIn, platformVars, leaseVars, ticks>>

(***************************************************************************)
(* import_package: the importer needs no app, only a session.              *)
(***************************************************************************)
BeginImport(t, s) ==
    LET i == imports + 1
        a == InstalledApp(ManifestOf(i), i)
        before == IF stored = {} THEN EmptyState ELSE Recovered(CHOOSE x \in Usable : TRUE)
        grants == IF stored = {} THEN {} ELSE (CHOOSE x \in Usable : TRUE).grants
    IN  /\ access[t].pc = "idle"
        /\ t \in PackageThreads
        /\ s \in signedIn
        /\ i \in Insts
        /\ stored = {} \/ Usable # {}
        /\ IsManifest(ManifestOf(i)) /\ ValidManifest(ManifestOf(i))
        /\ imports' = i
        /\ \E after \in WithRegistered(before, a) :
             access' = [access EXCEPT ![t] =
               [FreeThread EXCEPT !.pc = "provision", !.op = "import", !.session = s, !.inst = i,
                                  !.begunLive = TRUE, !.state = after, !.grants = grants]]
        /\ UNCHANGED <<signedIn, stored, captured, assetDirs, runtime, leaseVars, ticks>>

\* A package that cannot be installed: the staging directory is removed.
RefuseImport(t, s) ==
    /\ access[t].pc = "idle"
    /\ t \in PackageThreads
    /\ s \in signedIn
    /\ imports + 1 \in Insts
    /\ LET m == ManifestOf(imports + 1)
           a == InstalledApp(m, imports + 1)
       IN  \/ ~IsManifest(m)
           \/ ~ValidManifest(m)
           \/ \E x \in Usable : WithRegistered(Recovered(x), a) = {}
    /\ imports' = imports + 1
    /\ UNCHANGED <<signedIn, stored, captured, assetDirs, runtime, leaseVars, ticks, access>>

\* prepare, and activate when the app is always on
Provision(t) ==
    LET i == access[t].inst
    IN  /\ access[t].pc = "provision"
        /\ runtime' = IF ~IsContainer(i) THEN runtime
                      ELSE [runtime EXCEPT ![i] =
                              IF ManifestOf(i).lifecycle = "AlwaysOn" THEN "active" ELSE "prepared"]
        /\ Goto(t, "commit")
        /\ UNCHANGED <<signedIn, imports, stored, captured, assetDirs, leaseVars, ticks>>

CommitImport(t) ==
    /\ access[t].pc = "commit"
    /\ StoreSnapshot(access[t].state, access[t].grants)
    /\ Goto(t, "publish")
    /\ UNCHANGED <<signedIn, imports, assetDirs, runtime, leaseVars, ticks>>

PublishAssets(t) ==
    /\ access[t].pc = "publish"
    /\ assetDirs' = IF IsContainer(access[t].inst) THEN assetDirs
                    ELSE assetDirs \cup {access[t].inst}
    /\ Goto(t, "reload")
    /\ UNCHANGED <<signedIn, imports, stored, captured, runtime, leaseVars, ticks>>

ReloadForGrants(t) ==
    /\ access[t].pc = "reload"
    /\ \E s \in Usable :
           access' = [access EXCEPT ![t].pc = "grant", ![t].state = Recovered(s),
                                    ![t].grants = s.grants]
    /\ UNCHANGED <<signedIn, platformVars, leaseVars, ticks>>

\* The grants every account gets: launching the app, and using what it provides.
GrantsFor(i) ==
    LET users == {SessionUser[s] : s \in AccessSessions}
        policy == [roles |-> [u \in users |-> "Owner"], trusted |-> {}]
        grant(u, permission, scope, resources) ==
            [id |-> <<i, u, permission>>, subject |-> UserIdentity(u),
             permission |-> permission, scope |-> scope, resources |-> resources,
             by |-> UserIdentity(u)]
    IN  UNION {Issued(policy, grant(u, LaunchPermission, "Explicit", {LaunchResource(i)}))
                  : u \in users}
        \cup UNION {Issued(policy, grant(u, c, "System", {})) :
                       u \in users, c \in Elements(ManifestOf(i).capabilities)}

StoreGrants(t) ==
    /\ access[t].pc = "grant"
    /\ StoreSnapshot(access[t].state, access[t].grants \cup GrantsFor(access[t].inst))
    /\ Leave(t)
    /\ UNCHANGED <<signedIn, imports, assetDirs, runtime, leaseVars, ticks>>

(***************************************************************************)
(* uninstall_app after its two checks: the runtime is stopped, then        *)
(* removed, which is refused while it is active, and the snapshot is last. *)
(***************************************************************************)
LoadForUninstall(t) ==
    LET found == {s \in Usable : InstalledIn(Recovered(s), access[t].inst) # {}}
    IN  /\ access[t].pc = "load"
        /\ IF found = {} THEN Leave(t)
           ELSE \E s \in found :
                    LET a == CHOOSE x \in InstalledIn(Recovered(s), access[t].inst) : TRUE
                        after == Uninstalled(Recovered(s), s.grants, a)
                    IN  access' = [access EXCEPT
                            ![t].pc = "deactivate",
                            ![t].state = after.state, ![t].grants = after.grants]
        /\ UNCHANGED <<signedIn, platformVars, leaseVars, ticks>>

DeactivateRuntime(t) ==
    /\ access[t].pc = "deactivate"
    /\ runtime' = Deactivated(access[t].inst)
    /\ Goto(t, "remove")
    /\ UNCHANGED <<signedIn, imports, stored, captured, assetDirs, leaseVars, ticks>>

\* a start that came between makes the removal fail, and with it the request
RemoveRuntime(t) ==
    LET i == access[t].inst
    IN  /\ access[t].pc = "remove"
        /\ IF runtime[i] = "active"
           THEN Leave(t) /\ UNCHANGED runtime
           ELSE Goto(t, "forget") /\ runtime' = [runtime EXCEPT ![i] = "absent"]
        /\ UNCHANGED <<signedIn, imports, stored, captured, assetDirs, leaseVars, ticks>>

CommitUninstall(t) ==
    /\ access[t].pc = "forget"
    /\ StoreSnapshot(access[t].state, access[t].grants)
    /\ Goto(t, "clean")
    /\ UNCHANGED <<signedIn, imports, assetDirs, runtime, leaseVars, ticks>>

RemoveAssets(t) ==
    /\ access[t].pc = "clean"
    /\ assetDirs' = assetDirs \ {access[t].inst}
    /\ Goto(t, "served")
    /\ UNCHANGED <<signedIn, imports, stored, captured, runtime, leaseVars, ticks>>

(***************************************************************************)
(* The environment                                                         *)
(***************************************************************************)
SignOut(s) ==
    /\ s \in signedIn
    /\ signedIn' = signedIn \ {s}
    /\ UNCHANGED <<platformVars, leaseVars, ticks, access>>

LeaseClock ==
    /\ ticks < MaxTicks
    /\ ticks' = ticks + 1
    /\ UNCHANGED <<signedIn, platformVars, leaseVars, access>>

UserRequest(t) ==
    \/ \E s \in AccessSessions, i \in 1 .. imports :
           \E op \in {"launch", "read", "start", "stop", "uninstall"} : BeginRequest(t, s, op, i)
    \/ \E l \in leases : BeginResource(t, l)
    \/ \E s \in AccessSessions : BeginInvoke(t, s)
    \/ \E s \in AccessSessions : BeginImport(t, s) \/ RefuseImport(t, s)

RequestStep(t) ==
    \/ Authenticate(t) \/ CheckPlatform(t)
    \/ RenewLease(t) \/ RefuseLease(t) \/ GrantLease(t)
    \/ ReadAsset(t)
    \/ LoadForControl(t) \/ AdapterControl(t)
    \/ \E m \in Elements(Offered) : \E c \in Elements(m.capabilities) : InvokeCapability(t, c)
    \/ Respond(t)

PackageStep(t) ==
    \/ Provision(t) \/ CommitImport(t) \/ PublishAssets(t)
    \/ ReloadForGrants(t) \/ StoreGrants(t)
    \/ LoadForUninstall(t) \/ DeactivateRuntime(t) \/ RemoveRuntime(t)
    \/ CommitUninstall(t) \/ RemoveAssets(t)

AccessNext ==
    \/ \E t \in Threads : UserRequest(t) \/ RequestStep(t) \/ PackageStep(t)
    \/ \E s \in AccessSessions : SignOut(s)
    \/ LeaseClock

AccessSpec == AccessInit /\ [][AccessNext]_accessVars

(***************************************************************************)
(* "Installed apps are the source of truth" (platform/state.rs): in every  *)
(* state that a request recovers, extends or reduces, each registry holds  *)
(* exactly what the manifests of the installed apps declare, however the   *)
(* installs and uninstalls before it were ordered.                         *)
(***************************************************************************)
RegistriesFollowTheApps ==
    \A t \in Threads :
        LET state == access[t].state
            declared(registry) ==
                UNION {Registration(a)[registry] : a \in Elements(state.apps)}
        IN  /\ state.providers = declared("providers")
            /\ state.contributions = declared("contributions")
            /\ state.commands = declared("commands")
            /\ state.searches = declared("searches")
            /\ state.subscriptions = declared("subscriptions")
            /\ state.databases = declared("databases")

(***************************************************************************)
(* The stored snapshot always loads and recovers, to what its writer       *)
(* captured: one that did not would make every app unavailable, since      *)
(* authorized_apps recovers all of it for each request.                    *)
(***************************************************************************)
StoredSnapshotRecovers ==
    \A row \in stored :
        /\ Decodes(row)
        /\ Recovers(Decoded(row))
        /\ Decoded(row) \in captured

(***************************************************************************)
(* A request that begins after its session has ended is never served: a    *)
(* lease outlives the session it was granted to by up to its lifetime, and *)
(* only the second check of AppProvider::asset stops its use.              *)
(***************************************************************************)
NothingServedAfterSignOut ==
    \A t \in Threads : access[t].pc = "served" => access[t].begunLive

(***************************************************************************)
(* A running container belongs to an advertised installation or to one     *)
(* that is being installed: a start that passed its checks before an       *)
(* uninstall went through does not bring the container back.               *)
(***************************************************************************)
RunningIsAdvertised ==
    \A i \in Insts :
        runtime[i] = "active" =>
            \/ \E row \in stored : \E a \in Elements(row.payload.apps) : a.identity.inst = i
            \/ \E t \in Threads : access[t].op = "import" /\ access[t].inst = i

=============================================================================
