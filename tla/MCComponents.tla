---------------------------- MODULE MCComponents ----------------------------
(***************************************************************************)
(* One small instance of every component that is checked on its own.  The  *)
(* components share no state, so a behaviour follows one of them, named by *)
(* the variable part, and leaves the others where they start: the states   *)
(* of the components add up instead of multiplying.                        *)
(***************************************************************************)
EXTENDS AppAccess, AppChannels, RuntimeSupervisor, SupervisorProtocol,
        ContainerImages, AppDatabases, PackageTrust, WireFormat, TextNames,
        ShellSettings, PersonalFiles, AuditTrail, RecoveryMode,
        Gateway, BrowserSignIn, ShellComposer, ShellPages, StoreTrust,
        AccountStore, TokenFamilies, OidcEndpoints, SealedSecrets, AppBridge,
        DesktopLayout

CONSTANTS s1, u1, d1, d2, t1, t2,
          Parts  \* the names of the components a run follows

VARIABLE part

\* Components with a choice of initial states make it only when they run.
ComponentsInit ==
    /\ part \in Parts
    /\ AccessInit /\ StreamInit /\ ChannelInit /\ SupervisorInit /\ ProtocolInit
    /\ ImagesInit /\ DatabasesInit /\ PackageInit /\ WireInit /\ TextInit
    /\ FilesInit /\ AuditInit /\ RowsInit /\ RecoveryInit /\ SignInInit
    /\ ComposerInit /\ PagesInit /\ TrustInit /\ AccountsInit /\ FamiliesInit
    /\ EndpointInit /\ SealInit
    /\ SettingsInit /\ (part # "settings" => setting = "preferences")
    /\ GatewayInit /\ (part # "gateway" => features = {})
    /\ BridgeInit
    /\ SettingsPagesInit /\ (part # "settingsPages" => settingsProvider = "workspace")
    /\ LayoutInit /\ (part # "layout" => columns = 1)

Rests(name, step) == IF part = name THEN TRUE ELSE step

OthersRest ==
    /\ Rests("access", UNCHANGED accessVars) /\ Rests("streams", UNCHANGED streamVars)
    /\ Rests("channels", UNCHANGED channelVars)
    /\ Rests("supervisor", UNCHANGED supervisorVars)
    /\ Rests("protocol", UNCHANGED protocolVars) /\ Rests("images", UNCHANGED imageVars)
    /\ Rests("databases", UNCHANGED databaseVars)
    /\ Rests("packages", UNCHANGED packageVars) /\ Rests("snapshot", UNCHANGED wireVars)
    /\ Rests("names", UNCHANGED text) /\ Rests("settings", UNCHANGED settingVars)
    /\ Rests("files", UNCHANGED fileVars) /\ Rests("audit", UNCHANGED auditVars)
    /\ Rests("rows", UNCHANGED rowVars) /\ Rests("recovery", UNCHANGED recoveryVars)
    /\ Rests("gateway", UNCHANGED gatewayVars) /\ Rests("signIn", UNCHANGED signInVars)
    /\ Rests("composer", UNCHANGED composerVars) /\ Rests("pages", UNCHANGED pageVars)
    /\ Rests("store", UNCHANGED trustVars) /\ Rests("accounts", UNCHANGED accountVars)
    /\ Rests("families", UNCHANGED familyVars)
    /\ Rests("endpoints", UNCHANGED endpointVars) /\ Rests("secrets", UNCHANGED sealVars)
    /\ Rests("bridge", UNCHANGED bridgeVars)
    /\ Rests("settingsPages", UNCHANGED settingsPageVars)
    /\ Rests("layout", UNCHANGED layoutVars)

ComponentsNext ==
    /\ UNCHANGED part
    /\ OthersRest
    /\ \/ part = "access" /\ AccessNext
       \/ part = "streams" /\ StreamNext
       \/ part = "channels" /\ ChannelNext
       \/ part = "supervisor" /\ SupervisorNext
       \/ part = "protocol" /\ ProtocolNext
       \/ part = "images" /\ ImagesNext
       \/ part = "databases" /\ DatabasesNext
       \/ part = "packages" /\ PackageNext
       \/ part = "snapshot" /\ WireNext
       \/ part = "names" /\ TextNext
       \/ part = "settings" /\ SettingsNext
       \/ part = "files" /\ FilesNext
       \/ part = "audit" /\ AuditNext
       \/ part = "rows" /\ RowsNext
       \/ part = "recovery" /\ RecoveryNext
       \/ part = "gateway" /\ GatewayNext
       \/ part = "signIn" /\ SignInNext
       \/ part = "composer" /\ ComposerNext
       \/ part = "pages" /\ PagesNext
       \/ part = "store" /\ TrustNext
       \/ part = "accounts" /\ AccountsNext
       \/ part = "families" /\ FamiliesNext
       \/ part = "endpoints" /\ EndpointNext
       \/ part = "secrets" /\ SealNext
       \/ part = "bridge" /\ BridgeNext
       \/ part = "settingsPages" /\ SettingsPagesNext
       \/ part = "layout" /\ LayoutNext

componentVars ==
    <<part, accessVars, streamVars, channelVars, supervisorVars, protocolVars, imageVars,
      databaseVars, packageVars, wireVars, text, settingVars, fileVars, auditVars, rowVars,
      recoveryVars, gatewayVars, signInVars, composerVars, pageVars, trustVars,
      accountVars, familyVars, endpointVars, sealVars, bridgeVars,
      settingsPageVars, layoutVars>>

ComponentsSpec == ComponentsInit /\ [][ComponentsNext]_componentVars

\* PagesFairness, for behaviours of the pages.
FairComponentsSpec ==
    /\ ComponentsSpec
    /\ WF_pageVars(part = "pages" /\ ServerStep)
    /\ WF_pageVars(part = "pages" /\ ConnectionStep)
    /\ WF_pageVars(part = "pages" /\ FetchStep)

-----------------------------------------------------------------------------
(***************************************************************************)
(* Properties that several components have for the same reason.            *)
(***************************************************************************)

\* Signing out is final: no lease of the session serves anything afterwards
\* (AppAccess::revoke_session), and no session row that was signed out resolves again
\* (revoke of the browser session repository), however the clock is set.
SignedOutIsOut ==
    /\ part = "access" => NothingServedAfterSignOut
    /\ part = "accounts" => SignOutIsFinal

\* What is stored can be loaded again: every stored platform snapshot recovers
\* (PlatformSnapshot::recover), and so do the rows of accounts and sessions
\* (AccountState::restore), whoever wrote them at once.
StoredStateRecovers ==
    /\ part = "access" => StoredSnapshotRecovers
    /\ part = "accounts" => StoredAccountsLoad


\* An answer settles the call it was made for: over the channel of a container
\* (AppChannelRegistry::complete) and over the bridge between the shell and an app's
\* document (bridge-client and provider-channel), whatever timed out, was cut off or
\* reloaded in between.
AnswersReachTheirCall ==
    /\ part = "channels" => ChannelAnswersTheCall
    /\ part = "bridge" => BridgeAnswersReachTheirCall

\* One revision stands for one state: two tabs that hold the same revision of a setting
\* hold the same values, a composed snapshot is what its sources were at its revision,
\* a page shows what the gateway answered for the revision it names, and a page's copy of
\* a setting never goes back to an earlier revision.
OneRevisionOneState ==
    /\ part = "settings" => SameRevisionSameSettings
    /\ part = "composer" => ComposedAtOneRevision
    /\ part = "pages" => ShownIsWhatWasAnswered
    /\ part = "settingsPages" => PagesMoveForward


\* What one side writes the other reads as the same thing: declarations and grants of
\* the snapshot, names, sealed secrets, audit rows and pages of them,
\* sealed files, client secrets, the fields of the supervisor's requests, the page a
\* person was headed for when the sign-in pages stepped in, and the stored places of the
\* icons, whatever apps and window they were stored for.
StoredFormsReadBack ==
    /\ part = "snapshot" => DeclarationsReadBack
    /\ part = "names" => NamesAreCanonical
    /\ part = "secrets" => SealedReadsBack
    /\ part = "rows" => QueriesAnswerWhatWasReported
    /\ part = "audit" => PagingMissesNothing
    /\ part = "files" => StoredFilesCanBeRead
    /\ part = "endpoints" => RegistrationRecovers
    /\ part = "protocol" => ServedAsSent
    /\ part = "signIn" => DestinationIsKept
    /\ part = "layout" => EveryIconIsDrawn

\* A credential is honoured only for what it was issued for: a stream ticket for its
\* endpoint, a code and its tokens for the request, the client and the verifier.
CredentialsOpenTheirOwn ==
    /\ part = "streams" => TicketsOpenTheirEndpoint
    /\ part = "endpoints" => TokensAnswerTheirRequest

\* A limit holds whatever runs concurrently: password checks at a time
\* (the login_slots semaphore), and rows of device overrides (DEVICE_LIMIT).
LimitsHold ==
    /\ part = "signIn" => ChecksAreBounded
    /\ part = "settings" => OverridesAreBounded

-----------------------------------------------------------------------------
(***************************************************************************)
(* Apps, their runtimes and their packages.                                *)
(***************************************************************************)
MCWebApp ==
    [app |-> "notes", publisher |-> "home", kind |-> "web", lifecycle |-> "OnDemand",
     entrypoints |-> <<[id |-> "main", kind |-> "WebAsset"]>>,
     permissions |-> <<>>, capabilities |-> <<"find">>, events |-> <<>>,
     databases |-> <<>>, settings |-> <<>>,
     contributions |-> <<[id |-> "search", kind |-> "Search", capability |-> "find"]>>,
     connectors |-> <<>>, oidc |-> <<>>, stream |-> <<>>]

MCContainerApp ==
    [MCWebApp EXCEPT
        !.app = "media", !.kind = "container", !.lifecycle = "AlwaysOn",
        !.entrypoints = <<[id |-> "app", kind |-> "ContainerArtifact"]>>,
        !.contributions = <<[id |-> "open", kind |-> "Command", capability |-> "find"]>>,
        !.events = <<"tick">>, !.databases = <<"main">>,
        !.connectors = <<[target |-> "t", entrypoint |-> "app"]>>, !.stream = <<"app">>]

\* A web app that may not be always on, a container, and a web app.
MCOffered ==
    <<[MCWebApp EXCEPT !.lifecycle = "AlwaysOn"], MCContainerApp, MCWebApp>>
MCUser == [s \in AccessSessions |-> u1]

MCOne == <<"i">>
MCTwo == <<"i", "j">>
MCTexts == {MCOne, MCTwo}

MCRuntimeSpec ==
    [installation |-> MCTwo, app |-> MCOne, publisher |-> MCOne, version |-> MCOne,
     kind |-> "container",
     entrypoints |-> <<[id |-> MCOne, target |-> "container-artifact", path |-> MCTwo]>>]

\* One request of each kind, and one whose field is longer than the limit.
MCRuntimeRequests ==
    {[operation |-> "prepare", spec |-> MCRuntimeSpec],
     [operation |-> "activate",
      spec |-> [MCRuntimeSpec EXCEPT !.kind = "web", !.entrypoints = <<>>]],
     [operation |-> "state", installation |-> MCTwo],
     [operation |-> "deactivate", installation |-> MCTwo],
     [operation |-> "remove", installation |-> MCTwo],
     [operation |-> "remove", installation |-> <<"i", "j", "k">>]}

MCSecretRequests ==
    {[operation |-> "deliver", journal |-> MCOne, installation |-> MCOne, app |-> MCOne,
      publisher |-> MCOne, client |-> MCOne, secret |-> MCTwo],
     [operation |-> "remove", journal |-> MCOne, installation |-> MCTwo]}

MCImageRequests ==
    {[operation |-> "import", installation |-> MCOne, artifact |-> MCOne, archive |-> bytes]
        : bytes \in {<<"x", "y", "z">>, <<>>}}

MCCommandLines ==
    {<<"--docker", "--runtime-root", "--image-root", "--network", "--instance",
       "--control-socket", "--secret-socket", "--image-socket", "--platform-user">>,
     <<"--docker", "--docker">>}

MCDigest(v) == [length |-> 64, hex |-> TRUE, value |-> v]
MCArchive(length, tagged, untagged) ==
    [artifact |-> "app.tar", length |-> length, untagged |-> {MCDigest(d) : d \in untagged},
     tagged |-> {[name |-> t[1], digest |-> MCDigest(t[2])] : t \in tagged}]

\* Two archives with one name for different images, two without names, one with two names.
MCInstalls == 1 .. 5
MCArchiveOf ==
    <<MCArchive(1, {<<"app:1", "d1">>}, {}), MCArchive(1, {<<"app:1", "d2">>}, {}),
      MCArchive(2, {}, {"d3"}), MCArchive(2, {}, {"d4", "d5"}),
      MCArchive(1, {<<"app:1", "d1">>, <<"app:2", "d6">>}, {})>>

MCPlainText(n) == [length |-> n, plain |-> TRUE]
MCOwn == [kind |-> "directory", owner |-> "self", writable |-> "self"]
MCShared == [MCOwn EXCEPT !.writable = "group"]
MCDirectories == {MCOwn, MCShared}

MCOption ==
    [executable |-> "absolute", runtimeRoot |-> "absolute", imageRoot |-> "absolute",
     network |-> MCPlainText(8), instance |-> MCPlainText(8), commandTimeout |-> 30,
     stopTimeout |-> 10, importTimeout |-> 60, socketMode |-> "owner and group",
     socketInUse |-> FALSE, runtimeDirectory |-> MCOwn, daemonAnswers |-> TRUE,
     networkExists |-> TRUE]

MCOptions ==
    {MCOption, [MCOption EXCEPT !.runtimeRoot = "absolute with a comma"],
     [MCOption EXCEPT !.stopTimeout = 0], [MCOption EXCEPT !.runtimeDirectory = MCShared],
     [MCOption EXCEPT !.socketInUse = TRUE]}

MCSpec(kind, value) ==
    [install |-> "i", version |-> 1, kind |-> "container",
     entrypoints |-> <<[id |-> "main", target |-> kind, value |-> value]>>]
MCSpecsOf ==
    [i \in MCInstalls |->
        {MCSpec("container", "app.tar"), MCSpec("container", "other.tar"),
         MCSpec("web", "index.html")}]

MCBinding(id, owner) == [id |-> id, owner |-> owner]
MCBindingLists ==
    {<<>>, <<MCBinding("main", "i")>>, <<MCBinding("main", "i"), MCBinding("log", "i")>>,
     <<MCBinding("main", "i"), MCBinding("main", "i")>>,
     <<MCBinding("main", "i"), MCBinding("log", "j")>>}

MCDocument(publisher, kind, entrypoint, permissions) ==
    [version |-> 1, publisher |-> publisher, app |-> "notes", kind |-> kind,
     lifecycle |-> <<>>, permissions |-> permissions, capabilities |-> <<"notes.read">>,
     entrypoints |-> <<[id |-> "main", kind |-> entrypoint, path |-> <<"a">>,
                        endpoint |-> <<>>]>>,
     connectors |-> <<>>, files |-> <<>>,
     settings |-> <<[key |-> "size", kind |-> "select", options |-> <<"s", "l">>,
                     required |-> FALSE]>>]
MCTemplates ==
    {MCDocument("p", "web", "web-asset",
        <<[id |-> "files", scope |-> <<"explicit">>, required |-> TRUE, reason |-> <<"">>],
          [id |-> "mail", scope |-> <<>>, required |-> FALSE, reason |-> <<"r">>]>>),
     MCDocument("q", "container", "container-artifact", <<>>)}

-----------------------------------------------------------------------------
(***************************************************************************)
(* The shell, its settings and its log.                                    *)
(***************************************************************************)
MCTabDevice == [t \in Tabs |-> IF t = t1 THEN d1 ELSE d2]
MCAlwaysOn == <<"x">>

MCName(n) == [length |-> n, control |-> FALSE, uuid |-> n = 36]
MCBadName == [MCName(4) EXCEPT !.control = TRUE]
MCActor(k, n) == [kind |-> k, name |-> n]
MCActors ==
    {MCActor("User", MCName(36)), MCActor("App", MCName(36)), MCActor("Service", MCName(4)),
     MCActor("App", MCBadName), MCActor("System", MCName(0)), MCActor("Os", MCName(0))}

MCEvent(actor, action, outcome, goal, at) ==
    [actor |-> actor, action |-> action, outcome |-> outcome, target |-> goal, at |-> at]
MCEventInputs ==
    {MCEvent(MCActor("User", MCName(36)), a, "Success", NotGiven, 1) : a \in DOMAIN ActionText}
    \union {MCEvent(actor, "Activity", "Denied", goal, 2) :
              actor \in MCActors, goal \in {NotGiven, MCName(4), MCBadName, MCName(257)}}

MCFilter ==
    [action |-> NotGiven, actor |-> NotGiven, outcome |-> NotGiven, target |-> NotGiven,
     since |-> 0]
MCFilters ==
    {MCFilter, [MCFilter EXCEPT !.since = 2], [MCFilter EXCEPT !.target = MCName(4)],
     [MCFilter EXCEPT !.outcome = "denied"], [MCFilter EXCEPT !.action = "sign in"]}
    \union {[MCFilter EXCEPT !.action = ActionText[a]] : a \in DOMAIN ActionText}
    \union {[MCFilter EXCEPT !.actor = EncodedActor(a)] : a \in MCActors}

\* A page of the shell, a path of the platform, and a path with two leading slashes.
MCTarget(first, slashes) ==
    [length |-> 10, slashes |-> slashes, plain |-> TRUE, first |-> first, marked |-> FALSE]
MCTargets == {MCTarget("files", 1), MCTarget("api", 1), MCTarget("files", 2)}

MCManifest(t) ==
    [id |-> "org.theme.a", chrome |-> "compact", layout |-> "dock", launcher |-> "drawer",
     tokens |-> t]
MCManifests ==
    {MCManifest([text |-> Colour(900)]),
     MCManifest([text |-> Colour(900), panel |-> Colour(0)]),
     MCManifest([wallpaper |-> CssText(";")]),
     MCManifest([windowRadius |-> Measure(33, "px")]),
     MCManifest([windowRadius |-> Measure(32, "px"), duration |-> Measure(0, "ms"),
                 opacity |-> Measure(10, "tenths"),
                 wallpaper |-> [head |-> "url(", n |-> 0, tail |-> "/shell/assets/)"]])}
MCContributions ==
    {[kind |-> "widget", id |-> "w", title |-> "t", names |-> "e"],
     [kind |-> "command", id |-> "c", title |-> "t", names |-> "x.y.z"],
     [kind |-> "command", id |-> "d", title |-> "control", names |-> "x.y.z"]}

MCPageApps == {[id |-> "b", title |-> "control", version |-> 1, launchable |-> TRUE]}

MCReply(for, n, type) ==
    [status |-> 200, for |-> for, length |-> n, maximum |-> 2, type |-> type]
MCUrl(fragment, reply) ==
    [length |-> 20, scheme |-> "https", host |-> "h1", login |-> FALSE,
     fragment |-> fragment, reply |-> reply]
MCUrls ==
    {MCUrl(FALSE, MCReply("catalogue", 2, "text/plain")),
     MCUrl(FALSE, MCReply("image", 2, "text/plain")),
     MCUrl(FALSE, MCReply("image", 3, "image/png")),
     MCUrl(TRUE, MCReply("image", 2, "image/png"))}
MCTypedHosts ==
    {[length |-> 2, lowered |-> h, separators |-> FALSE] : h \in {"h1", "h2"}}
    \union {[length |-> 3, lowered |-> "h1/", separators |-> TRUE]}
MCPrintTexts == {[length |-> 64, hex |-> TRUE, lowered |-> f] : f \in {"pub", "own"}}

\* One app whose document calls and provides: a method it declared, one it did not.
MCDeclared == [a \in BridgeApps |-> {"window", "capabilities"}]
MCCallKinds == [a \in BridgeApps |-> {"os.info", "os.window.close", "os.capabilities.invoke"}]
MCMaxDocuments == [a \in BridgeApps |-> 2]
MCDropCells == {<<0, 0>>, <<1, 0>>, <<0, 5>>}
MCStoredOrders == {<<"c", "gone", "a", "c">>}

-----------------------------------------------------------------------------
(***************************************************************************)
(* Accounts, clients and secrets.                                          *)
(***************************************************************************)
MCPassword(n, form) == [n |-> n, control |-> FALSE, blocked |-> FALSE, form |-> form]
MCNewAccounts ==
    {[name |-> n, display |-> [trimmed |-> 3, control |-> FALSE, padded |-> TRUE],
      password |-> MCPassword(15, "nfc")] : n \in {"Ann", "bob"}}
MCCanonical == [n \in {"ann", "Ann", "bob"} |-> IF n = "Ann" THEN "ann" ELSE n]
MCPasswords == {MCPassword(15, "nfd"), MCPassword(16, "nfc")}

MCOidcApp(app, type, control, scopes) ==
    [app |-> app, type |-> type, name |-> [n |-> 4, control |-> control], scopes |-> scopes,
     callback |-> [absolute |-> TRUE, doubleSlash |-> FALSE, query |-> FALSE,
                   segments |-> "plain"]]
MCPublic == MCOidcApp("pub", "public", FALSE, <<"openid", "profile">>)
MCConfidential == MCOidcApp("conf", "confidential", FALSE, <<"openid">>)
MCOidcApps ==
    {MCPublic, MCConfidential, MCOidcApp("bad", "confidential", TRUE, <<"openid">>)}
MCRedirects == {RedirectOf(MCPublic), RedirectOf(MCConfidential)}
MCVerifiers == {[n |-> 43, alphabet |-> TRUE, value |-> v] : v \in {"v1", "v2"}}

MCOpaque(x) == [n |-> 8, visible |-> TRUE, text |-> x]
MCRequest(a, sc, v) ==
    [client |-> a.app, session |-> "s1", redirect |-> RedirectOf(a), scopes |-> sc,
     responseType |-> "code", method |-> "S256", state |-> MCOpaque("s"),
     nonce |-> MCOpaque(v),
     challenge |-> [n |-> 43, alphabet |-> TRUE, digest |-> <<"sha256", v>>]]
MCAuthorize ==
    {MCRequest(MCPublic, <<"openid", "profile">>, "v1"),
     MCRequest(MCPublic, <<"openid">>, "v2"),
     MCRequest(MCConfidential, <<"openid">>, "v1"),
     MCRequest(MCConfidential, <<"openid", "profile">>, "v1"),
     [MCRequest(MCConfidential, <<"openid">>, "v2") EXCEPT !.redirect = RedirectOf(MCPublic)],
     [MCRequest(MCPublic, <<"openid">>, "v2") EXCEPT !.nonce.n = 7],
     [MCRequest(MCPublic, <<"openid">>, "v2") EXCEPT !.method = "plain"]}
MCConsent == {<<"openid">>, <<"profile", "openid">>}
MCEndpointUser == [s1 |-> "u", s2 |-> "u2"]
MCClaimedName == [u |-> "name", u2 |-> Nobody]

MCOldKey == <<"a", "1">>
MCNewKey == <<"a">>
MCKey(id, object) == [id |-> id, object |-> object, policySession |-> "none"]
MCConfiguration(active, keys) ==
    [executable |-> "absolute", timeout |-> 10, active |-> active,
     sealed |-> {MCKey(id, "absolute") : id \in keys}]
MCKeyConfigurations ==
    {MCConfiguration(MCOldKey, {MCOldKey}), MCConfiguration(MCNewKey, {MCOldKey, MCNewKey}),
     MCConfiguration(MCNewKey, {MCNewKey}), MCConfiguration(MCNewKey, {MCOldKey}),
     [MCConfiguration(MCOldKey, {}) EXCEPT !.sealed = {MCKey(MCOldKey, "relative")}]}
MCSecretOwner(i, a) == [installation |-> i, app |-> a, publisher |-> "p"]
MCSecretOwners ==
    {MCSecretOwner("i1", "x"), MCSecretOwner("i1", "y"), MCSecretOwner("i2", "x")}
MCSecrets ==
    {[length |-> 43, text |-> "s"], [length |-> 43, text |-> "t"],
     [length |-> 0, text |-> "s"]}
MCUnsealRuns ==
    {GoodRun, [exit |-> "killed", length |-> 0], [exit |-> "success", length |-> 40]}
=============================================================================
