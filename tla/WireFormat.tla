----------------------------- MODULE WireFormat -----------------------------
(***************************************************************************)
(* The stored form of what an app declares, of the grants                  *)
(* (persistence-sqlite/src/wire.rs) and of an operation of the journal     *)
(* (app_operation_repository.rs).  Every declaration has a constructor  *)
(* in core, a `capture` that writes it and an `into_domain` that calls the *)
(* constructor again on what was written.  A platform that changes one app *)
(* reads the whole snapshot and writes it again, so a declaration passes   *)
(* through both conversions any number of times.                           *)
(*                                                                         *)
(* A field that is left out of the document has the value Left; names are  *)
(* those that parse (TextNames has the parsers); a title is one of three   *)
(* texts, because the constructors trim it and refuse an empty one.        *)
(***************************************************************************)
EXTENDS Integers, Sequences, FiniteSets

CONSTANTS WireNames,      \* names that every parser accepts
          WireTexts,      \* titles, labels and descriptions: subset of WireTitles
          StreamWidths, StreamHeights, FrameRates,
          OptionLimit,    \* settings.rs MAX_OPTIONS
          Left            \* a field that is not in the document

ASSUME OptionLimit \in Nat

VARIABLES declared,       \* the declaration the platform holds
          document        \* its stored form

wireVars == <<declared, document>>

WireTitles == {"", "plain", " plain"}

TrimmedTitle(t) == IF t = " plain" THEN "plain" ELSE t

Listing(s) == {s[n] : n \in DOMAIN s}

NoDeclaration == [type |-> "none"]

\* An optional field is <<>> or <<value>> in core.
Optional(values) == {<<>>} \cup {<<v>> : v \in values}

WireOptional(o) == IF o = <<>> THEN Left ELSE o[1]

FromWireOptional(f) == IF f = Left THEN <<>> ELSE <<f>>

-----------------------------------------------------------------------------
(***************************************************************************)
(* Settings: a select has options, each with its own value.                *)
(***************************************************************************)
OptionConstructs(o) == TrimmedTitle(o.label) # ""

NewOption(o) == [o EXCEPT !.label = TrimmedTitle(@)]

OptionsConstruct(options) ==
    /\ Len(options) \in 1 .. OptionLimit
    /\ \A m, n \in DOMAIN options : options[m].value = options[n].value => m = n

SettingConstructs(s) ==
    /\ TrimmedTitle(s.title) # ""
    /\ s.kind.name = "select" => OptionsConstruct(s.kind.options)
    /\ \A d \in Listing(s.description) : TrimmedTitle(d) # ""

NewSetting(s) ==
    [s EXCEPT !.title = TrimmedTitle(@),
              !.description = [n \in DOMAIN @ |-> TrimmedTitle(@[n])]]

CaptureSetting(s) ==
    [type |-> "setting", key |-> s.key, title |-> s.title,
     description |-> WireOptional(s.description), kind |-> s.kind.name,
     options |-> IF s.kind.options = <<>> THEN Left ELSE s.kind.options,
     required |-> s.required]

\* The document's options, as they are read when the field is left out.
WireOptions(w) == IF w.options = Left THEN <<>> ELSE w.options

SettingReadsBack(w) ==
    /\ w.kind \in {"text", "number", "boolean", "select"}
    /\ (w.kind = "select") = (WireOptions(w) # <<>>)
    /\ \A o \in Listing(WireOptions(w)) : OptionConstructs(o)

SettingFromWire(w) ==
    NewSetting([type |-> "setting", key |-> w.key, title |-> w.title,
                description |-> FromWireOptional(w.description),
                kind |-> [name |-> w.kind,
                          options |-> [n \in DOMAIN WireOptions(w) |->
                                          NewOption(WireOptions(w)[n])]],
                required |-> w.required = TRUE])

-----------------------------------------------------------------------------
(***************************************************************************)
(* Streams, connectors, databases and the OIDC client.                     *)
(***************************************************************************)
SizeConstructs(size) == size.width \in 320 .. 7680 /\ size.height \in 200 .. 4320

StreamConstructs(s) ==
    /\ \A size \in Listing(s.size) : SizeConstructs(size)
    /\ \A rate \in Listing(s.rate) : rate \in 1 .. 120

CaptureStream(s) ==
    [type |-> "stream", entrypoint |-> s.entrypoint,
     size |-> WireOptional(s.size), rate |-> WireOptional(s.rate)]

StreamFromWire(w) ==
    [type |-> "stream", entrypoint |-> w.entrypoint,
     size |-> FromWireOptional(w.size), rate |-> FromWireOptional(w.rate)]

CaptureConnector(c) == [type |-> "connector", target |-> c.target, entrypoint |-> c.entrypoint]

ConnectorFromWire(w) == [type |-> "connector", target |-> w.target, entrypoint |-> w.entrypoint]

CaptureDatabase(d) == [type |-> "database", id |-> d.id]

DatabaseFromWire(w) == [type |-> "database", id |-> w.id]

ScopeName ==
    [OpenId |-> "open_id", Profile |-> "profile", Email |-> "email",
     OfflineAccess |-> "offline_access"]

ScopeFromName(name) == CHOOSE s \in DOMAIN ScopeName : ScopeName[s] = name

ClientTypeName == [Public |-> "public", Confidential |-> "confidential"]

ClientTypeFromName(name) == CHOOSE t \in DOMAIN ClientTypeName : ClientTypeName[t] = name

MaxScopes == 8

OidcConstructs(o) ==
    /\ Len(o.scopes) <= MaxScopes
    /\ "OpenId" \in Listing(o.scopes)
    /\ \A m, n \in DOMAIN o.scopes : o.scopes[m] = o.scopes[n] => m = n

CaptureOidc(o) ==
    [type |-> "oidc", clientType |-> ClientTypeName[o.clientType],
     entrypoint |-> o.entrypoint, path |-> o.path,
     scopes |-> [n \in DOMAIN o.scopes |-> ScopeName[o.scopes[n]]]]

OidcFromWire(w) ==
    [type |-> "oidc", clientType |-> ClientTypeFromName(w.clientType),
     entrypoint |-> w.entrypoint, path |-> w.path,
     scopes |-> [n \in DOMAIN w.scopes |-> ScopeFromName(w.scopes[n])]]

-----------------------------------------------------------------------------
(***************************************************************************)
(* The runtime, requests for permissions and contributions.                *)
(***************************************************************************)
KindName == [Web |-> "web", Container |-> "container", Native |-> "native"]

KindFromName(name) == CHOOSE k \in DOMAIN KindName : KindName[k] = name

EntrypointFits(kind, e) ==
    \/ kind = "Web" /\ e.target = "WebAsset"
    \/ kind = "Container" /\ e.target \in {"ContainerArtifact", "Endpoint"}

RuntimeConstructs(r) ==
    /\ \A e \in Listing(r.entrypoints) : EntrypointFits(r.kind, e)
    /\ \A m, n \in DOMAIN r.entrypoints : r.entrypoints[m].id = r.entrypoints[n].id => m = n

\* An endpoint is named, an asset or artifact has a path.
CaptureEntrypoint(e) ==
    IF e.target = "Endpoint" THEN [tag |-> "endpoint", id |-> e.id, endpoint |-> e.at]
    ELSE [tag |-> IF e.target = "WebAsset" THEN "web_asset" ELSE "container_artifact",
          id |-> e.id, path |-> e.at]

EntrypointFromWire(w) ==
    CASE w.tag = "endpoint" -> [target |-> "Endpoint", id |-> w.id, at |-> w.endpoint]
      [] w.tag = "web_asset" -> [target |-> "WebAsset", id |-> w.id, at |-> w.path]
      [] w.tag = "container_artifact" ->
             [target |-> "ContainerArtifact", id |-> w.id, at |-> w.path]

CaptureRuntime(r) ==
    [type |-> "runtime", kind |-> KindName[r.kind],
     entrypoints |-> [n \in DOMAIN r.entrypoints |-> CaptureEntrypoint(r.entrypoints[n])]]

RuntimeFromWire(w) ==
    [type |-> "runtime", kind |-> KindFromName(w.kind),
     entrypoints |-> [n \in DOMAIN w.entrypoints |-> EntrypointFromWire(w.entrypoints[n])]]

PermissionScopeName ==
    [AppPrivate |-> "app_private", UserOwn |-> "user_own", UserSelected |-> "user_selected",
     Explicit |-> "explicit", FamilyShared |-> "family_shared", System |-> "system"]

PermissionScopeFromName(name) ==
    CHOOSE s \in DOMAIN PermissionScopeName : PermissionScopeName[s] = name

CapturePermission(p) ==
    [type |-> "permission", permission |-> p.permission, scope |-> PermissionScopeName[p.scope],
     required |-> p.required, reason |-> WireOptional(p.reason)]

PermissionFromWire(w) ==
    [type |-> "permission", permission |-> w.permission,
     scope |-> PermissionScopeFromName(w.scope), required |-> w.required,
     reason |-> FromWireOptional(w.reason)]

ContributionConstructs(c) == c.kind = "Command" => TrimmedTitle(c.title) # ""

NewContribution(c) ==
    IF c.kind = "Command" THEN [c EXCEPT !.title = TrimmedTitle(@)] ELSE c

CaptureAction(a) ==
    IF a.does = "OpenApp" THEN [tag |-> "open_app", app |-> a.name]
    ELSE [tag |-> "invoke_capability", capability |-> a.name]

ActionFromWire(w) ==
    IF w.tag = "open_app" THEN [does |-> "OpenApp", name |-> w.app]
    ELSE [does |-> "InvokeCapability", name |-> w.capability]

CaptureContribution(c) ==
    IF c.kind = "Command"
    THEN [type |-> "contribution", tag |-> "command", id |-> c.id, title |-> c.title,
          action |-> CaptureAction(c.action)]
    ELSE [type |-> "contribution", tag |-> "search", id |-> c.id, capability |-> c.capability]

ContributionFromWire(w) ==
    IF w.tag = "command"
    THEN NewContribution([type |-> "contribution", kind |-> "Command", id |-> w.id,
                          title |-> w.title, action |-> ActionFromWire(w.action)])
    ELSE [type |-> "contribution", kind |-> "Search", id |-> w.id,
          capability |-> w.capability]

-----------------------------------------------------------------------------
(***************************************************************************)
(* Grants: a subject, a permission in a scope, resources and the issuer.   *)
(***************************************************************************)
GrantConstructs(g) ==
    /\ g.scope = "Explicit" => g.resources # <<>>
    /\ g.scope = "System" => g.resources = <<>>

CaptureIdentity(i) ==
    IF i.kind = "App"
    THEN [tag |-> "app", appId |-> i.app, installation |-> i.inst, publisher |-> i.publisher]
    ELSE [tag |-> IF i.kind = "User" THEN "user" ELSE "service", id |-> i.id]

IdentityFromWire(w) ==
    IF w.tag = "app"
    THEN [kind |-> "App", app |-> w.appId, inst |-> w.installation, publisher |-> w.publisher]
    ELSE [kind |-> IF w.tag = "user" THEN "User" ELSE "Service", id |-> w.id]

CaptureResource(r) == [namespace |-> r.namespace, kind |-> r.kind, key |-> r.key]

ResourceFromWire(w) == [namespace |-> w.namespace, kind |-> w.kind, key |-> w.key]

CaptureGrant(g) ==
    [type |-> "grant", id |-> g.id, subject |-> CaptureIdentity(g.subject),
     permission |-> g.permission, scope |-> PermissionScopeName[g.scope],
     resources |-> [n \in DOMAIN g.resources |-> CaptureResource(g.resources[n])],
     grantedBy |-> CaptureIdentity(g.grantedBy)]

GrantFromWire(w) ==
    [type |-> "grant", id |-> w.id, subject |-> IdentityFromWire(w.subject),
     permission |-> w.permission, scope |-> PermissionScopeFromName(w.scope),
     resources |-> [n \in DOMAIN w.resources |-> ResourceFromWire(w.resources[n])],
     grantedBy |-> IdentityFromWire(w.grantedBy)]

(***************************************************************************)
(* An operation: names in the columns of its row, and one row for every    *)
(* step, which carries its position.                                       *)
(***************************************************************************)
OperationNames ==
    [kind |-> [Install |-> "install", Update |-> "update", Uninstall |-> "uninstall"],
     phase |-> [Applying |-> "applying", Committed |-> "committed",
                Compensating |-> "compensating", Compensated |-> "compensated"],
     resource |-> [AppDatabases |-> "app-databases", RuntimeInstance |-> "runtime-instance",
                   OidcClient |-> "oidc-client", RuntimeActivation |-> "runtime-activation",
                   PlatformSnapshot |-> "platform-snapshot"],
     state |-> [Pending |-> "pending", Applying |-> "applying", Applied |-> "applied",
                CompensationPending |-> "compensation-pending",
                Compensating |-> "compensating", Compensated |-> "compensated"]]

ParsesAs(column, name) ==
    {v \in DOMAIN OperationNames[column] : OperationNames[column][v] = name}

InsertSteps(steps) ==
    [n \in DOMAIN steps |->
        [position |-> n - 1, resource |-> OperationNames.resource[steps[n].resource],
         state |-> OperationNames.state[steps[n].state]]]

CaptureOperation(o) ==
    [type |-> "operation", kind |-> OperationNames.kind[o.kind],
     phase |-> OperationNames.phase[o.phase], steps |-> InsertSteps(o.steps)]

OperationReadsBack(w) ==
    /\ ParsesAs("kind", w.kind) # {} /\ ParsesAs("phase", w.phase) # {}
    /\ \A n \in DOMAIN w.steps :
         /\ w.steps[n].position = n - 1
         /\ ParsesAs("resource", w.steps[n].resource) # {}
         /\ ParsesAs("state", w.steps[n].state) # {}

OperationFromWire(w) ==
    LET Parsed(column, name) == CHOOSE v \in ParsesAs(column, name) : TRUE
    IN  [type |-> "operation", kind |-> Parsed("kind", w.kind),
         phase |-> Parsed("phase", w.phase),
         steps |-> [n \in DOMAIN w.steps |->
                       [resource |-> Parsed("resource", w.steps[n].resource),
                        state |-> Parsed("state", w.steps[n].state)]]]

-----------------------------------------------------------------------------
Constructs(d) ==
    CASE d.type = "setting" -> SettingConstructs(d)
      [] d.type = "stream" -> StreamConstructs(d)
      [] d.type = "oidc" -> OidcConstructs(d)
      [] d.type = "runtime" -> RuntimeConstructs(d)
      [] d.type = "contribution" -> ContributionConstructs(d)
      [] d.type = "grant" -> GrantConstructs(d)
      [] OTHER -> TRUE

Constructed(d) ==
    CASE d.type = "setting" -> NewSetting(d)
      [] d.type = "contribution" -> NewContribution(d)
      [] OTHER -> d

CaptureDeclaration(d) ==
    CASE d.type = "setting" -> CaptureSetting(d)
      [] d.type = "stream" -> CaptureStream(d)
      [] d.type = "connector" -> CaptureConnector(d)
      [] d.type = "database" -> CaptureDatabase(d)
      [] d.type = "oidc" -> CaptureOidc(d)
      [] d.type = "runtime" -> CaptureRuntime(d)
      [] d.type = "permission" -> CapturePermission(d)
      [] d.type = "contribution" -> CaptureContribution(d)
      [] d.type = "grant" -> CaptureGrant(d)
      [] d.type = "operation" -> CaptureOperation(d)

DeclarationFromWire(w) ==
    CASE w.type = "setting" -> SettingFromWire(w)
      [] w.type = "stream" -> StreamFromWire(w)
      [] w.type = "connector" -> ConnectorFromWire(w)
      [] w.type = "database" -> DatabaseFromWire(w)
      [] w.type = "oidc" -> OidcFromWire(w)
      [] w.type = "runtime" -> RuntimeFromWire(w)
      [] w.type = "permission" -> PermissionFromWire(w)
      [] w.type = "contribution" -> ContributionFromWire(w)
      [] w.type = "grant" -> GrantFromWire(w)
      [] w.type = "operation" -> OperationFromWire(w)

ReadsBack(w) ==
    /\ w.type = "setting" => SettingReadsBack(w)
    /\ w.type = "operation" => OperationReadsBack(w)
    /\ Constructs(DeclarationFromWire(w))

-----------------------------------------------------------------------------
(***************************************************************************)
(* What an app's author, or an administrator, can put forward.             *)
(***************************************************************************)
SettingInputs ==
    LET options == {<<>>} \cup {<<[value |-> v, label |-> "plain"]>> : v \in WireNames}
                   \cup {<<[value |-> v, label |-> "plain"], [value |-> w, label |-> "plain"]>> :
                             v, w \in WireNames}
        kinds == {[name |-> k, options |-> <<>>] : k \in {"text", "number", "boolean"}}
                 \cup {[name |-> "select", options |-> o] : o \in options}
    IN  [type : {"setting"}, key : WireNames, title : WireTexts,
         description : Optional(WireTexts), kind : kinds, required : BOOLEAN]

StreamInputs ==
    [type : {"stream"}, entrypoint : WireNames,
     size : Optional([width : StreamWidths, height : StreamHeights]),
     rate : Optional(FrameRates)]

OidcInputs ==
    [type : {"oidc"}, clientType : {"Public", "Confidential"}, entrypoint : WireNames,
     path : WireNames,
     scopes : UNION {[1 .. n -> DOMAIN ScopeName] : n \in 0 .. 2}]

RuntimeInputs ==
    [type : {"runtime"}, kind : {"Web", "Container"},
     entrypoints : UNION {[1 .. n -> [target : {"WebAsset", "ContainerArtifact", "Endpoint"},
                                      id : WireNames, at : WireNames]] : n \in 0 .. 1}]

ContributionInputs ==
    [type : {"contribution"}, kind : {"Search"}, id : WireNames, capability : WireNames]
    \cup [type : {"contribution"}, kind : {"Command"}, id : WireNames, title : WireTexts,
          action : [does : {"OpenApp", "InvokeCapability"}, name : WireNames]]

IdentityInputs ==
    [kind : {"User", "Service"}, id : WireNames]
    \cup [kind : {"App"}, app : WireNames, inst : WireNames, publisher : WireNames]

GrantInputs ==
    LET resources == [namespace : WireNames, kind : WireNames, key : WireNames]
    IN  [type : {"grant"}, id : WireNames, subject : IdentityInputs, permission : WireNames,
         scope : {"Explicit", "System", "UserOwn"}, resources : Optional(resources),
         grantedBy : [kind : {"User", "Service"}, id : WireNames]]

\* One step, alone or before the snapshot.
OperationInputs ==
    LET steps == [resource : DOMAIN OperationNames.resource, state : DOMAIN OperationNames.state]
        last == [resource |-> "PlatformSnapshot", state |-> "Pending"]
    IN  [type : {"operation"}, kind : DOMAIN OperationNames.kind,
         phase : DOMAIN OperationNames.phase,
         steps : {<<s>> : s \in steps} \cup {<<s, last>> : s \in steps}]

DeclarationInputs ==
    SettingInputs \cup StreamInputs \cup OidcInputs \cup RuntimeInputs
    \cup ContributionInputs \cup GrantInputs \cup OperationInputs
    \cup [type : {"connector"}, target : WireNames, entrypoint : WireNames]
    \cup [type : {"database"}, id : WireNames]
    \cup [type : {"permission"}, permission : WireNames, scope : DOMAIN PermissionScopeName,
          required : BOOLEAN, reason : Optional(WireTexts)]

-----------------------------------------------------------------------------
WireInit == declared = NoDeclaration /\ document = NoDeclaration

\* The platform accepts a declaration and stores the snapshot that has it.
Declare(d) ==
    /\ declared = NoDeclaration
    /\ Constructs(d)
    /\ declared' = Constructed(d)
    /\ document' = CaptureDeclaration(Constructed(d))

\* A row of a platform that did not write `required`.
StoredBefore ==
    /\ document.type = "setting"
    /\ document.required = FALSE
    /\ document' = [document EXCEPT !.required = Left]
    /\ UNCHANGED declared

\* A change of something else: the snapshot is read and written again.
StoreAgain ==
    /\ document # NoDeclaration
    /\ ReadsBack(document)
    /\ declared' = DeclarationFromWire(document)
    /\ document' = CaptureDeclaration(DeclarationFromWire(document))

WireNext ==
    \/ \E d \in DeclarationInputs : Declare(d)
    \/ StoredBefore
    \/ StoreAgain

WireSpec == WireInit /\ [][WireNext]_wireVars

(***************************************************************************)
(* What core accepted as a declaration or a grant is read back as the same *)
(* value, however often the snapshot is written and read again, and by the *)
(* same constructor (WireSnapshot::capture and into_domain): one row that  *)
(* does not read back would take every installed app with it.  So is an    *)
(* operation of the journal (decode), which one bad row would stop at      *)
(* every recovery.                                                         *)
(***************************************************************************)
DeclarationsReadBack ==
    document # NoDeclaration =>
        /\ ReadsBack(document)
        /\ DeclarationFromWire(document) = declared

=============================================================================
