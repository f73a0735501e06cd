------------------------------ MODULE Gateway -------------------------------
(***************************************************************************)
(* The web gateway's routes (platform-web/src/server.rs, files.rs,         *)
(* workspace.rs).  A handler is the sequence of its checks and calls, in   *)
(* the order of the code; every check may answer the request.  A handler   *)
(* waits for the session store, for the mode repository and for the call   *)
(* it makes, so the session may end, the operating mode of the device and  *)
(* safe mode may change, and the browser may go away, between two checks.  *)
(*                                                                         *)
(* The middleware audit_activity runs around every handler: it takes the   *)
(* credential before, and authenticates it again after the handler has     *)
(* answered, to say who made the request.                                  *)
(*                                                                         *)
(* The headers, the body and the query of a request are what the checks    *)
(* tell apart: cookie headers are sequences of pairs, and a body or query  *)
(* is a function from the fields it has to "good" or "bad".                *)
(***************************************************************************)
EXTENDS Integers, Sequences, FiniteSets

CONSTANTS WebUser,        \* the user whose browser makes the requests
          NoUser,
          WebFeatures,    \* the services a gateway may be configured with
          NotAnObject,    \* a body that is not a JSON object
          MaxChanges      \* the bound of changes

ASSUME GatewayBounds == MaxChanges \in Nat /\ WebUser # NoUser

VARIABLES features,       \* the configured services: GatewayState
          changes,        \* how often its surroundings changed under the request
          webSession,       \* the session of the browser's credential is active
          webMode,        \* the device's effective operating mode
          safeMode,       \* recovery_settings::load(..).safe_mode
          request         \* the request that is being served

gatewayVars == <<features, changes, webSession, webMode, safeMode, request>>

surroundings == <<webSession, webMode, safeMode>>

NoRequestYet == [route |-> "none"]

-----------------------------------------------------------------------------
(***************************************************************************)
(* Cookies.                                                                *)
(***************************************************************************)
Pair(name, value) == [name |-> name, value |-> value]

SessionPair == Pair("session", "good")
TicketPair == Pair("stream", "good")
BarePair == Pair("bare", "none")      \* has no "="

Pairs(header) == {header[n] : n \in DOMAIN header}

Named(header, name) == {n \in DOMAIN header : header[n].name = name}

\* one well-formed pair of that name
OnePair(header, name) ==
    /\ Cardinality(Named(header, name)) = 1
    /\ \A n \in Named(header, name) : header[n].value = "good"

CredentialIn(cookies) ==
    /\ Len(cookies) = 1
    /\ BarePair \notin Pairs(cookies[1])
    /\ OnePair(cookies[1], "session")

TicketIn(cookies) ==
    /\ cookies # <<>>
    /\ BarePair \notin Pairs(cookies[1])
    /\ OnePair(cookies[1], "stream")

-----------------------------------------------------------------------------
(***************************************************************************)
(* Bodies and queries: the fields a handler allows, those it requires, and *)
(* those it checks when they are there.                                    *)
(***************************************************************************)
Rule(allowed, required, checked) ==
    [allowed |-> allowed, required |-> required, checked |-> checked]

LaunchFields == Rule({"installationId", "lease"}, {"installationId"}, {"lease"})
UninstallFields == Rule({"installationId"}, {"installationId"}, {})
RuntimeActionFields == Rule({"installationId", "action"}, {"installationId", "action"}, {})
CapabilityFields == Rule({"capability", "resource"}, {"capability"}, {"resource"})
ImportFields == Rule({"importVersion", "files", "device", "installOrigin"},
                     {"importVersion", "device"}, {"installOrigin"})
QuarantineFields == Rule({"appId", "installationId", "disabled"}, {"appId", "disabled"}, {})
RestartFields == Rule({"target", "appId", "installationId"}, {"target"}, {})
DiskTestFields == Rule({"name", "test", "other"}, {"name"}, {})
ReportFields == Rule({"appId", "event", "installationId"}, {"appId", "event"}, {})
ReportActionFields == Rule({"appId", "event", "action", "installationId"}, {"action"}, {})
SettingsFields == Rule({"autoRepair", "safeMode", "disabledApps"}, {},
                       {"autoRepair", "safeMode", "disabledApps"})
HostFields == Rule({"action", "safeMode"}, {"action"}, {"safeMode"})
InstallationQuery == Rule({"installationId"}, {"installationId"}, {})
DataQuery == Rule({"installationId", "device", "path"}, {"installationId", "device"}, {})
AuditQueryFields == Rule({"limit", "offset", "action", "actor", "outcome", "target", "since", "other"},
                         {}, {"action", "actor", "outcome", "target", "since"})
LogQueryFields == Rule({"source", "level", "limit", "offset", "other"}, {}, {"source", "level"})
FileQuery == Rule({"parent", "other"}, {"parent"}, {})
NewFileQuery == Rule({"parent", "name", "directory", "other"}, {"parent", "name", "directory"}, {})
MoveFileQuery == Rule({"id", "parent", "name", "other"}, {"id", "parent", "name"}, {})
FileIdQuery == Rule({"id", "other"}, {"id"}, {})
WorkspaceQuery == Rule({"device"}, {"device"}, {})
WorkspaceFields == Rule({"device", "revision", "scope", "value"},
                        {"device", "revision", "scope"}, {"value"})
PreferenceFields == LET five == {"settingsVersion", "revision", "scope", "key", "value"}
                    IN  Rule(five \cup {"device"}, five \cup {"device"}, {})
OsModeFields == Rule({"device", "settingsVersion", "revision", "scope", "mode"},
                     {"device", "settingsVersion", "revision", "scope", "mode"}, {})
RaisingFields == Rule(OsModeFields.allowed \cup {"password"}, OsModeFields.required \cup {"password"}, {})
AreaQuery == Rule({"area", "device", "path"}, {"area", "device"}, {})

FieldsFit(rule, fields) ==
    /\ fields # NotAnObject
    /\ DOMAIN fields \subseteq rule.allowed
    /\ rule.required \subseteq DOMAIN fields
    /\ \A f \in (rule.required \cup rule.checked) \cap DOMAIN fields : fields[f] = "good"

\* Every host action has its own keys, and no others.
HostKeys ==
    {{"action"}, {"action", "safeMode"}, {"action", "backupId"},
     {"action", "enabled", "intervalHours", "keep"}}

HostFieldsFit(fields) ==
    /\ fields # NotAnObject
    /\ DOMAIN fields \in HostKeys
    /\ \A f \in DOMAIN fields : fields[f] = "good"

GoodField(r, field) == field \in DOMAIN r.fields /\ r.fields[field] = "good"

\* What is tried: the fields a rule requires, all it allows, one it does not
\* know, one too few, one that is bad, and no object at all.
Good(names) == [f \in names |-> "good"]

FieldInputs(rule) ==
    {Good(rule.required), Good(rule.allowed), Good(rule.required \cup {"unknown"}), NotAnObject}
    \cup {Good(rule.required \ {f}) : f \in rule.required}
    \cup {[f \in rule.required \cup {bad} |-> IF f = bad THEN "bad" ELSE "good"] :
              bad \in rule.allowed}

-----------------------------------------------------------------------------
(***************************************************************************)
(* The handlers.  "session" is credential and authenticate together with   *)
(* the wait between them.                                                  *)
(***************************************************************************)
SignedIn == <<"credential", "session">>

PostedJson == <<"origin", "size", "json">> \o SignedIn \o <<"fields">>

AppCatalog == SignedIn \o <<"apps", "catalog">>
AppLaunch == <<"limit">> \o PostedJson \o <<"launchSafeMode", "apps", "launch">>
AppSettings == SignedIn \o <<"fields", "apps", "settings">>
AppDataRoute == SignedIn \o <<"fields", "modes", "browseMode", "apps", "data">>


AppUninstall == <<"limit", "origin", "json">> \o SignedIn \o <<"fields", "apps", "uninstall">>

AppRuntimeStatus == SignedIn \o <<"fields", "apps", "runtimeStatus">>
AppRuntimeStart == PostedJson \o <<"startSafeMode", "apps", "start">>
AppRuntimeStop == PostedJson \o <<"apps", "stop">>
CapabilitiesInvoke == <<"limit">> \o PostedJson \o <<"apps", "invoke">>
AppImport == <<"limit", "origin", "json">> \o SignedIn
             \o <<"fields", "modes", "installMode", "files", "apps", "import">>
ShellPage == <<"target", "credentialOrLogin", "sessionOrLogin", "snapshot", "render">>
ShellFallback == <<"method", "target", "credentialOrLogin", "sessionOrLogin", "snapshot", "render">>
SnapshotRoute == SignedIn \o <<"snapshot", "page">>
WidgetFrame == SignedIn \o <<"snapshot", "widget", "frame">>
StreamList == SignedIn \o <<"listStreams">>
StreamGrant == <<"origin">> \o SignedIn \o <<"streams", "issue">>
AuthorizedStream == SignedIn \o <<"ticket", "streams", "authorize">>
StreamAsset == AuthorizedStream \o <<"streamPath", "upstream">>
StreamSocket == <<"origin">> \o AuthorizedStream \o <<"connect", "relay">>
EventSocket == <<"origin">> \o SignedIn \o <<"subscribe">>

RecoveryStatus == SignedIn \o <<"status">>
RecoveryAudit == SignedIn \o <<"fields", "audit", "queryAudit">>
RecoveryComponents == SignedIn \o <<"components">>
RecoverySensors == SignedIn \o <<"readSensors">>
RecoveryStorage == SignedIn \o <<"readStorage">>
RecoveryDiagnostics == SignedIn \o <<"diagnose">>
RecoveryNetwork == SignedIn \o <<"readNetwork">>
RecoveryNetworkTest == <<"origin">> \o SignedIn \o <<"networkTest">>
RecoveryLogs == SignedIn \o <<"fields", "readLogs">>
RecoveryCrashes == SignedIn \o <<"readCrashes">>
RecoveryBoot == SignedIn \o <<"readBoot">>
RecoverySystem == SignedIn \o <<"readSystem">>
RecoveryQuarantine == PostedJson \o <<"quarantine">>
RecoveryDisks == SignedIn \o <<"readDisks">>
RecoveryDiskTest == PostedJson \o <<"diskTest">>
RecoverySettingsGet == SignedIn \o <<"readSettings">>
RecoverySettingsPut == PostedJson \o <<"saveSettings">>
RecoveryHostStatus == SignedIn \o <<"hostStatus">>
RecoveryHostAction == <<"origin">> \o SignedIn \o <<"size", "json", "hostFields", "hostAction">>
RecoveryRestartShell == PostedJson \o <<"restartShell">>
RecoveryRestartApp == PostedJson \o <<"startSafeMode", "restartFields", "apps", "restartApp">>
RecoverySelfHeal == <<"origin">> \o SignedIn \o <<"apps", "selfHeal">>
ShellReport == <<"limit", "origin", "json">> \o SignedIn \o <<"fields", "report", "repair">>
ShellReportAction == <<"limit", "origin", "json">> \o SignedIn \o <<"fields", "reportAction">>
RecoveryPage == <<"page">>

FilesList == SignedIn \o <<"fields", "repository", "listFiles">>
FilesCreate == <<"limit", "origin">> \o SignedIn \o <<"fields", "octets", "repository", "createFile">>
FilesRelocate == <<"limit", "origin">> \o SignedIn \o <<"fields", "emptyBody", "repository", "moveFile">>
FilesRemove == <<"origin">> \o SignedIn \o <<"fields", "repository", "deleteFile">>
FilesDownload == SignedIn \o <<"fields", "repository", "readFile">>
WorkspaceLoad == SignedIn \o <<"fields", "repository", "loadWorkspace">>
WorkspaceSave == <<"limit", "origin">> \o SignedIn
                 \o <<"device", "json", "fields", "repository", "saveWorkspace">>
PreferencesLoad == SignedIn \o <<"fields", "repository", "loadPreferences">>
PreferencesSave == <<"limit", "origin">> \o SignedIn
                   \o <<"device", "json", "fields", "repository", "savePreferences">>
OsModeLoad == SignedIn \o <<"fields", "repository", "loadMode">>
OsModeLower == <<"limit", "origin">> \o SignedIn
               \o <<"device", "json", "fields", "repository", "saveMode">>
OsModeRaise == <<"limit", "origin">> \o SignedIn
               \o <<"device", "json", "fields", "sessions", "reauthenticate", "repository", "saveMode">>
HostContext == SignedIn \o <<"fields", "modes", "browseMode", "repository">>
HostList == HostContext \o <<"listHost">>
HostDownload == HostContext \o <<"readHost">>

\* A route: its handler, whether its method changes state, and its fields.
Route(steps, mutating, rule) == [steps |-> steps, mutating |-> mutating, rule |-> rule]

NoFields == Rule({"other"}, {}, {})

Router ==
    [app_catalog |-> Route(AppCatalog, FALSE, NoFields),
     app_launch |-> Route(AppLaunch, TRUE, LaunchFields),
     app_settings |-> Route(AppSettings, FALSE, InstallationQuery),
     app_data |-> Route(AppDataRoute, FALSE, DataQuery),
     app_uninstall |-> Route(AppUninstall, TRUE, UninstallFields),
     app_runtime_status |-> Route(AppRuntimeStatus, FALSE, InstallationQuery),
     app_runtime_start |-> Route(AppRuntimeStart, TRUE, RuntimeActionFields),
     app_runtime_stop |-> Route(AppRuntimeStop, TRUE, RuntimeActionFields),
     capabilities_invoke |-> Route(CapabilitiesInvoke, TRUE, CapabilityFields),
     app_import |-> Route(AppImport, TRUE, ImportFields),
     shell |-> Route(ShellPage, FALSE, NoFields),
     shell_fallback |-> Route(ShellFallback, FALSE, NoFields),
     snapshot |-> Route(SnapshotRoute, FALSE, NoFields),
     widget_frame |-> Route(WidgetFrame, FALSE, NoFields),
     stream_list |-> Route(StreamList, FALSE, NoFields),
     stream_grant |-> Route(StreamGrant, TRUE, NoFields),
     stream_asset |-> Route(StreamAsset, FALSE, NoFields),
     stream_socket |-> Route(StreamSocket, FALSE, NoFields),
     events |-> Route(EventSocket, FALSE, NoFields),
     recovery_status |-> Route(RecoveryStatus, FALSE, NoFields),
     recovery_audit |-> Route(RecoveryAudit, FALSE, AuditQueryFields),
     recovery_components |-> Route(RecoveryComponents, FALSE, NoFields),
     recovery_sensors |-> Route(RecoverySensors, FALSE, NoFields),
     recovery_storage |-> Route(RecoveryStorage, FALSE, NoFields),
     recovery_diagnostics |-> Route(RecoveryDiagnostics, FALSE, NoFields),
     recovery_network |-> Route(RecoveryNetwork, FALSE, NoFields),
     recovery_network_test |-> Route(RecoveryNetworkTest, TRUE, NoFields),
     recovery_logs |-> Route(RecoveryLogs, FALSE, LogQueryFields),
     recovery_crashes |-> Route(RecoveryCrashes, FALSE, NoFields),
     recovery_boot |-> Route(RecoveryBoot, FALSE, NoFields),
     recovery_system |-> Route(RecoverySystem, FALSE, NoFields),
     recovery_quarantine |-> Route(RecoveryQuarantine, TRUE, QuarantineFields),
     recovery_disks |-> Route(RecoveryDisks, FALSE, NoFields),
     recovery_disk_test |-> Route(RecoveryDiskTest, TRUE, DiskTestFields),
     recovery_settings_get |-> Route(RecoverySettingsGet, FALSE, NoFields),
     recovery_settings_put |-> Route(RecoverySettingsPut, TRUE, SettingsFields),
     recovery_host_status |-> Route(RecoveryHostStatus, FALSE, NoFields),
     recovery_host_action |-> Route(RecoveryHostAction, TRUE, HostFields),
     recovery_restart_shell |-> Route(RecoveryRestartShell, TRUE, RestartFields),
     recovery_restart_app |-> Route(RecoveryRestartApp, TRUE, RestartFields),
     recovery_self_heal |-> Route(RecoverySelfHeal, TRUE, NoFields),
     shell_report |-> Route(ShellReport, TRUE, ReportFields),
     shell_report_action |-> Route(ShellReportAction, TRUE, ReportActionFields),
     recovery |-> Route(RecoveryPage, FALSE, NoFields),
     files_list |-> Route(FilesList, FALSE, FileQuery),
     files_create |-> Route(FilesCreate, TRUE, NewFileQuery),
     files_relocate |-> Route(FilesRelocate, TRUE, MoveFileQuery),
     files_remove |-> Route(FilesRemove, TRUE, FileIdQuery),
     files_download |-> Route(FilesDownload, FALSE, FileIdQuery),
     workspace_load |-> Route(WorkspaceLoad, FALSE, WorkspaceQuery),
     workspace_save |-> Route(WorkspaceSave, TRUE, WorkspaceFields),
     preferences_load |-> Route(PreferencesLoad, FALSE, WorkspaceQuery),
     preferences_save |-> Route(PreferencesSave, TRUE, PreferenceFields),
     os_mode_load |-> Route(OsModeLoad, FALSE, WorkspaceQuery),
     os_mode_lower |-> Route(OsModeLower, TRUE, OsModeFields),
     os_mode_raise |-> Route(OsModeRaise, TRUE, RaisingFields),
     host_list |-> Route(HostList, FALSE, AreaQuery),
     host_download |-> Route(HostDownload, FALSE, AreaQuery)]

-----------------------------------------------------------------------------
(***************************************************************************)
(* Requests: a good one for every route, and each with one thing wrong     *)
(* that its handler looks at.                                              *)
(***************************************************************************)
Steps(route) == Router[route].steps

Looks(route, steps) == \E n \in DOMAIN Steps(route) : Steps(route)[n] \in steps

GoodRequest(route) ==
    [route |-> route, origin |-> TRUE, size |-> TRUE, type |-> TRUE, path |-> TRUE,
     cookies |-> <<<<SessionPair, TicketPair>>>>, fields |-> Good(Router[route].rule.required),
     at |-> 1, user |-> NoUser, mode |-> "none",
     calls |-> {}, log |-> {}, status |-> "none", activity |-> "none"]

CookieInputs ==
    {<<>>, <<<<SessionPair>>, <<SessionPair>>>>, <<<<TicketPair>>>>,
     <<<<SessionPair, SessionPair>>>>, <<<<SessionPair, BarePair>>>>,
     <<<<Pair("session", "bad")>>>>}

TicketInputs == {<<<<SessionPair>>>>, <<<<SessionPair, TicketPair, TicketPair>>>>}

Requested(route) ==
    LET good == GoodRequest(route)
    IN  {good}
        \cup (IF Router[route].mutating \/ Looks(route, {"origin"})
               THEN {[good EXCEPT !.origin = FALSE]} ELSE {})
        \cup (IF Looks(route, {"size", "limit"}) THEN {[good EXCEPT !.size = FALSE]} ELSE {})
        \cup (IF Looks(route, {"json", "octets"}) THEN {[good EXCEPT !.type = FALSE]} ELSE {})
        \cup (IF Looks(route, {"target", "method", "streamPath", "emptyBody"})
               THEN {[good EXCEPT !.path = FALSE]} ELSE {})
        \cup {[good EXCEPT !.cookies = c] : c \in
                 (IF Looks(route, {"ticket"}) THEN TicketInputs ELSE {}) \cup CookieInputs}
        \cup {[good EXCEPT !.fields = f] : f \in
                 IF Looks(route, {"fields", "hostFields"}) THEN FieldInputs(Router[route].rule) ELSE {}}

-----------------------------------------------------------------------------
(***************************************************************************)
(* Calls and the audit log.  The last step of a handler is its call.       *)
(***************************************************************************)
\* Made by spawn_blocking: made even if the browser has gone away by then.
Spawned ==
    {"catalog", "launch", "settings", "data", "uninstall", "runtimeStatus", "start", "stop",
     "invoke", "import", "networkTest", "readLogs", "readBoot", "readSystem", "readNetwork",
     "quarantine", "restartApp", "selfHeal", "repair", "listFiles", "createFile", "moveFile",
     "deleteFile", "readFile", "loadWorkspace", "saveWorkspace", "loadPreferences",
     "savePreferences", "loadMode", "saveMode", "listHost", "readHost"}

\* The handler waits for these too, and takes them along when it is dropped.
Awaited == {"hostStatus", "hostAction", "upstream", "render"}

\* "lost" is a task that panicked, and a host that did not answer in time.
CallResults(r, step) ==
    CASE step = "invoke" -> {"done", "denied", "failed", "lost"}
      [] step = "selfHeal" -> {"done", "partly", "failed", "lost"}
      [] step = "repair" ->
             {"skipped"} \cup (IF GoodField(r, "installationId") /\ "apps" \in features /\ ~safeMode
                              THEN {"done", "failed", "lost"} ELSE {})
      [] step \in {"readLogs", "readBoot", "readSystem", "readNetwork", "networkTest"} ->
             {"done", "lost"}
      [] step \in Spawned \cup {"hostAction", "hostStatus"} -> {"done", "failed", "lost"}
      [] step \in {"saveSettings", "diskTest", "upstream", "render", "listStreams", "issue", "frame",
                   "queryAudit"} -> {"done", "failed"}
      [] OTHER -> {"done"}

CallStatus(step, result) ==
    CASE result \in {"done", "denied", "partly", "skipped"} -> {"200"}
      [] step \in {"readLogs", "readBoot", "readSystem", "readNetwork", "networkTest", "repair"} -> {"200"}
      [] result = "lost" -> {"503"}
      [] step \in {"hostAction", "hostStatus"} -> {"400", "403", "409"}
      [] step \in {"moveFile", "createFile", "deleteFile", "readFile", "listFiles"} ->
             {"400", "404", "409", "413", "503"}
      [] step \in {"listHost", "readHost"} -> {"400", "403", "404", "413", "503"}
      [] step \in {"loadWorkspace", "saveWorkspace", "loadPreferences", "savePreferences",
                   "loadMode", "saveMode"} -> {"409", "429", "503"}
      [] step \in {"saveSettings", "quarantine", "diskTest", "render"} -> {"503"}
      [] OTHER -> {"404", "503"}

\* record_audit: nothing without an audit log.  The outcomes Success, Failure
\* and Denied are "done", "failed" and "denied".
LogEntry(actor, action, outcome) ==
    IF "audit" \in features
    THEN {[actor |-> actor, action |-> action, outcome |-> outcome]}
    ELSE {}

AppActions ==
    [uninstall |-> "AppUninstalled", start |-> "AppRuntimeStarted", stop |-> "AppRuntimeStopped",
     invoke |-> "CapabilityInvoked", restartApp |-> "AppRuntimeStarted"]

Records(r, step, result) ==
    CASE step \in DOMAIN AppActions /\ result # "lost" -> LogEntry(r.user, AppActions[step], result)
      [] step = "networkTest" -> LogEntry(r.user, "Maintenance", "done")
      [] step = "diskTest" -> LogEntry(r.user, "Maintenance", result)
      [] step = "hostAction" ->
             LogEntry(r.user, "Maintenance", IF result = "done" THEN "done" ELSE "denied")
      [] step \in {"saveSettings", "restartShell"} /\ result = "done" ->
             LogEntry(r.user, "Maintenance", result)
      [] step = "quarantine" /\ result # "failed" ->
             LogEntry(r.user, "Maintenance", "done")
                 \cup (IF GoodField(r, "installationId") /\ "apps" \in features
                       THEN LogEntry("Os", "AppRuntimeStopped", "done") ELSE {})
      [] step = "selfHeal" /\ result \in {"done", "partly"} ->
             LogEntry(r.user, "SelfHeal", IF result = "done" THEN "done" ELSE "failed")
      [] step = "repair" /\ result # "skipped" ->
             LogEntry("Os", "SelfHeal", IF result = "done" THEN "done" ELSE "failed")
      [] step = "reportAction" -> LogEntry(r.user, "Activity", "done")
      [] OTHER -> {}

-----------------------------------------------------------------------------
(***************************************************************************)
(* Checks: how a step may go for the request r.  "go" goes on; anything    *)
(* else is the status of the answer.                                       *)
(***************************************************************************)
Unless(fits, status) == IF fits THEN {"go"} ELSE {status}

\* authenticate and backend_error; the session store may be unavailable
Authenticated(status) == IF webSession THEN {"go", "503"} ELSE {status, "503"}

Configured(service, status) == Unless(service \in features, status)

BrowseAllowed(r) == r.mode # "guided"

InstallAllowed(r) == r.mode # "guided" \/ "installOrigin" \in DOMAIN r.fields

Checked(r, step) ==
    CASE step = "origin" -> Unless(r.origin, "403")
      [] step \in {"size", "limit"} -> Unless(r.size, "413")
      [] step \in {"json", "octets"} -> Unless(r.type, "415")
      [] step = "credential" -> Unless(CredentialIn(r.cookies), "401")
      [] step = "credentialOrLogin" -> Unless(CredentialIn(r.cookies), "303")
      [] step \in {"session", "snapshot"} -> Authenticated("401")
      [] step = "sessionOrLogin" -> Authenticated("303")
      [] step = "fields" -> Unless(FieldsFit(Router[r.route].rule, r.fields), "400")
      [] step = "hostFields" -> Unless(HostFieldsFit(r.fields), "400")
      [] step = "restartFields" ->
             Unless(GoodField(r, "appId") /\ GoodField(r, "installationId"), "400")
      [] step = "files" -> Unless(GoodField(r, "files"), "400")
      [] step = "device" -> Unless(r.fields # NotAnObject /\ GoodField(r, "device"), "400")
      [] step = "method" -> Unless(r.path, "405")
      [] step = "target" -> Unless(r.path, "400")
      [] step = "streamPath" -> Unless(r.path, "404")
      [] step = "emptyBody" -> Unless(r.path, "400")
      [] step = "ticket" -> Unless(TicketIn(r.cookies), "403")
      [] step \in {"apps", "audit", "repository", "sessions"} -> Configured(step, "503")
      [] step = "reauthenticate" -> {"go", "403", "503"}
      [] step = "streams" -> Configured(step, "404")
      [] step = "modes" -> IF step \in features THEN {"go", "503"} ELSE {"503"}
      [] step = "browseMode" -> Unless(BrowseAllowed(r), "403")
      [] step = "installMode" -> Unless(InstallAllowed(r), "403")
      [] step = "launchSafeMode" -> Unless(~safeMode, "200")
      [] step = "startSafeMode" -> Unless(~safeMode, "403")
      [] step = "authorize" -> {"go", "403", "503"}
      [] step = "widget" -> {"go", "404", "503"}
      [] step = "connect" -> {"go", "503"}
      [] OTHER -> {"go"}

\* What a check that goes on keeps for later.
Kept(r, step) ==
    CASE step \in {"session", "sessionOrLogin"} -> [r EXCEPT !.user = WebUser]
      [] step = "modes" -> [r EXCEPT !.mode = webMode]
      [] step = "report" -> [r EXCEPT !.log = @ \cup LogEntry("App", "AppEvent", "done")]
      [] OTHER -> r

-----------------------------------------------------------------------------
(***************************************************************************)
(* Serving a request.                                                      *)
(***************************************************************************)
GatewayInit ==
    /\ features \in {WebFeatures, {}}
    /\ changes = 0
    /\ webSession = TRUE
    /\ webMode = "advanced"
    /\ safeMode = FALSE
    /\ request = NoRequestYet

Serving == request # NoRequestYet /\ request.status = "none"

StepNow(r) == Steps(r.route)[r.at]

AtCall(r) == r.at = Len(Steps(r.route))

ReceiveRequest ==
    /\ request = NoRequestYet
    /\ \E route \in DOMAIN Router : request' \in Requested(route)
    /\ UNCHANGED <<features, changes, surroundings>>

CheckRequest ==
    /\ Serving
    /\ ~AtCall(request)
    /\ \E outcome \in Checked(request, StepNow(request)) :
          request' = IF outcome = "go"
                     THEN [Kept(request, StepNow(request)) EXCEPT !.at = @ + 1]
                     ELSE [request EXCEPT !.status = outcome]
    /\ UNCHANGED <<features, changes, surroundings>>

\* The call itself.  A handler that waits for it is answered later.
PerformCall ==
    /\ request # NoRequestYet
    /\ AtCall(request)
    /\ request.calls = {}
    /\ request.status \in IF StepNow(request) \in Spawned THEN {"none", "gone"} ELSE {"none"}
    /\ \E result \in CallResults(request, StepNow(request)) :
          request' = [request EXCEPT !.calls = {[call |-> StepNow(request), result |-> result]}]
    /\ UNCHANGED <<features, changes, surroundings>>

\* The rest of the handler: its records and its answer.
AnswerCall ==
    /\ Serving
    /\ \E c \in request.calls, status \in {"200", "400", "403", "404", "409", "413", "429", "503"} :
          /\ status \in CallStatus(c.call, c.result)
          /\ request' = [request EXCEPT !.log = @ \cup Records(request, c.call, c.result),
                                       !.status = status]
    /\ UNCHANGED <<features, changes, surroundings>>

\* The browser goes away: the handler and its middleware are dropped where
\* they wait.  A handler that waits for nothing is not.
Abandon ==
    /\ Serving
    /\ StepNow(request) \in Spawned \cup Awaited \cup {"session", "sessionOrLogin", "modes", "snapshot", "reauthenticate"}
    /\ request' = [request EXCEPT !.status = "gone"]
    /\ UNCHANGED <<features, changes, surroundings>>

OutcomeOfStatus(status) ==
    CASE status = "200" -> "done"
      [] status \in {"401", "403"} -> "denied"
      [] OTHER -> "failed"

\* audit_activity, after the handler: the credential is authenticated again.
ActivityActors(r) ==
    IF CredentialIn(r.cookies) /\ webSession THEN {WebUser, "System"} ELSE {"System"}

RecordActivity ==
    /\ request # NoRequestYet
    /\ request.status \notin {"none", "gone"}
    /\ request.activity = "none"
    /\ \E actor \in ActivityActors(request) :
          request' = [request EXCEPT
                        !.activity = actor,
                        !.log = @ \cup (IF Router[request.route].mutating
                                        THEN LogEntry(actor, "Activity", OutcomeOfStatus(request.status))
                                        ELSE {})]
    /\ UNCHANGED <<features, changes, surroundings>>

-----------------------------------------------------------------------------
(***************************************************************************)
(* What happens meanwhile: the user signs out or their password changes,   *)
(* the device's mode or recovery settings are saved by another request.    *)
(***************************************************************************)
Meanwhile ==
    /\ Serving \/ request = NoRequestYet
    /\ changes < MaxChanges
    /\ changes' = changes + 1
    /\ UNCHANGED <<features, request>>

EndSession ==
    /\ Meanwhile
    /\ webSession
    /\ webSession' = FALSE
    /\ UNCHANGED <<webMode, safeMode>>

ChangeMode ==
    /\ Meanwhile
    /\ webMode' \in {"guided", "advanced"} \ {webMode}
    /\ UNCHANGED <<webSession, safeMode>>

ChangeSafeMode ==
    /\ Meanwhile
    /\ safeMode' = ~safeMode
    /\ UNCHANGED <<webSession, webMode>>

GatewayNext ==
    \/ ReceiveRequest \/ CheckRequest \/ PerformCall \/ AnswerCall \/ Abandon \/ RecordActivity
    \/ EndSession \/ ChangeMode \/ ChangeSafeMode

GatewaySpec == GatewayInit /\ [][GatewayNext]_gatewayVars

-----------------------------------------------------------------------------
(***************************************************************************)
(* Properties.                                                             *)
(***************************************************************************)
\* Whatever the handlers' different orders of checks, every call of a route
\* that changes something was asked for from the shell's own origin, with one
\* credential whose session was active when the handler looked, and with
\* fields the handler knows; and an app is only imported, or the files of
\* apps and of the host only read, in an operating mode that allows it.
OnlyAdmittedCalls ==
    request # NoRequestYet =>
        \A c \in request.calls :
            /\ Router[request.route].mutating =>
                   /\ request.origin
                   /\ request.user = WebUser
                   /\ CredentialIn(request.cookies)
                   /\ Looks(request.route, {"fields"}) =>
                         FieldsFit(Router[request.route].rule, request.fields)
            /\ c.call \in {"data", "listHost", "readHost"} => request.mode = "advanced"
            /\ c.call = "import" =>
                   request.mode = "advanced" \/ GoodField(request, "installOrigin")

\* A request that has been answered left its records: the call it made on an
\* app is in the audit log under the user who asked, with the outcome of the
\* call, whether it succeeded, failed or was denied; and a request that
\* changes something is in it with the outcome of its answer.  Nothing is
\* recorded under a user by a request that was never authenticated, except
\* by the middleware, which looks again.
CallsAreOnRecord ==
    request # NoRequestYet /\ request.activity # "none" /\ "audit" \in features =>
        /\ \A c \in request.calls :
              c.call \in DOMAIN AppActions /\ c.result # "lost" =>
                  [actor |-> WebUser, action |-> AppActions[c.call], outcome |-> c.result]
                      \in request.log
        /\ Router[request.route].mutating =>
              [actor |-> request.activity, action |-> "Activity",
               outcome |-> OutcomeOfStatus(request.status)] \in request.log
        /\ request.user = NoUser =>
              \A e \in request.log : e.action = "Activity"

=============================================================================
