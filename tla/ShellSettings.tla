---------------------------- MODULE ShellSettings ----------------------------
(***************************************************************************)
(* The settings of a user, from both ends: the server that keeps them, and *)
(* the open pages that poll and save them.                                 *)
(***************************************************************************)
EXTENDS Integers, FiniteSets

(***************************************************************************)
(* The settings a signed-in user keeps on the system: the shell            *)
(* preferences (mode and theme), the operating mode and the workspace.     *)
(* Each is kept for the user and may be overridden per device (a browser   *)
(* profile), each has one revision per user, and each is saved by a        *)
(* compare-and-set on that revision in one immediate SQLite transaction    *)
(* (persistence-sqlite/src/shell_preferences.rs and os_mode.rs).  The      *)
(* browser tabs of the user load a setting, keep what they were answered   *)
(* and send its revision back with every change.                           *)
(*                                                                         *)
(* The three settings share no row and no revision, so a behaviour follows *)
(* one of them, chosen at the start.                                       *)
(***************************************************************************)
CONSTANTS Devices,          \* the browser profiles
          Tabs,             \* the browser tabs
          TabDevice,        \* the profile each tab runs in
          Themes,           \* the theme identifiers other than the default
          Layouts,          \* the workspace values that pass valid()
          DeviceLimit,      \* DEVICE_LIMIT, 128 in the code
          WorkspaceLimit,   \* 129 in the code
          MaxRevision,      \* 2^53 - 1 in the code
          Deeds,            \* the requests the operating mode guards
          Unset             \* None: no value for the user, no override

ASSUME SettingsBounds == /\ DeviceLimit \in Nat /\ WorkspaceLimit \in Nat
                         /\ MaxRevision \in Nat
                         /\ TabDevice \in [Tabs -> Devices]

VARIABLES setting,          \* which of the three the behaviour follows
          kept,             \* its rows: revision, user value, overrides
          tab,              \* what each tab was last answered
          raising,          \* the change of operating mode each tab has under way
          deed,             \* the guarded request each tab has under way
          proven            \* history: the password was verified for a higher mode

deedVars == <<deed, proven>>
settingVars == <<setting, kept, tab, raising, deedVars>>

DefaultTheme == "default"
OsModes == {"guided", "advanced", "developer"}
NotRaising == [scope |-> Unset]

\* The modes a request may only ask for with the password beside them.
RaisingModes == {"advanced", "developer"}

\* The three modes ShellMode::parse knows, and the two the CHECK of both tables
\* admits: a save of "mobile" is turned down by SQLite (Unavailable).
ShellModes == {"desktop", "launcher", "mobile"}
StorableModes == {"desktop", "launcher"}

------------------------------------------------------------------------------
(* What the tables hold and what a read answers. *)

NoOverride ==
    IF setting = "preferences" THEN [mode |-> Unset, theme |-> Unset] ELSE Unset

\* The answer for a user without a row.
DefaultValue(which) ==
    CASE which = "preferences" -> [mode |-> "desktop", theme |-> DefaultTheme]
      [] which = "osMode" -> "guided"
      [] which = "workspace" -> Unset

NoRows(which) ==
    [revision |-> 0, user |-> DefaultValue(which),
     device |-> [d \in Devices |->
                   IF which = "preferences" THEN [mode |-> Unset, theme |-> Unset]
                                            ELSE Unset]]

\* One SELECT: revision, user value and this device's override together.
ReadSettings(rows, d) ==
    [revision |-> rows.revision, user |-> rows.user, device |-> rows.device[d]]

\* The revision the tab sent is the stored one, and the next one is still a number
\* a browser can hold.
RevisionMatches(rows, revision) ==
    revision = rows.revision /\ revision + 1 <= MaxRevision

------------------------------------------------------------------------------
(* save: the rows a change leaves behind, and when it is turned down. *)

\* The rows of both override tables, so a device with two overrides counts twice.
CountOverrides(rows) ==
    Cardinality({d \in Devices : rows.device[d].mode # Unset})
      + Cardinality({d \in Devices : rows.device[d].theme # Unset})

PreferenceUpdates ==
    [key : {"mode"}, value : ShellModes \union {Unset}]
      \union [key : {"theme"}, value : Themes \union {DefaultTheme, Unset}]

WithKey(value, up) ==
    IF up.key = "mode" THEN [value EXCEPT !.mode = up.value]
                       ELSE [value EXCEPT !.theme = up.value]

\* Clearing the user's own value puts the default back.
OrDefault(up) ==
    IF up.value # Unset THEN up
    ELSE [up EXCEPT !.value = IF up.key = "mode" THEN "desktop" ELSE DefaultTheme]

PreferencesAdmit(rows, d, scope, up) ==
    /\ up.key = "mode" => up.value \in StorableModes \union {Unset}
    /\ (scope = "device" /\ up.value # Unset /\ rows.device[d] = NoOverride)
         => CountOverrides(rows) < DeviceLimit

(* Mutant: the choice of the user keeps the revision. *)
SavedPreferencesUnbumped(rows, d, scope, up) ==
    IF scope = "user"
    THEN [rows EXCEPT !.user = WithKey(@, OrDefault(up))]
    ELSE [rows EXCEPT !.revision = @ + 1, !.device[d] = WithKey(@, up)]

SavedPreferences(rows, d, scope, up) ==
    IF scope = "user"
    THEN [rows EXCEPT !.revision = @ + 1, !.user = WithKey(@, OrDefault(up))]
    ELSE [rows EXCEPT !.revision = @ + 1, !.device[d] = WithKey(@, up)]

OsModeAdmits(rows, d, scope, mode) ==
    (scope = "device" /\ mode # Unset /\ rows.device[d] = Unset)
      => Cardinality({o \in Devices : rows.device[o] # Unset}) < DeviceLimit

SavedOsMode(rows, d, scope, mode) ==
    IF scope = "user"
    THEN [rows EXCEPT !.revision = @ + 1,
                      !.user = IF mode = Unset THEN "guided" ELSE mode]
    ELSE [rows EXCEPT !.revision = @ + 1, !.device[d] = mode]

\* Every workspace but the one being written counts, the user's own included.
WorkspaceAdmits(rows, d, scope, value) ==
    LET others == {o \in Devices : rows.device[o] # Unset
                                     /\ ~(scope = "device" /\ o = d)}
        own == IF scope = "device" /\ rows.user # Unset THEN 1 ELSE 0
    IN value # Unset => Cardinality(others) + own < WorkspaceLimit

SavedWorkspace(rows, d, scope, value) ==
    IF scope = "user"
    THEN [rows EXCEPT !.revision = @ + 1, !.user = value]
    ELSE [rows EXCEPT !.revision = @ + 1, !.device[d] = value]

------------------------------------------------------------------------------
(* The gateway's handlers. *)

SettingsInit ==
    /\ setting \in {"preferences", "osMode", "workspace"}
    /\ kept = NoRows(setting)
    /\ tab = [t \in Tabs |-> ReadSettings(kept, TabDevice[t])]
    /\ raising = [t \in Tabs |-> NotRaising]
    /\ deed = [t \in Tabs |-> "none"]
    /\ proven = FALSE

\* GET: the tab is answered with what the database holds for its device.
LoadSettings(t) ==
    /\ tab' = [tab EXCEPT ![t] = ReadSettings(kept, TabDevice[t])]
    /\ UNCHANGED <<setting, kept, raising, deedVars>>

\* A save commits and answers with what it reads back in the same transaction.
Commit(t, rows) ==
    /\ kept' = rows
    /\ tab' = [tab EXCEPT ![t] = ReadSettings(rows, TabDevice[t])]
    /\ UNCHANGED <<setting, deed>>

SavePreferences(t, scope, up) ==
    /\ setting = "preferences"
    /\ RevisionMatches(kept, tab[t].revision)
    /\ PreferencesAdmit(kept, TabDevice[t], scope, up)
    /\ Commit(t, SavedPreferences(kept, TabDevice[t], scope, up))
    /\ UNCHANGED <<raising, proven>>

SaveWorkspace(t, scope, value) ==
    /\ setting = "workspace"
    /\ RevisionMatches(kept, tab[t].revision)
    /\ WorkspaceAdmits(kept, TabDevice[t], scope, value)
    /\ Commit(t, SavedWorkspace(kept, TabDevice[t], scope, value))
    /\ UNCHANGED <<raising, proven>>

\* Bound: a tab has one request for or about the operating mode under way at a time.
Waiting(t) == raising[t] = NotRaising /\ deed[t] = "none"

\* Guided mode, or removing an override, needs no password and is stored at once.
LowerOsMode(t, scope, mode) ==
    /\ setting = "osMode" /\ Waiting(t)
    /\ mode \notin RaisingModes
    /\ RevisionMatches(kept, tab[t].revision)
    /\ OsModeAdmits(kept, TabDevice[t], scope, mode)
    /\ Commit(t, SavedOsMode(kept, TabDevice[t], scope, mode))
    /\ UNCHANGED <<raising, proven>>

\* The two higher modes first wait for the password to be verified; the request
\* keeps the revision it came with.
BeginRaise(t, scope, mode) ==
    /\ setting = "osMode" /\ Waiting(t)
    /\ mode \in RaisingModes
    /\ raising' = [raising EXCEPT ![t] = [scope |-> scope, mode |-> mode,
                                          revision |-> tab[t].revision]]
    /\ UNCHANGED <<setting, kept, tab, deedVars>>

\* reauthenticate succeeded and the save goes through.
FinishRaise(t) ==
    LET r == raising[t] IN
    /\ r # NotRaising
    /\ RevisionMatches(kept, r.revision)
    /\ OsModeAdmits(kept, TabDevice[t], r.scope, r.mode)
    /\ Commit(t, SavedOsMode(kept, TabDevice[t], r.scope, r.mode))
    /\ raising' = [raising EXCEPT ![t] = NotRaising]
    /\ proven' = TRUE

\* The password is wrong, or the save is turned down.
RefuseRaise(t) ==
    /\ raising[t] # NotRaising
    /\ raising' = [raising EXCEPT ![t] = NotRaising]
    /\ UNCHANGED <<setting, kept, tab, deedVars>>

\* device_mode.unwrap_or(user_mode), and what OsModePolicy lets a mode do: from
\* advanced upwards the file explorer sees the system areas and the apps' data, and
\* packages are imported; a package of the store is also imported in guided mode.
EffectiveMode(d) == IF kept.device[d] # Unset THEN kept.device[d] ELSE kept.user

MayDo(mode, what) ==
    \/ mode \in {"advanced", "developer"}
    \/ what = "storeImport" /\ mode = "guided"

\* The handler reads the mode first and does its work later, when the mode may have
\* been lowered again.
BeginDeed(t, what) ==
    /\ setting = "osMode" /\ Waiting(t)
    /\ MayDo(EffectiveMode(TabDevice[t]), what)
    /\ deed' = [deed EXCEPT ![t] = what]
    /\ UNCHANGED <<setting, kept, tab, raising, proven>>

FinishDeed(t) ==
    /\ deed[t] # "none"
    /\ deed' = [deed EXCEPT ![t] = "none"]
    /\ UNCHANGED <<setting, kept, tab, raising, proven>>

TabStep(t) ==
    \/ LoadSettings(t)
    \/ \E scope \in {"user", "device"} :
          \/ \E up \in PreferenceUpdates : SavePreferences(t, scope, up)
          \/ \E value \in Layouts \union {Unset} : SaveWorkspace(t, scope, value)
          \/ \E mode \in OsModes \union {Unset} :
                LowerOsMode(t, scope, mode) \/ BeginRaise(t, scope, mode)
    \/ FinishRaise(t)
    \/ RefuseRaise(t)
    \/ \E what \in Deeds : BeginDeed(t, what)
    \/ FinishDeed(t)

SettingsNext == \E t \in Tabs : TabStep(t)

SettingsSpec == SettingsInit /\ [][SettingsNext]_settingVars

------------------------------------------------------------------------------
(* Properties *)

\* A tab that holds the stored revision holds the stored settings of its device, so
\* a save that passes the revision check never overwrites a change its tab has not
\* seen, whichever other tab or device made it.
SameRevisionSameSettings ==
    \A t \in Tabs : tab[t].revision = kept.revision
                      => tab[t] = ReadSettings(kept, TabDevice[t])

\* However the overrides were set, moved between keys and cleared, at most
\* DeviceLimit devices have one, and at most WorkspaceLimit workspaces are kept.
OverridesAreBounded ==
    LET overridden == {d \in Devices : kept.device[d] # NoOverride}
    IN IF setting = "workspace"
       THEN Cardinality(overridden) + (IF kept.user # Unset THEN 1 ELSE 0)
              <= WorkspaceLimit
       ELSE Cardinality(overridden) <= DeviceLimit

\* The system's own files, the apps' data and packages from outside the store are
\* only within reach of a browser after somebody proved the user's password for a
\* higher mode: no sequence of lowering, clearing and overriding modes gets there.
HigherModesAreProven ==
    \A t \in Tabs : deed[t] \in {"hostFiles", "appData", "import"} => proven

-----------------------------------------------------------------------------
(***************************************************************************)
(* The pages' side of the settings: the three providers that keep a copy   *)
(* of a revisioned settings record (shell preferences, operating mode,     *)
(* workspace) by polling it, and save changes against the revision they    *)
(* show.  Several tabs work on one record; requests are answered late, in  *)
(* any order, or not at all.  The record is abstracted to its revision:    *)
(* what the server stores under one is modelled above.                     *)
(***************************************************************************)
CONSTANTS
    OpenPages,        \* the pages open on the record
    Providers,   \* which of the three providers the pages run
    MaxRecord,   \* bound: revisions of the record
    MaxSaves     \* bound: saves a page begins

VARIABLES
    settingsProvider, \* the settingsProvider this record belongs to
    record,   \* the server's revision
    tabs,     \* what each page holds
    requests  \* requests on their way, and their answers on the way back

settingsPageVars == <<settingsProvider, record, tabs, requests>>

Unread == -1

EmptyTab == [cur |-> Unread, newest |-> Unread, generation |-> 0,
             reading |-> FALSE, writing |-> FALSE, error |-> "none"]

SettingsPagesInit ==
    /\ settingsProvider \in Providers
    /\ record = 0
    /\ tabs = [t \in OpenPages |-> EmptyTab]
    /\ requests = {}

----------------------------------------------------------------------------
(* What a page shows after it is handed a record.  Preferences and the     *)
(* operating mode take any other revision, a workspace only a later one.   *)
ApplyPreferences(cur, rev) == rev

ApplyOsMode(cur, rev) == rev

ApplyWorkspace(cur, rev) == IF cur # Unread /\ cur >= rev THEN cur ELSE rev

Apply(page, rev) ==
    LET cur == CASE settingsProvider = "preferences" -> ApplyPreferences(page.cur, rev)
                 [] settingsProvider = "os-mode"     -> ApplyOsMode(page.cur, rev)
                 [] settingsProvider = "workspace"   -> ApplyWorkspace(page.cur, rev) IN
    [page EXCEPT !.cur = cur, !.newest = IF rev > @ THEN rev ELSE @]

(* Only the workspace page may have several reads on their way. *)
MayRead(page) ==
    /\ ~page.writing
    /\ settingsProvider # "workspace" => ~page.reading

(* Sends the read and records the generation it belongs to. *)
Refresh(t) ==
    /\ MayRead(tabs[t])
    /\ Cardinality({q \in requests : q.page = t /\ q.kind = "read"}) < 2
    /\ requests' = requests \union
         {[page |-> t, kind |-> "read", generation |-> tabs[t].generation,
           answer |-> "none", rev |-> 0]}
    /\ tabs' = [tabs EXCEPT ![t].reading = TRUE]
    /\ UNCHANGED <<settingsProvider, record>>

(* A save is refused while another runs or before the record is known. *)
Save(t) ==
    /\ ~tabs[t].writing /\ tabs[t].cur # Unread
    /\ tabs[t].generation < MaxSaves
    /\ requests' = requests \union
         {[page |-> t, kind |-> "save", generation |-> tabs[t].generation + 1,
           answer |-> "none", rev |-> tabs[t].cur]}
    /\ tabs' = [tabs EXCEPT ![t].writing = TRUE, ![t].generation = @ + 1,
                            ![t].error = "none"]
    /\ UNCHANGED <<settingsProvider, record>>

(* The server answers with its record, refuses a save against another      *)
(* revision (or, for the operating mode, a password), or the answer is     *)
(* lost, after a save took effect as well as before.                       *)
ServerReplies(q) ==
    /\ q.answer = "none"
    /\ \/ /\ q.kind = "save" /\ q.rev = record /\ record < MaxRecord
          /\ record' = record + 1
          /\ \E answer \in {"record", "lost"} :
               requests' = (requests \ {q}) \union
                 {[q EXCEPT !.answer = answer, !.rev = record + 1]}
       \/ /\ q.kind = "save" /\ q.rev # record
          /\ requests' = (requests \ {q}) \union {[q EXCEPT !.answer = "conflict"]}
          /\ UNCHANGED record
       \/ /\ q.kind = "save" /\ settingsProvider = "os-mode"
          /\ requests' = (requests \ {q}) \union {[q EXCEPT !.answer = "forbidden"]}
          /\ UNCHANGED record
       \/ /\ q.kind # "save"
          /\ requests' = (requests \ {q}) \union
               {[q EXCEPT !.answer = "record", !.rev = record]}
          /\ UNCHANGED record
       \/ /\ requests' = (requests \ {q}) \union {[q EXCEPT !.answer = "lost"]}
          /\ UNCHANGED record
    /\ UNCHANGED <<settingsProvider, tabs>>

(* A read counts only if no save began since it was sent. *)
OfThisGeneration(q) == q.generation = tabs[q.page].generation

ReadReturns(q) ==
    LET page == [tabs[q.page] EXCEPT !.reading = FALSE]
        forgives == IF settingsProvider = "os-mode" THEN {"unavailable", "forbidden"}
                    ELSE {"unavailable"} IN
    /\ q.kind = "read" /\ q.answer # "none"
    /\ requests' = requests \ {q}
    /\ tabs' = [tabs EXCEPT ![q.page] =
         IF q.answer = "record" /\ OfThisGeneration(q)
         THEN [Apply(page, q.rev) EXCEPT !.error = IF @ \in forgives THEN "none" ELSE @]
         ELSE IF q.answer = "lost" /\ (settingsProvider = "workspace" \/ OfThisGeneration(q))
         THEN [page EXCEPT !.error = "unavailable"]
         ELSE page]
    /\ UNCHANGED <<settingsProvider, record>>

(* A save that the server refused for its revision is followed by a read   *)
(* before the page may save again; the workspace reads after any failure.  *)
SaveReturns(q) ==
    LET page == tabs[q.page]
        failure == CASE q.answer = "conflict"  -> "conflict"
                     [] q.answer = "forbidden" -> "forbidden"
                     [] OTHER                  -> "unavailable"
        rereads == \/ q.answer = "conflict"
                   \/ settingsProvider = "workspace" /\ q.answer # "record" IN
    /\ q.kind = "save" /\ q.answer # "none"
    /\ requests' = (requests \ {q}) \union
         (IF rereads THEN {[q EXCEPT !.kind = "reread", !.answer = "none"]} ELSE {})
    /\ tabs' = [tabs EXCEPT ![q.page] =
         IF q.answer = "record" THEN [Apply(page, q.rev) EXCEPT !.writing = FALSE]
         ELSE [page EXCEPT !.writing = rereads, !.error = failure]]
    /\ UNCHANGED <<settingsProvider, record>>

RereadReturns(q) ==
    LET page == [tabs[q.page] EXCEPT !.writing = FALSE] IN
    /\ q.kind = "reread" /\ q.answer # "none"
    /\ requests' = requests \ {q}
    /\ tabs' = [tabs EXCEPT ![q.page] =
         IF q.answer = "record" THEN Apply(page, q.rev) ELSE page]
    /\ UNCHANGED <<settingsProvider, record>>

(* Another device or page saves the record. *)
SavedElsewhere ==
    /\ record < MaxRecord
    /\ record' = record + 1
    /\ UNCHANGED <<settingsProvider, tabs, requests>>

SettingsPagesNext ==
    \/ SavedElsewhere
    \/ \E t \in OpenPages : Refresh(t) \/ Save(t)
    \/ \E q \in requests :
         ServerReplies(q) \/ ReadReturns(q) \/ SaveReturns(q) \/ RereadReturns(q)

----------------------------------------------------------------------------
(* A page never goes back to an earlier revision of the record than one it *)
(* has shown, although a read may return after the save that overtook it,  *)
(* and a page that says it is saving or reading has a request on its way:  *)
(* it cannot be left refusing every further save.                          *)
PagesMoveForward ==
    \A t \in OpenPages :
      /\ tabs[t].cur = tabs[t].newest
      /\ tabs[t].writing => \E q \in requests : q.page = t /\ q.kind # "read"
      /\ tabs[t].reading /\ settingsProvider # "workspace" =>
           \E q \in requests : q.page = t /\ q.kind = "read"
=============================================================================
