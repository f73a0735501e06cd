--------------------------- MODULE ShellComposer ---------------------------
(***************************************************************************)
(* The snapshot a shell page is given: what it may hold, and how it is put *)
(* together.                                                               *)
(***************************************************************************)
EXTENDS Integers, Sequences, FiniteSets

(***************************************************************************)
(* What a shell page shows: the versioned snapshot of rumahl-ui-contracts  *)
(* (snapshot.rs) and the themes it carries (theme.rs), as operators.       *)
(*                                                                         *)
(* A text is a record [head, n, tail]: what it starts with, its number and *)
(* what it ends with ("12px" is [head |-> "", n |-> 12, tail |-> "px"]).   *)
(* A colour is written "#..." and n is its relative luminance in           *)
(* thousandths.  The 34 tokens are represented by one of each rule that    *)
(* parse_value applies, and by the four that protect a contrast.           *)
(***************************************************************************)
CONSTANTS ViewAppLimit,     \* MAX_APPS
          ContributionLimit \* MAX_CONTRIBUTIONS

ASSUME ViewLimits == ViewAppLimit \in Nat /\ ContributionLimit \in Nat

CssText(h) == [head |-> h, n |-> 0, tail |-> ""]
Measure(k, u) == [head |-> "", n |-> k, tail |-> u]
Colour(light) == [head |-> "#", n |-> light, tail |-> ""]

-----------------------------------------------------------------------------
(* Theme tokens: the rule of each, and typed values. *)

ColourTokens == {"text", "panel", "titleText", "titlePanel", "canvas"}

PixelTokens == [windowRadius |-> <<0, 32>>, shellGap |-> <<0, 64>>, iconSize |-> <<16, 128>>]

ThemeTokens == ColourTokens \union DOMAIN PixelTokens
                   \union {"opacity", "duration", "wallpaper"}

SafeCss(value) ==
    /\ value.head \notin {";", "{", "<", "@", "control"}
    /\ value.head = "" => value.tail /= ""
    /\ value.head = "url(" => value.tail = "/shell/assets/)"

ParseColor(value) == IF value.head = "#" THEN {[kind |-> "color", light |-> value.n]} ELSE {}

ParseBetween(value, unit, low, high) ==
    IF value.head = "" /\ value.tail = unit /\ value.n \in low .. high
    THEN {[kind |-> unit, n |-> value.n]} ELSE {}

ParseCss(value) == IF SafeCss(value) THEN {[kind |-> "css", css |-> value]} ELSE {}

ParseDecimal(value, low, high) ==
    IF value.head = "" /\ value.tail = "tenths" /\ value.n \in low .. high
    THEN {[kind |-> "css", css |-> value]} ELSE {}

(* The typed value of a token, as a set: empty when the text is refused. *)
ParseValue(token, value) ==
    CASE token \in ColourTokens -> ParseColor(value)
      [] token \in DOMAIN PixelTokens ->
             ParseBetween(value, "px", PixelTokens[token][1], PixelTokens[token][2])
      [] token = "opacity"  -> ParseDecimal(value, 0, 10)
      [] token = "duration" -> ParseBetween(value, "ms", 0, 2000)
      [] OTHER -> ParseCss(value)

AsCssValue(typed) ==
    CASE typed.kind = "color" -> Colour(typed.light)
      [] typed.kind = "css"   -> typed.css
      [] OTHER -> Measure(typed.n, typed.kind)

-----------------------------------------------------------------------------
(* Built-in themes, manifests and what they resolve to. *)

Px(k) == [kind |-> "px", n |-> k]
Ms(k) == [kind |-> "ms", n |-> k]
Css(value) == [kind |-> "css", css |-> value]
Light(l) == [kind |-> "color", light |-> l]

StockTokens ==
    [canvas |-> Light(583), panel |-> Light(914), text |-> Light(12),
     titlePanel |-> Light(914), titleText |-> Light(12), windowRadius |-> Px(12),
     shellGap |-> Px(16), iconSize |-> Px(52), opacity |-> Css(Measure(7, "tenths")),
     duration |-> Ms(180), wallpaper |-> Css(CssText("default"))]

ClassicTokens ==
    [StockTokens EXCEPT !.opacity = Css(Measure(10, "tenths")), !.iconSize = Px(40),
                        !.duration = Ms(90), !.wallpaper = Css(CssText("none"))]

DefaultThemeId == "com.rumahl.default"

StockTheme == [id |-> DefaultThemeId, chrome |-> "standard", layout |-> "dock",
               launcher |-> "springboard", tokens |-> StockTokens]

ClassicTheme == [id |-> "com.rumahl.classic", chrome |-> "compact", layout |-> "taskbar",
                 launcher |-> "drawer", tokens |-> ClassicTokens]

ThemeById(id) ==
    CASE id \in {DefaultThemeId, "com.rumahl.stock"} -> {StockTheme}
      [] id = "com.rumahl.classic" -> {ClassicTheme}
      [] OTHER -> {}

Chromes == {"standard", "compact"}
ShellLayouts == {"dock", "taskbar"}
LauncherLayouts == {"springboard", "drawer"}
SnapshotModes == {"desktop", "launcher", "mobile"}

(* (lighter + 0.05) / (darker + 0.05) is at least 4.5. *)
Contrast(tokens, front, back) ==
    LET a == tokens[front].light
        b == tokens[back].light
        lighter == IF a > b THEN a ELSE b
        darker == IF a > b THEN b ELSE a
    IN  10 * (lighter + 50) >= 45 * (darker + 50)

ProtectedContrast(tokens) ==
    Contrast(tokens, "text", "panel") /\ Contrast(tokens, "titleText", "titlePanel")

ManifestToken(manifest, token) == ParseValue(token, manifest.tokens[token])

(* The stock tokens overlaid with those of the manifest. *)
ResolveTheme(manifest) ==
    [id |-> manifest.id, chrome |-> manifest.chrome, layout |-> manifest.layout,
     launcher |-> manifest.launcher,
     tokens |-> [t \in ThemeTokens |->
                    IF t \in DOMAIN manifest.tokens
                    THEN CHOOSE v \in ManifestToken(manifest, t) : TRUE
                    ELSE StockTokens[t]]]

ManifestReads(manifest) ==
    /\ manifest.id \notin {"", "short"}
    /\ manifest.chrome \in Chromes /\ manifest.layout \in ShellLayouts
    /\ manifest.launcher \in LauncherLayouts
    /\ DOMAIN manifest.tokens \subseteq ThemeTokens
    /\ \A t \in DOMAIN manifest.tokens : ManifestToken(manifest, t) /= {}
    /\ ProtectedContrast(ResolveTheme(manifest).tokens)

(* compile_css leaves out what the client replaces by its own asset. *)
EmittedTokens(theme) ==
    {t \in ThemeTokens : theme.tokens[t] /= Css(CssText("default"))}

CompileCss(theme) == [t \in EmittedTokens(theme) |-> AsCssValue(theme.tokens[t])]

-----------------------------------------------------------------------------
(* The parts of a snapshot. *)

TitleFits(title) == title \notin {"blank", "control", "long"}
NamespacedId(id) == id \notin {"", "short"}
SimpleId(id) == id \notin {"", "-"}
OpaqueId(id) == id /= ""
LocaleFits(locale) == locale /= ""

ShellApp(app) ==
    IF NamespacedId(app.id) /\ TitleFits(app.title)
    THEN {[id |-> app.id, title |-> app.title, launchable |-> app.launchable]} ELSE {}

ShellUser(name, locale) ==
    IF TitleFits(name) /\ LocaleFits(locale)
    THEN {[name |-> name, locale |-> locale]} ELSE {}

StylesheetUrl(theme) == [path |-> "/shell/themes/", css |-> CompileCss(theme)]

ShellThemeOf(theme) ==
    [id |-> theme.id, url |-> StylesheetUrl(theme), chrome |-> theme.chrome,
     layout |-> theme.layout, launcher |-> theme.launcher, tokens |-> CompileCss(theme)]

(* Commands and search providers name a capability, widgets an entrypoint. *)
Contribution(c) ==
    IF /\ NamespacedId(c.id) /\ TitleFits(c.title)
       /\ IF c.kind = "widget" THEN SimpleId(c.names) ELSE NamespacedId(c.names)
    THEN {[kind |-> c.kind, id |-> c.id, title |-> c.title, names |-> c.names,
           slot |-> IF c.kind = "widget" THEN "dashboard_widgets" ELSE ""]}
    ELSE {}

StatusFits(status) ==
    /\ status.observed > 0
    /\ status.activity = 0 \/ status.activity <= status.observed

IdsDiffer(list) == \A i, j \in 1 .. Len(list) : list[i].id = list[j].id => i = j

WorkspaceFits(workspace) == workspace \notin {"list", "large"}

SnapshotFits(s) ==
    /\ OpaqueId(s.build) /\ OpaqueId(s.revision)
    /\ Len(s.contributions) <= ContributionLimit /\ IdsDiffer(s.contributions)
    /\ Len(s.apps) <= ViewAppLimit /\ IdsDiffer(s.apps)
    /\ WorkspaceFits(s.workspace)

(* ShellSnapshot::new, then with_mode; workspace "" is None. *)
NewSnapshot(build, revision, user, theme, apps, workspace, status, contributions) ==
    [build |-> build, revision |-> revision, user |-> user, theme |-> theme, apps |-> apps,
     workspace |-> workspace, status |-> status, mode |-> "desktop",
     contributions |-> contributions]

WithMode(s, mode) == [s EXCEPT !.mode = mode]

-----------------------------------------------------------------------------
(* The JSON of a snapshot and reading it again. *)

ToJson(s) ==
    [versions |-> <<1, 1, 1>>, build |-> s.build, revision |-> s.revision, user |-> s.user,
     theme |-> s.theme, apps |-> s.apps, workspace |-> s.workspace, status |-> s.status,
     mode |-> s.mode, contributions |-> s.contributions]

ThemeFromWire(theme) ==
    /\ theme.chrome \in Chromes /\ theme.layout \in ShellLayouts
    /\ theme.launcher \in LauncherLayouts
    /\ DOMAIN theme.tokens \subseteq ThemeTokens
    /\ \A t \in DOMAIN theme.tokens : SafeCss(theme.tokens[t])
    /\ NamespacedId(theme.id) /\ theme.url.path = "/shell/themes/"

WireContribution(c) ==
    IF c.kind = "widget" /\ c.slot /= "dashboard_widgets" THEN {} ELSE Contribution(c)

(* What from_json makes of a document, as a set: empty when it refuses. *)
FromJson(w) ==
    IF /\ w.versions = <<1, 1, 1>>
       /\ ShellUser(w.user.name, w.user.locale) /= {}
       /\ ThemeFromWire(w.theme)
       /\ \A n \in 1 .. Len(w.apps) : ShellApp(w.apps[n]) /= {}
       /\ StatusFits(w.status)
       /\ \A n \in 1 .. Len(w.contributions) : WireContribution(w.contributions[n]) /= {}
       /\ SnapshotFits(w)
       /\ w.mode \in SnapshotModes
    THEN {WithMode(NewSnapshot(w.build, w.revision,
                    CHOOSE u \in ShellUser(w.user.name, w.user.locale) : TRUE, w.theme,
                    [n \in 1 .. Len(w.apps) |-> CHOOSE a \in ShellApp(w.apps[n]) : TRUE],
                    w.workspace, w.status,
                    [n \in 1 .. Len(w.contributions) |->
                        CHOOSE c \in WireContribution(w.contributions[n]) : TRUE]),
                   w.mode)}
    ELSE {}

-----------------------------------------------------------------------------
(***************************************************************************)
(* ShellSnapshotComposer (platform-api/src/shell_composer.rs) behind       *)
(* AuthenticatedShellSnapshotService (shell_snapshot.rs): one snapshot put *)
(* together from five sources, each read by itself while the sources       *)
(* change, with the revision read before and after.                        *)
(*                                                                         *)
(* The sources are the composer's environment: a change gives one of them  *)
(* a new value and the revision source a new revision, as the composer's   *)
(* documentation asks of every source.                                     *)
(***************************************************************************)
CONSTANTS ThemeManifests, \* theme packages offered to the theme source
          Contributions,  \* contributions the apps declare
          MaxRevisions,   \* bound on changes of the sources
          NotComposed

ASSUME ComposerBounds == MaxRevisions \in Nat

VARIABLES source,    \* what the five sources would answer now
          sourceAt,  \* what they answered at each revision
          composing, \* the load in progress
          composed   \* what the last load answered

composerVars == <<source, sourceAt, composing, composed>>

Actors == {"user", "app", "userWithoutSession"}

SourceKinds == <<"revision", "user", "theme", "status", "contribution", "again">>

NoParts == [revision |-> 0, user |-> 0, theme |-> 0, status |-> 0, contribution |-> 0, again |-> 0]

IdleLoad == [at |-> 0, parts |-> NotComposed]

ComposerInit ==
    /\ source = [revision |-> 1, name |-> "ada", usable |-> TRUE, locale |-> "",
                 theme |-> StockTheme, status |-> [observed |-> 2, activity |-> 0],
                 contributions |-> <<>>]
    /\ sourceAt = <<source>>
    /\ composing = IdleLoad
    /\ composed = NotComposed

-----------------------------------------------------------------------------
(* Changes of the sources. *)

ChangeSource(new) ==
    /\ source.revision < MaxRevisions
    /\ source' = [new EXCEPT !.revision = source.revision + 1]
    /\ sourceAt' = Append(sourceAt, source')
    /\ UNCHANGED <<composing, composed>>

(* The theme source answers with the theme of a manifest that reads. *)
InstallTheme ==
    \E m \in ThemeManifests :
        ManifestReads(m) /\ ChangeSource([source EXCEPT !.theme = ResolveTheme(m)])

Contribute ==
    \E c \in Contributions : \E valid \in Contribution(c) :
        ChangeSource([source EXCEPT !.contributions = Append(@, valid)])

ChangeProfile ==
    \/ ChangeSource([source EXCEPT !.locale = IF @ = "" THEN "de" ELSE ""])
    \/ ChangeSource([source EXCEPT !.usable = ~ @])

-----------------------------------------------------------------------------
(* One load. *)

(* Only a person with a session of their own gets a snapshot. *)
BeginLoad(actor) ==
    /\ composing.at = 0
    /\ actor = "user"
    /\ composing' = [at |-> 1, parts |-> NoParts]
    /\ UNCHANGED <<source, sourceAt, composed>>

RefuseLoad(actor) ==
    /\ composing.at = 0
    /\ actor /= "user"
    /\ composed' = NotComposed
    /\ UNCHANGED <<source, sourceAt, composing>>

DefaultLocale == "en"

LoadedUser == ShellUser(source.name, IF source.locale = "" THEN DefaultLocale ELSE source.locale)

(* What a source answers now, as a set: empty when it fails. *)
SourceAnswer(kind) ==
    CASE kind = "revision" -> {source.revision}
      [] kind = "user" -> IF source.usable THEN LoadedUser ELSE {}
      [] kind = "theme" -> {ShellThemeOf(source.theme)}
      [] kind = "status" -> {s \in {source.status} : StatusFits(s)}
      [] kind = "contribution" -> {source.contributions}
      [] kind = "again" -> {source.revision}

ReadSource ==
    /\ composing.at \in 1 .. Len(SourceKinds)
    /\ LET kind == SourceKinds[composing.at]
       IN  IF SourceAnswer(kind) = {}
           THEN composing' = IdleLoad /\ composed' = NotComposed
           ELSE /\ composing' = [composing EXCEPT
                        !.at = @ + 1,
                        !.parts[kind] = CHOOSE v \in SourceAnswer(kind) : TRUE]
                /\ UNCHANGED composed
    /\ UNCHANGED <<source, sourceAt>>

UnchangedDuringRead(parts) == parts.revision = parts.again

FinishLoad ==
    /\ composing.at > Len(SourceKinds)
    /\ LET parts == composing.parts
           snapshot == NewSnapshot("build", parts.revision, parts.user, parts.theme, <<>>, "",
                                   parts.status, parts.contribution)
       IN  composed' = IF /\ UnchangedDuringRead(parts)
                          /\ Len(snapshot.contributions) <= ContributionLimit
                          /\ IdsDiffer(snapshot.contributions)
                       THEN snapshot ELSE NotComposed
    /\ composing' = IdleLoad
    /\ UNCHANGED <<source, sourceAt>>

ComposerNext ==
    \/ InstallTheme \/ Contribute \/ ChangeProfile
    \/ \E actor \in Actors : BeginLoad(actor) \/ RefuseLoad(actor)
    \/ ReadSource
    \/ FinishLoad

ComposerSpec == ComposerInit /\ [][ComposerNext]_composerVars

-----------------------------------------------------------------------------
(***************************************************************************)
(* A snapshot that is handed out shows the sources as they were at one     *)
(* revision, the one it names, however the sources changed while           *)
(* load_for_user read them one after the other; and the shell reads it     *)
(* back from its JSON as it was.                                           *)
(***************************************************************************)
ComposedAtOneRevision ==
    composed /= NotComposed =>
        LET then == sourceAt[composed.revision]
        IN  /\ composed.theme = ShellThemeOf(then.theme)
            /\ composed.user.name = then.name
            /\ composed.user.locale = IF then.locale = "" THEN DefaultLocale ELSE then.locale
            /\ composed.contributions = then.contributions
            /\ FromJson(ToJson([composed EXCEPT !.revision = "r"])) =
                   {[composed EXCEPT !.revision = "r"]}
=============================================================================
