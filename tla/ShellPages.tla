----------------------------- MODULE ShellPages -----------------------------
(***************************************************************************)
(* A shell page kept up to date.  The platform composes the page's view    *)
(* from stores that change while it reads them (PersistentShellSnapshots,  *)
(* platform-service/src/lib.rs); a feed polls the account's revision and   *)
(* publishes changes on a bounded bus (main.rs, platform-web events.rs);   *)
(* one task per socket passes them on (drive_events in server.rs); and the *)
(* page fetches, reconnects and retries (watchShellUpdates in the shell's  *)
(* live-updates.ts).                                                       *)
(*                                                                         *)
(* One account with one page.  Settings are kept per account and per       *)
(* device, "" when unset; the feed has no device.  The page's view is read *)
(* store by store; the feed's reads are one step, since a tick only ever   *)
(* compares the digest it made with the one before.                        *)
(***************************************************************************)
EXTENDS ShellComposer

CONSTANTS PageApps,       \* apps that may be visible: id, title, version
          PageThemes,     \* theme ids a person may choose
          PageModes,      \* modes a person may choose
          PageWorkspaces, \* stored window layouts
          BusCapacity,    \* messages a subscriber may lag behind
          MaxPageChanges, \* bound on changes of the stores
          MaxPageFaults,  \* bound on failed reads and lost connections
          NoRevision, NoView

ASSUME PageBounds == BusCapacity \in Nat \ {0} /\ MaxPageChanges \in Nat /\ MaxPageFaults \in Nat

VARIABLES shellStore,  \* what the stores hold
          pageSession, \* the session of the page
          load,        \* the reading for the page
          feedKnown,   \* the revision the feed saw last
          socket,      \* the task that drives the page's socket
          toPage,      \* what is on its way to the page
          page,        \* the page's own state
          announced,   \* announcements made so far
          pageLimits   \* changes and faults so far

pageVars == <<shellStore, pageSession, load, feedKnown, socket, toPage, page, announced, pageLimits>>
delivery == <<socket, toPage>>

Levels == {"account", "device"}
LoadSteps == <<"account", "apps", "theme", "mode", "workspace">>
NoLoad == [at |-> 0, session |-> "open", apps |-> {}, theme |-> "", mode |-> "", workspace |-> ""]
NoSocket == [at |-> "none", queue |-> <<>>, lagged |-> FALSE]

PagesInit ==
    /\ shellStore = [apps |-> {}, theme |-> [l \in Levels |-> ""],
                     mode |-> [l \in Levels |-> ""], workspace |-> [l \in Levels |-> ""]]
    /\ pageSession = "open"
    /\ load = NoLoad
    /\ feedKnown = NoRevision
    /\ socket = NoSocket
    /\ toPage = <<>>
    /\ page = [stopped |-> FALSE, wire |-> "retry", requested |-> FALSE, fetching |-> "no",
               refreshRetry |-> FALSE, revision |-> NoRevision, shown |-> NoView,
               answered |-> NoView, seen |-> 0]
    /\ announced = [count |-> 0, last |-> NoRevision]
    /\ pageLimits = [changes |-> 0, faults |-> 0]

-----------------------------------------------------------------------------
(* The stores and the session change by other hands. *)

ChangeStore(new) ==
    /\ pageLimits.changes < MaxPageChanges
    /\ shellStore' = new
    /\ pageLimits' = [pageLimits EXCEPT !.changes = @ + 1]
    /\ UNCHANGED <<pageSession, load, feedKnown, delivery, page, announced>>

ChangeApps ==
    \E app \in PageApps :
        ChangeStore([shellStore EXCEPT !.apps = IF app \in @ THEN @ \ {app} ELSE @ \union {app}])

ChangeAppearance ==
    \E level \in Levels :
        \/ \E t \in PageThemes : ChangeStore([shellStore EXCEPT !.theme[level] = t])
        \/ \E m \in PageModes : ChangeStore([shellStore EXCEPT !.mode[level] = m])
        \/ \E w \in PageWorkspaces : ChangeStore([shellStore EXCEPT !.workspace[level] = w])

SignOutElsewhere ==
    /\ pageSession = "open"
    /\ pageSession' = "revoked"
    /\ UNCHANGED <<shellStore, load, feedKnown, delivery, page, announced, pageLimits>>

PageFault ==
    /\ pageLimits.faults < MaxPageFaults
    /\ pageLimits' = [pageLimits EXCEPT !.faults = @ + 1]

-----------------------------------------------------------------------------
(* for_user: five reads, each by itself. *)

Effective(l, setting) ==
    IF l = "page" /\ setting["device"] /= "" THEN setting["device"] ELSE setting["account"]

(* An unknown theme falls back to the stock theme, every mode but the     *)
(* launcher to the desktop.                                               *)
ResolvedThemeOf(id) == IF ThemeById(id) = {} THEN StockTheme ELSE CHOOSE t \in ThemeById(id) : TRUE

ResolvedMode(mode) == IF mode = "launcher" THEN "launcher" ELSE "desktop"

ReadStep(r, l) ==
    CASE LoadSteps[r.at] = "account" -> [r EXCEPT !.session = pageSession]
      [] LoadSteps[r.at] = "apps" ->
             [r EXCEPT !.apps = IF r.session = "open" THEN shellStore.apps ELSE {}]
      [] LoadSteps[r.at] = "theme" -> [r EXCEPT !.theme = Effective(l, shellStore.theme)]
      [] LoadSteps[r.at] = "mode" -> [r EXCEPT !.mode = Effective(l, shellStore.mode)]
      [] LoadSteps[r.at] = "workspace" ->
             [r EXCEPT !.workspace = Effective(l, shellStore.workspace)]

ReadAtOnce ==
    [at |-> Len(LoadSteps), session |-> pageSession,
     apps |-> IF pageSession = "open" THEN shellStore.apps ELSE {},
     theme |-> Effective("feed", shellStore.theme), mode |-> Effective("feed", shellStore.mode),
     workspace |-> Effective("feed", shellStore.workspace)]

ReadNext ==
    /\ load.at \in 1 .. Len(LoadSteps) - 1
    /\ load' = [ReadStep(load, "page") EXCEPT !.at = @ + 1]
    /\ UNCHANGED <<shellStore, pageSession, feedKnown, delivery, page, announced, pageLimits>>

Composes(r) ==
    /\ \A app \in r.apps : ShellApp(app) /= {}
    /\ Cardinality(r.apps) <= ViewAppLimit
    /\ \A a, b \in r.apps : a.id = b.id => a = b
    /\ WorkspaceFits(r.workspace)

(* The revision is a digest of what was read. *)
Revision(r) == <<r.apps, ResolvedThemeOf(r.theme).id, ResolvedMode(r.mode), r.workspace>>

View(r) == [apps |-> {<<a.id, a.title>> : a \in r.apps}, count |-> Cardinality(r.apps),
            theme |-> ShellThemeOf(ResolvedThemeOf(r.theme)), mode |-> ResolvedMode(r.mode),
            workspace |-> r.workspace]

-----------------------------------------------------------------------------
(* The bus and the feed. *)

(* A subscriber that is too far behind loses the oldest message. *)
Published(event) ==
    IF socket.at = "none" THEN socket
    ELSE LET queue == Append(socket.queue, event)
         IN  IF Len(queue) <= BusCapacity THEN [socket EXCEPT !.queue = queue]
             ELSE [socket EXCEPT !.queue = Tail(queue), !.lagged = TRUE]

Changed(revision) == [kind |-> "changed", for |-> "me", revision |-> revision]
Lifecycle == [kind |-> "lifecycle", for |-> "all", revision |-> NoRevision]
SomeoneElses == [kind |-> "changed", for |-> "other", revision |-> NoRevision]
Revoked == [kind |-> "revoked", for |-> "me", revision |-> NoRevision]
SocketOpened == [kind |-> "open", for |-> "me", revision |-> NoRevision]
Closed == [kind |-> "close", for |-> "me", revision |-> NoRevision]

(* A tick looks at the accounts with an active session; without one, or    *)
(* when the view cannot be composed, the account's revision is forgotten.  *)
FeedTick ==
    /\ LET revision == IF pageSession = "open" /\ Composes(ReadAtOnce)
                       THEN Revision(ReadAtOnce) ELSE NoRevision
       IN  /\ feedKnown' = revision
           /\ IF revision /= NoRevision /\ feedKnown \notin {NoRevision, revision}
              THEN /\ socket' = Published(Changed(revision))
                   /\ announced' = [count |-> announced.count + 1, last |-> revision]
              ELSE UNCHANGED <<socket, announced>>
    /\ UNCHANGED <<shellStore, pageSession, load, toPage, page, pageLimits>>

(* Messages for other accounts and for everyone. *)
OtherMessages ==
    /\ \E m \in {SomeoneElses, Lifecycle} : socket' = Published(m)
    /\ PageFault
    /\ UNCHANGED <<shellStore, pageSession, load, feedKnown, toPage, page, announced>>

-----------------------------------------------------------------------------
(* drive_events. *)

Shut(messages) == socket' = NoSocket /\ toPage' = toPage \o messages \o <<Closed>>

(* Mutant: the session is not looked up again. *)
RecheckKeeps ==
    /\ socket.at = "open"
    /\ UNCHANGED pageVars

Recheck ==
    /\ socket.at = "open"
    /\ IF pageSession = "revoked" THEN Shut(<<Revoked>>) ELSE UNCHANGED delivery
    /\ UNCHANGED <<shellStore, pageSession, load, feedKnown, page, announced, pageLimits>>

(* Any other failure of the authentication ends the socket. *)
RecheckFails ==
    /\ socket.at = "open"
    /\ PageFault
    /\ Shut(<<>>)
    /\ UNCHANGED <<shellStore, pageSession, load, feedKnown, page, announced>>


EndLagged == NoSocket

TakeLagged ==
    /\ socket.at = "open" /\ socket.lagged
    /\ socket' = EndLagged
    /\ toPage' = IF EndLagged = NoSocket THEN Append(toPage, Closed) ELSE toPage
    /\ UNCHANGED <<shellStore, pageSession, load, feedKnown, page, announced, pageLimits>>

(* The session is looked up again for every message of this account. *)
TakeEvent ==
    /\ socket.at = "open" /\ ~ socket.lagged /\ socket.queue /= <<>>
    /\ LET event == Head(socket.queue)
       IN  IF event.for = "other"
           THEN socket' = [socket EXCEPT !.queue = Tail(@)] /\ UNCHANGED toPage
           ELSE IF pageSession = "revoked" THEN Shut(<<Revoked>>)
           ELSE socket' = [socket EXCEPT !.at = "sending"] /\ UNCHANGED toPage
    /\ UNCHANGED <<shellStore, pageSession, load, feedKnown, page, announced, pageLimits>>

SendEvent ==
    /\ socket.at = "sending"
    /\ socket' = [socket EXCEPT !.at = "open", !.queue = Tail(@)]
    /\ toPage' = Append(toPage, Head(socket.queue))
    /\ UNCHANGED <<shellStore, pageSession, load, feedKnown, page, announced, pageLimits>>

LoseConnection ==
    /\ socket.at /= "none"
    /\ PageFault
    /\ socket' = NoSocket
    /\ toPage' = <<Closed>>
    /\ UNCHANGED <<shellStore, pageSession, load, feedKnown, page, announced>>

-----------------------------------------------------------------------------
(* watchShellUpdates. *)

RequestRefresh(p) == [p EXCEPT !.requested = TRUE, !.refreshRetry = FALSE]

Expired(p) == [p EXCEPT !.stopped = TRUE, !.refreshRetry = FALSE, !.wire = "none"]

(* The handler authenticates, subscribes and upgrades. *)
ConnectSocket ==
    /\ ~ page.stopped /\ page.wire = "retry" /\ socket.at = "none"
    /\ page' = [page EXCEPT !.wire = "open"]
    /\ IF pageSession = "open"
       THEN socket' = [NoSocket EXCEPT !.at = "open"] /\ toPage' = <<SocketOpened>>
       ELSE UNCHANGED socket /\ toPage' = <<Closed>>
    /\ UNCHANGED <<shellStore, pageSession, load, feedKnown, announced, pageLimits>>

OnMessage(p, event) ==
    CASE event.kind = "open" -> RequestRefresh(p)
      [] event.kind = "close" -> [RequestRefresh(p) EXCEPT !.wire = "retry"]
      [] event.kind = "revoked" -> Expired(p)
      [] event.kind = "lifecycle" -> p
      [] event.kind = "changed" -> IF event.revision = p.revision THEN p ELSE RequestRefresh(p)

ReceiveMessage ==
    /\ toPage /= <<>>
    /\ toPage' = Tail(toPage)
    /\ page' = IF page.stopped THEN page ELSE OnMessage(page, Head(toPage))
    /\ UNCHANGED <<shellStore, pageSession, load, feedKnown, socket, announced, pageLimits>>

(* Stopping closes the socket, which ends its task. *)
SocketOfStoppedPage ==
    /\ page.stopped /\ socket.at = "open"
    /\ socket' = NoSocket
    /\ UNCHANGED <<shellStore, pageSession, load, feedKnown, toPage, page, announced, pageLimits>>

StartFetch ==
    /\ ~ page.stopped /\ page.requested /\ page.fetching = "no"
    /\ page' = [page EXCEPT !.requested = FALSE, !.fetching = "sent", !.seen = announced.count]
    /\ UNCHANGED <<shellStore, pageSession, load, feedKnown, delivery, announced, pageLimits>>

(* 401 ends the page. *)
FetchAuthenticate ==
    /\ page.fetching = "sent"
    /\ IF pageSession = "open"
       THEN /\ page' = [page EXCEPT !.fetching = "loading"]
            /\ load' = [NoLoad EXCEPT !.at = 1]
       ELSE /\ page' = [Expired(page) EXCEPT !.fetching = "no"]
            /\ UNCHANGED load
    /\ UNCHANGED <<shellStore, pageSession, feedKnown, delivery, announced, pageLimits>>

FetchFailed(p) == [p EXCEPT !.fetching = "no", !.refreshRetry = ~ p.stopped]

FetchAnswered(p, r) ==
    LET got == [p EXCEPT !.fetching = "no", !.answered = View(r)]
    IN  IF p.stopped THEN [p EXCEPT !.fetching = "no"]
        ELSE IF Revision(r) = p.revision THEN got
        ELSE [got EXCEPT !.revision = Revision(r), !.shown = View(r)]

(* load_for_user looks the session up once more in its account read. *)
FetchEnds ==
    /\ load.at = Len(LoadSteps)
    /\ load' = NoLoad
    /\ LET r == ReadStep(load, "page")
       IN  page' = IF r.session = "revoked" THEN [Expired(page) EXCEPT !.fetching = "no"]
                   ELSE IF Composes(r) THEN FetchAnswered(page, r)
                   ELSE FetchFailed(page)
    /\ UNCHANGED <<shellStore, pageSession, feedKnown, delivery, announced, pageLimits>>

FetchFails ==
    /\ page.fetching = "loading"
    /\ PageFault
    /\ load' = NoLoad
    /\ page' = FetchFailed(page)
    /\ UNCHANGED <<shellStore, pageSession, feedKnown, delivery, announced>>

RefreshTimer ==
    /\ page.refreshRetry
    /\ page' = RequestRefresh(page)
    /\ UNCHANGED <<shellStore, pageSession, load, feedKnown, delivery, announced, pageLimits>>

-----------------------------------------------------------------------------
ServerStep == Recheck \/ TakeLagged \/ TakeEvent \/ SendEvent

ConnectionStep == ConnectSocket \/ ReceiveMessage \/ SocketOfStoppedPage

FetchStep == StartFetch \/ FetchAuthenticate \/ ReadNext \/ FetchEnds \/ RefreshTimer

PagesNext ==
    \/ ChangeApps \/ ChangeAppearance \/ SignOutElsewhere
    \/ FeedTick \/ OtherMessages
    \/ ServerStep \/ RecheckFails \/ LoseConnection
    \/ ConnectionStep \/ FetchStep \/ FetchFails

(* The task of the socket, the page's connection and its fetches go on;    *)
(* nothing makes the stores change or the feed's reads fail.              *)
PagesFairness ==
    WF_pageVars(ServerStep) /\ WF_pageVars(ConnectionStep) /\ WF_pageVars(FetchStep)

PagesSpec == PagesInit /\ [][PagesNext]_pageVars /\ PagesFairness

-----------------------------------------------------------------------------
Waits(m) == \E n \in 1 .. Len(socket.queue) : socket.queue[n].kind = m

OnItsWay(kinds) == \E n \in 1 .. Len(toPage) : toPage[n].kind \in kinds


(***************************************************************************)
(* What a page shows is what the platform answered last: a page skips an   *)
(* answer whose revision it has, so for_user's digest has to cover         *)
(* everything the view shows.                                              *)
(***************************************************************************)
ShownIsWhatWasAnswered == page.shown = page.answered

(***************************************************************************)
(* A page whose session was ended elsewhere stops, by the socket's recheck *)
(* or by a refused fetch, whatever connections were lost and whatever      *)
(* reads failed before.                                                    *)
(***************************************************************************)
SignedOutPagesStop == (pageSession = "revoked") ~> page.stopped

=============================================================================
