----------------------------- MODULE AppBridge -----------------------------
(***************************************************************************)
(* The bridge between the shell and the app documents it frames: the host  *)
(* of one app window (launch, lease renewal, watchdog, retry), the bridge  *)
(* client in the document (handshake, calls with a timeout), the shell's   *)
(* end of the channel (declared capabilities, asynchronous answers) and    *)
(* the provider channels through which one app serves another.             *)
(*                                                                         *)
(* Every mounted iframe is a window of its own, numbered; a document that  *)
(* reloads keeps its window and starts a new client.  Messages between a   *)
(* window and the shell arrive in order; those on their way to a document  *)
(* that is gone are lost.                                                  *)
(***************************************************************************)
EXTENDS Integers, Sequences, FiniteSets, SequencesExt

CONSTANTS
    BridgeApps,    \* the apps with a window
    Declared,      \* the bridge capabilities each app declares
    CallKinds,     \* the methods each app's documents call
    ProviderApps,  \* the apps the server names as a browser provider
    MaxFrames,     \* bound: windows mounted per app
    MaxDocuments,  \* bound: documents loaded, by app
    MaxBridgeCalls \* bound: calls a document makes

VARIABLES
    frames,        \* the AppFrame component of each app
    binding,       \* the shell's end: the window it listens to, and its hello
    providerOf,    \* registered provider channels: the window, 0 for none
    appDocument,   \* the document of each app's window and its bridge client
    toShell,       \* messages each app's documents posted
    toApp,         \* messages posted to each app's document
    answering,     \* calls the shell is answering
    invocations,   \* provider invocations a document is working on
    bridgeResults, \* calls that ended well, with the call the result is for
    bridgeEffects  \* <<app, method>> the shell carried out

bridgeVars == <<frames, binding, providerOf, appDocument, toShell, toApp,
                answering, invocations, bridgeResults, bridgeEffects>>

ClosedFrame == [open |-> FALSE, frame |-> FALSE, failed |-> FALSE,
                safe |-> FALSE, renew |-> "off", loaded |-> FALSE, win |-> 0]

NoBinding == [win |-> 0, ready |-> FALSE, seq |-> 0]

NoDocument == [doc |-> 0, live |-> FALSE, welcome |-> FALSE, seq |-> 0,
               pending |-> {}, provides |-> FALSE]

(* A document that went leaves only its number. *)
GoneAfter(d) == [NoDocument EXCEPT !.doc = d.doc]

BridgeInit ==
    /\ frames = [a \in BridgeApps |-> ClosedFrame]
    /\ binding = [a \in BridgeApps |-> NoBinding]
    /\ providerOf = [a \in BridgeApps |-> 0]
    /\ appDocument = [a \in BridgeApps |-> NoDocument]
    /\ toShell = [a \in BridgeApps |-> << >>]
    /\ toApp = [a \in BridgeApps |-> << >>]
    /\ answering = {}
    /\ invocations = {}
    /\ bridgeResults = {}
    /\ bridgeEffects = {}

----------------------------------------------------------------------------
(* The capability a method needs; "none" for a method the bridge lacks. *)
capabilityForMethod(method) ==
    CASE method = "os.info"                -> "info"
      [] method = "os.window.close"        -> "window"
      [] method = "os.capabilities.invoke" -> "capabilities"
      [] OTHER                             -> "none"

(* A method is carried out only for an app that declared its capability. *)
Admits(a, method) == capabilityForMethod(method) \in Declared[a]

(* The time in a call's identifier separates the documents of one window.  *)
CallId(a, doc, seq) == <<a, doc, seq>>

(* The window of an app while its iframe is rendered, 0 otherwise. *)
MountedWindow(h) == IF h.open /\ h.frame /\ ~h.failed /\ ~h.safe THEN h.win ELSE 0

BridgeRequest(win, id, method, ref) ==
    [kind |-> "request", win |-> win, id |-> id, method |-> method, ref |-> ref]

BridgeResponse(win, id, ok, ref) ==
    [kind |-> "response", win |-> win, id |-> id, ok |-> ok, ref |-> ref]

BridgeHello(win) == [kind |-> "hello", win |-> win]

(* A message to a window reaches the document it shows, if there is one. *)
PostedTo(queues, a, win, msg) ==
    IF MountedWindow(frames[a]) = win /\ appDocument[a].live
    THEN [queues EXCEPT ![a] = Append(@, msg)] ELSE queues

Welcome(win) == [kind |-> "welcome", win |-> win]

----------------------------------------------------------------------------
(* The host of an app window. *)

(* A frame that is not rendered has neither document nor binding: the      *)
(* effect's cleanup stops listening, unregisters the provider channel and  *)
(* rejects what waits for an answer of this window.                        *)
Unmount(a) ==
    LET win == binding[a].win IN
    /\ binding' = [binding EXCEPT ![a] = NoBinding]
    /\ providerOf' = [providerOf EXCEPT ![a] = IF @ = win THEN 0 ELSE @]
    /\ answering' = {IF c.stage = "provider" /\ c.provider = a /\ c.chan = win
                     THEN [c EXCEPT !.stage = "failed"] ELSE c : c \in answering}
    /\ appDocument' = [appDocument EXCEPT ![a] = GoneAfter(appDocument[a])]
    /\ toApp' = [toApp EXCEPT ![a] = << >>]
    /\ toShell' = [toShell EXCEPT ![a] = << >>]
    /\ invocations' = {i \in invocations : i.app # a}
    /\ UNCHANGED <<bridgeResults, bridgeEffects>>

(* The frame effect binds the mounted window and registers its channel. *)
AttachBridge(a) ==
    LET win == MountedWindow(frames[a]) IN
    /\ win # binding[a].win
    /\ binding' = [binding EXCEPT ![a] = [NoBinding EXCEPT !.win = win]]
    /\ providerOf' = [providerOf EXCEPT ![a] = win]
    /\ UNCHANGED <<frames, appDocument, toShell, toApp, answering, invocations,
                   bridgeResults, bridgeEffects>>

OpenFrame(a) ==
    /\ ~frames[a].open
    /\ frames' = [frames EXCEPT ![a] =
         [ClosedFrame EXCEPT !.open = TRUE, !.renew = "asking", !.win = frames[a].win]]
    /\ UNCHANGED <<binding, providerOf, appDocument, toShell, toApp, answering,
                   invocations, bridgeResults, bridgeEffects>>

(* A launch or a renewal is answered.  Only a frame that was not there is  *)
(* mounted, and none is while the failure page is shown: the renewal that  *)
(* outlives the watchdog sets the frame behind it.                         *)
LaunchAnswered(a) ==
    LET f == frames[a]
        mounts == ~f.frame /\ ~f.failed IN
    /\ f.renew = "asking"
    /\ mounts => f.win < MaxFrames
    /\ frames' = [frames EXCEPT ![a] =
         [f EXCEPT !.renew = "waiting", !.safe = FALSE, !.frame = TRUE,
                   !.loaded = IF ~f.frame THEN FALSE ELSE @,
                   !.win = IF mounts THEN @ + 1 ELSE @]]
    /\ UNCHANGED <<binding, providerOf, appDocument, toShell, toApp, answering,
                   invocations, bridgeResults, bridgeEffects>>

(* It is refused: by safe mode, or it fails. *)
LaunchRefused(a) ==
    /\ frames[a].renew = "asking"
    /\ \E safe \in BOOLEAN :
         frames' = [frames EXCEPT ![a] = [@ EXCEPT !.renew = "off", !.frame = FALSE,
                                                   !.safe = IF safe THEN TRUE ELSE @,
                                                   !.failed = ~safe]]
    /\ Unmount(a)

RenewTimer(a) ==
    /\ frames[a].renew = "waiting"
    /\ frames' = [frames EXCEPT ![a].renew = "asking"]
    /\ UNCHANGED <<binding, providerOf, appDocument, toShell, toApp, answering,
                   invocations, bridgeResults, bridgeEffects>>

(* A frame that does not load in time is given up, not its renewals. *)
Watchdog(a) ==
    /\ frames[a].open /\ frames[a].frame /\ ~frames[a].loaded
    /\ frames' = [frames EXCEPT ![a].frame = FALSE, ![a].failed = TRUE]
    /\ Unmount(a)

(* An unreachable server or an error of the frame also ends the renewals. *)
FrameUnreachable(a) ==
    /\ frames[a].open /\ frames[a].frame
    /\ frames' = [frames EXCEPT ![a].frame = FALSE, ![a].failed = TRUE,
                                ![a].renew = "off"]
    /\ Unmount(a)

RetryFrame(a) ==
    /\ frames[a].open /\ (frames[a].failed \/ frames[a].safe)
    /\ frames' = [frames EXCEPT ![a] =
         [ClosedFrame EXCEPT !.open = TRUE, !.renew = "asking", !.win = frames[a].win]]
    /\ Unmount(a)

(* The window goes, by the user's hand or after os.window.close. *)
CloseFrame(a) ==
    /\ frames[a].open
    /\ frames' = [frames EXCEPT ![a] = [ClosedFrame EXCEPT !.win = frames[a].win]]
    /\ Unmount(a)

----------------------------------------------------------------------------
(* The document and its bridge client. *)

(* The document of the mounted window loads and connects: it says hello. *)
Connect(a) ==
    LET win == MountedWindow(frames[a]) IN
    /\ win # 0 /\ ~appDocument[a].live
    /\ appDocument[a].doc < MaxDocuments[a]
    /\ frames' = [frames EXCEPT ![a].loaded = TRUE]
    /\ appDocument' = [appDocument EXCEPT ![a] =
         [GoneAfter(appDocument[a]) EXCEPT !.doc = @ + 1, !.live = TRUE]]
    /\ toShell' = [toShell EXCEPT ![a] = Append(@, BridgeHello(win))]
    /\ UNCHANGED <<binding, providerOf, toApp, answering, invocations,
                   bridgeResults, bridgeEffects>>

(* Until it is welcomed it repeats its hello (bound: one on its way). *)
RepeatHello(a) ==
    /\ appDocument[a].live /\ ~appDocument[a].welcome
    /\ \A n \in DOMAIN toShell[a] : toShell[a][n].kind # "hello"
    /\ \A n \in DOMAIN toApp[a] : toApp[a][n].kind # "welcome"
    /\ toShell' = [toShell EXCEPT ![a] =
         Append(@, BridgeHello(MountedWindow(frames[a])))]
    /\ UNCHANGED <<frames, binding, providerOf, appDocument, toApp, answering,
                   invocations, bridgeResults, bridgeEffects>>

(* The app reloads its document; the window and its binding stay. *)
ReloadDocument(a) ==
    /\ appDocument[a].live
    /\ appDocument' = [appDocument EXCEPT ![a] = GoneAfter(appDocument[a])]
    /\ toApp' = [toApp EXCEPT ![a] = << >>]
    /\ invocations' = {i \in invocations : i.app # a}
    /\ UNCHANGED <<frames, binding, providerOf, toShell, answering,
                   bridgeResults, bridgeEffects>>

(* The app registers the handler of the capability it provides. *)
ProvideCapability(a) ==
    /\ a \in ProviderApps
    /\ appDocument[a].live /\ ~appDocument[a].provides
    /\ appDocument' = [appDocument EXCEPT ![a].provides = TRUE]
    /\ UNCHANGED <<frames, binding, providerOf, toShell, toApp, answering,
                   invocations, bridgeResults, bridgeEffects>>

CallBridge(a, method) ==
    LET d == appDocument[a]
        ref == <<a, d.doc, d.seq + 1>>
        id == CallId(a, d.doc, d.seq + 1) IN
    /\ d.live
    /\ d.seq < MaxBridgeCalls
    /\ appDocument' = [appDocument EXCEPT ![a].seq = @ + 1,
                                    ![a].pending = @ \union {[id |-> id, ref |-> ref]}]
    /\ toShell' = [toShell EXCEPT ![a] =
         Append(@, BridgeRequest(MountedWindow(frames[a]), id, method, ref))]
    /\ UNCHANGED <<frames, binding, providerOf, toApp, answering, invocations,
                   bridgeResults, bridgeEffects>>

(* A call that is not answered in time is forgotten. *)
CallTimesOut(a) ==
    /\ \E c \in appDocument[a].pending :
         appDocument' = [appDocument EXCEPT ![a].pending = @ \ {c}]
    /\ UNCHANGED <<frames, binding, providerOf, toShell, toApp, answering,
                   invocations, bridgeResults, bridgeEffects>>

(* A message reaches the document: a welcome, an answer to one of its      *)
(* calls, or an invocation of a capability it may provide.                 *)
ReceiveAtApp(a) ==
    LET msg == Head(toApp[a])
        mine == {c \in appDocument[a].pending : c.id = msg.id} IN
    /\ toApp[a] # << >>
    /\ toApp' = [toApp EXCEPT ![a] = Tail(@)]
    /\ \/ /\ msg.kind = "welcome"
          /\ appDocument' = [appDocument EXCEPT ![a].welcome = TRUE]
          /\ UNCHANGED <<toShell, invocations, bridgeResults>>
       \/ /\ msg.kind = "response"
          /\ appDocument' = [appDocument EXCEPT ![a].pending = @ \ mine]
          /\ bridgeResults' = bridgeResults \union
               (IF msg.ok THEN {<<c.ref, msg.ref>> : c \in mine} ELSE {})
          /\ UNCHANGED <<toShell, invocations>>
       \/ /\ msg.kind = "request"
          /\ IF appDocument[a].provides
             THEN /\ invocations' = invocations \union
                       {[app |-> a, id |-> msg.id, ref |-> msg.ref]}
                  /\ UNCHANGED toShell
             ELSE /\ toShell' = [toShell EXCEPT ![a] =
                       Append(@, BridgeResponse(msg.win, msg.id, FALSE, msg.ref))]
                  /\ UNCHANGED invocations
          /\ UNCHANGED <<appDocument, bridgeResults>>
    /\ UNCHANGED <<frames, binding, providerOf, answering, bridgeEffects>>

(* The handler of a provided capability ends, well or with an error. *)
AnswerInvocation(a) ==
    /\ \E i \in invocations, ok \in BOOLEAN :
         /\ i.app = a
         /\ invocations' = invocations \ {i}
         /\ toShell' = [toShell EXCEPT ![a] =
              Append(@, BridgeResponse(MountedWindow(frames[a]), i.id, ok, i.ref))]
    /\ UNCHANGED <<frames, binding, providerOf, appDocument, toApp, answering,
                   bridgeResults, bridgeEffects>>

----------------------------------------------------------------------------
(* The shell's end of the channels. *)

(* What the shell does with a request of the document.  An invocation      *)
(* another app may answer is left to finish later.                         *)
HandleRequest(a, msg) ==
    LET refuse == toApp' = PostedTo(toApp, a, msg.win,
                             BridgeResponse(msg.win, msg.id, FALSE, msg.ref)) IN
    \/ /\ ~Admits(a, msg.method)
       /\ refuse
       /\ UNCHANGED <<answering, bridgeEffects>>
    \/ /\ Admits(a, msg.method)
       /\ bridgeEffects' = bridgeEffects \union {<<a, msg.method>>}
       /\ IF msg.method = "os.capabilities.invoke"
          THEN /\ answering' = answering \union
                    {[app |-> a, win |-> msg.win, id |-> msg.id, ref |-> msg.ref,
                      stage |-> "server", provider |-> a, chan |-> 0, pid |-> 0,
                      made |-> msg.ref]}
               /\ UNCHANGED toApp
          ELSE /\ toApp' = PostedTo(toApp, a, msg.win,
                             BridgeResponse(msg.win, msg.id, TRUE, msg.ref))
               /\ UNCHANGED answering

(* The invocation that waits for this answer of a's window. *)
Awaits(c, a, msg) ==
    c.stage = "provider" /\ c.provider = a /\ c.chan = msg.win /\ c.pid = msg.id

(* A message of a document arrives.  The shell listens to the window it is *)
(* bound to; what another window posted is not for it.                     *)
ReceiveAtShell(a) ==
    LET msg == Head(toShell[a]) IN
    /\ toShell[a] # << >>
    /\ toShell' = [toShell EXCEPT ![a] = Tail(@)]
    /\ \/ /\ msg.win # binding[a].win
          /\ UNCHANGED <<binding, toApp, answering, bridgeEffects>>
       \/ /\ msg.win = binding[a].win /\ msg.kind = "hello"
          /\ binding' = [binding EXCEPT ![a].ready = TRUE]
          /\ toApp' = PostedTo(toApp, a, msg.win, Welcome(msg.win))
          /\ UNCHANGED <<answering, bridgeEffects>>
       \/ /\ msg.win = binding[a].win /\ msg.kind = "request"
          /\ HandleRequest(a, msg)
          /\ UNCHANGED binding
       \/ /\ msg.win = binding[a].win /\ msg.kind = "response"
          /\ answering' = {IF Awaits(c, a, msg)
                           THEN [c EXCEPT !.stage = IF msg.ok THEN "ok" ELSE "failed",
                                          !.made = msg.ref]
                           ELSE c : c \in answering}
          /\ UNCHANGED <<binding, toApp, bridgeEffects>>
    /\ UNCHANGED <<frames, providerOf, appDocument, invocations, bridgeResults>>

(* The server answers an invocation itself, refuses it, or names the app   *)
(* whose open window is to answer.                                         *)
ServerAnswers(c) ==
    /\ c.stage = "server"
    /\ \/ \E stage \in {"ok", "failed"} :
            answering' = (answering \ {c}) \union {[c EXCEPT !.stage = stage]}
       \/ \E p \in ProviderApps :
            answering' = (answering \ {c}) \union
              {IF providerOf[p] = 0 THEN [c EXCEPT !.stage = "failed"]
               ELSE [c EXCEPT !.stage = "ready", !.provider = p,
                              !.chan = providerOf[p]]}
    /\ UNCHANGED <<frames, binding, providerOf, appDocument, toShell, toApp,
                   invocations, bridgeResults, bridgeEffects>>

(* The provider's window said hello: the invocation is posted to it. *)
DeliverInvocation(c) ==
    LET p == c.provider
        pid == binding[p].seq + 1 IN
    /\ c.stage = "ready"
    /\ binding[p].win = c.chan /\ binding[p].ready
    /\ answering' = (answering \ {c}) \union
         {[c EXCEPT !.stage = "provider", !.pid = pid]}
    /\ binding' = [binding EXCEPT ![p].seq = pid]
    /\ toApp' = PostedTo(toApp, p, c.chan,
                  BridgeRequest(c.chan, pid, "provider.invoke", c.ref))
    /\ UNCHANGED <<frames, providerOf, appDocument, toShell, invocations,
                   bridgeResults, bridgeEffects>>

(* Neither readiness nor an answer is awaited for ever. *)
InvocationTimesOut(c) ==
    /\ c.stage \in {"ready", "provider"}
    /\ answering' = (answering \ {c}) \union {[c EXCEPT !.stage = "failed"]}
    /\ UNCHANGED <<frames, binding, providerOf, appDocument, toShell, toApp,
                   invocations, bridgeResults, bridgeEffects>>

(* The answer goes to the window that asked, whatever became of it. *)
AnswerDocument(c) ==
    /\ c.stage \in {"ok", "failed"}
    /\ answering' = answering \ {c}
    /\ toApp' = PostedTo(toApp, c.app, c.win,
                  BridgeResponse(c.win, c.id, c.stage = "ok", c.made))
    /\ UNCHANGED <<frames, binding, providerOf, appDocument, toShell, invocations,
                   bridgeResults, bridgeEffects>>

----------------------------------------------------------------------------
BridgeNext ==
    \/ \E a \in BridgeApps :
         \/ OpenFrame(a) \/ AttachBridge(a) \/ LaunchAnswered(a) \/ LaunchRefused(a)
         \/ RenewTimer(a) \/ Watchdog(a) \/ FrameUnreachable(a)
         \/ RetryFrame(a) \/ CloseFrame(a)
         \/ Connect(a) \/ RepeatHello(a) \/ ReloadDocument(a)
         \/ ProvideCapability(a) \/ CallTimesOut(a) \/ ReceiveAtApp(a)
         \/ AnswerInvocation(a) \/ ReceiveAtShell(a)
         \/ \E method \in CallKinds[a] : CallBridge(a, method)
    \/ \E c \in answering :
         ServerAnswers(c) \/ DeliverInvocation(c) \/ InvocationTimesOut(c)
           \/ AnswerDocument(c)

----------------------------------------------------------------------------
(* A call resolves with the result made for it, never with one for another *)
(* call of this or an earlier document, nor with one another invocation of *)
(* the same provider made, whatever timed out or reloaded in between.      *)
BridgeAnswersReachTheirCall == \A r \in bridgeResults : r[1] = r[2]

(* An app's registered provider channel is the one of the window that is   *)
(* mounted for it, which is the one the shell listens to.                  *)
ChannelsNameTheOpenWindow ==
    \A a \in BridgeApps : /\ providerOf[a] = binding[a].win
                          /\ binding[a].win \in {0, MountedWindow(frames[a])}

(* The shell carries out for an app only what the app declared. *)
EffectsAreDeclared ==
    \A e \in bridgeEffects : capabilityForMethod(e[2]) \in Declared[e[1]]
============================================================================
