---------------------------- MODULE AppChannels ----------------------------
(***************************************************************************)
(* How a running app is reached from outside its container: the persistent *)
(* channel it holds to the appliance, and the screen it streams to a       *)
(* browser.  The two share no state.                                       *)
(***************************************************************************)
EXTENDS Integers, Sequences, FiniteSets

(***************************************************************************)
(* The persistent channel between a running app and the appliance: the     *)
(* token store, the thread of each connection, the registry of live        *)
(* channels, and the threads that execute a capability or deliver an event *)
(* over one of them.                                                       *)
(*                                                                         *)
(* A connection thread reads the hello, registers, resolves results until  *)
(* the app stops sending, fails the requests it still holds, and only then *)
(* unregisters.  A caller takes the channel out of the registry under its  *)
(* lock and uses it after releasing the lock, so the connection may end    *)
(* between any two of the caller's steps.                                  *)
(***************************************************************************)
CONSTANTS
    ChannelApps,    \* installations
    Links,          \* connections: each is accepted once
    Callers,        \* threads that call into an app
    MaxTokens,      \* bound: tokens ever issued
    MaxCalls,       \* bound: calls ever made
    MaxInbox,       \* bound: results on their way from one app
    NoLink,         \* no channel is registered
    NoApp           \* a token no installation owns

ASSUME ChannelNamesDiffer == NoLink \notin Links /\ NoApp \notin ChannelApps

VARIABLES
    tokens,     \* tokens[t]: the installation that token t identifies
    channels,   \* the registry: the connection of each installation
    link,       \* the state of each connection
    caller,     \* the state of each calling thread
    calls       \* calls made so far

channelVars == <<tokens, channels, link, caller, calls>>

(***************************************************************************)
(* pc of a connection: "new" (not accepted), "hello" (authenticated, not   *)
(* registered), "serving", "ended" (the reader saw the end), "drained"     *)
(* (its requests were failed), "closed".  open says which directions the   *)
(* app still has open; sent are the frames the app has not answered, and   *)
(* inbox the results on their way back.  pending pairs a request id with   *)
(* the thread waiting for it.  call is the number of the call a frame belongs  *)
(* to: it stands for the payload, and whether the result is a success or   *)
(* an error is left to the payload.                                        *)
(***************************************************************************)
NewLink ==
    [pc |-> "new", app |-> NoApp, open |-> "none", pending |-> {},
     sequence |-> 0, sent |-> {}, inbox |-> <<>>]

\* pending.remove(&id)
WithoutRequest(pending, i) == {p \in pending : p.id # i}

IdleCaller ==
    [pc |-> "idle", op |-> "none", link |-> NoLink, id |-> 0, call |-> 0,
     answer |-> <<>>]

ChannelInit ==
    /\ tokens = <<>>
    /\ channels = [a \in ChannelApps |-> NoLink]
    /\ link = [l \in Links |-> NewLink]
    /\ caller = [c \in Callers |-> IdleCaller]
    /\ calls = 0

---------------------------------------------------------------------------
(* The token store.                                                        *)

IssueToken(a) ==
    /\ Len(tokens) < MaxTokens
    /\ tokens' = Append([t \in DOMAIN tokens |->
                            IF tokens[t] = a THEN NoApp ELSE tokens[t]], a)
    /\ UNCHANGED <<channels, link, caller, calls>>

RevokeTokens(a) ==
    /\ \E t \in DOMAIN tokens : tokens[t] = a
    /\ tokens' = [t \in DOMAIN tokens |->
                     IF tokens[t] = a THEN NoApp ELSE tokens[t]]
    /\ UNCHANGED <<channels, link, caller, calls>>

AuthenticateToken(a, t) == t \in DOMAIN tokens /\ tokens[t] = a

---------------------------------------------------------------------------
(* The thread of a connection.                                             *)

\* The app connects and says hello; one that is not authenticated is dropped.
ReadHello(l, a, t) ==
    /\ link[l].pc = "new"
    /\ link' = [link EXCEPT ![l] =
          IF AuthenticateToken(a, t)
          THEN [@ EXCEPT !.pc = "hello", !.app = a, !.open = "both"]
          ELSE [@ EXCEPT !.pc = "closed"]]
    /\ UNCHANGED <<tokens, channels, caller, calls>>

\* An installation that already has a channel keeps it; the newcomer goes.
RegisterChannel(l) ==
    /\ link[l].pc = "hello"
    /\ IF channels[link[l].app] = NoLink
       THEN /\ channels' = [channels EXCEPT ![link[l].app] = l]
            /\ link' = [link EXCEPT ![l].pc = "serving"]
       ELSE /\ link' = [link EXCEPT ![l].pc = "closed", ![l].open = "none"]
            /\ UNCHANGED channels
    /\ UNCHANGED <<tokens, caller, calls>>

\* A result wakes the thread that waits under its id; any other is ignored.
ResolveResult(l) ==
    /\ link[l].pc = "serving"
    /\ link[l].inbox # <<>>
    /\ LET frame == Head(link[l].inbox)
       IN  /\ link' = [link EXCEPT ![l].inbox = Tail(@),
                                   ![l].pending = WithoutRequest(@, frame.id)]
           /\ caller' = [c \in Callers |->
                 IF [id |-> frame.id, waiter |-> c] \in link[l].pending
                 THEN [caller[c] EXCEPT !.answer = <<frame.call>>]
                 ELSE caller[c]]
    /\ UNCHANGED <<tokens, channels, calls>>

ReadEnd(l) ==
    /\ link[l].pc = "serving"
    /\ link[l].inbox = <<>>
    /\ link[l].open # "both"
    /\ link' = [link EXCEPT ![l].pc = "ended"]
    /\ UNCHANGED <<tokens, channels, caller, calls>>

\* disconnect: every request still pending is answered with an error.
DisconnectLink(l) ==
    /\ link[l].pc = "ended"
    /\ link' = [link EXCEPT ![l].pc = "drained", ![l].pending = {}]
    /\ caller' = [c \in Callers |->
          IF \E p \in link[l].pending : p.waiter = c
          THEN [caller[c] EXCEPT !.answer = <<caller[c].call>>]
          ELSE caller[c]]
    /\ UNCHANGED <<tokens, channels, calls>>

\* unregister names the installation, not the connection.
UnregisterChannel(l) ==
    /\ link[l].pc = "drained"
    /\ channels' = [channels EXCEPT ![link[l].app] = NoLink]
    /\ link' = [link EXCEPT ![l].pc = "closed"]
    /\ UNCHANGED <<tokens, caller, calls>>

---------------------------------------------------------------------------
(* A thread that executes a capability or delivers an event.               *)

FinishCall(c) == caller' = [caller EXCEPT ![c] = IdleCaller]

\* Registry lookup: the channel is cloned and the lock released.
TakeChannel(c, a, op) ==
    /\ caller[c].pc = "idle"
    /\ calls < MaxCalls
    /\ channels[a] # NoLink
    /\ calls' = calls + 1
    /\ caller' = [caller EXCEPT ![c] =
          [@ EXCEPT !.pc = IF op = "execute" THEN "insert" ELSE "write",
                    !.op = op, !.link = channels[a], !.call = calls + 1]]
    /\ UNCHANGED <<tokens, channels, link>>

(* Mutant: an id is used again once it is free. *)
InsertRequestReusingIds(c) ==
    /\ caller[c].pc = "insert"
    /\ LET l == caller[c].link
           i == Cardinality(link[l].pending)
       IN  /\ link' = [link EXCEPT ![l].pending = @ \union {[id |-> i, waiter |-> c]}]
           /\ caller' = [caller EXCEPT ![c].pc = "write", ![c].id = i]
    /\ UNCHANGED <<tokens, channels, calls>>

\* A request takes the next id and joins the pending map.
InsertRequest(c) ==
    /\ caller[c].pc = "insert"
    /\ LET l == caller[c].link
           i == link[l].sequence
       IN  /\ link' = [link EXCEPT ![l].pending = @ \union {[id |-> i, waiter |-> c]},
                                   ![l].sequence = i + 1]
           /\ caller' = [caller EXCEPT ![c].pc = "write", ![c].id = i]
    /\ UNCHANGED <<tokens, channels, calls>>

\* The frame reaches an app that still reads; otherwise the write fails and
\* the request leaves the pending map.
WriteFrame(c) ==
    /\ caller[c].pc = "write"
    /\ LET l == caller[c].link
           i == caller[c].id
       IN  IF link[l].open = "none"
           THEN /\ link' = IF caller[c].op = "execute"
                           THEN [link EXCEPT ![l].pending = WithoutRequest(@, i)]
                           ELSE link
                /\ FinishCall(c)
           ELSE IF caller[c].op = "execute"
           THEN /\ link' = [link EXCEPT ![l].sent =
                               @ \union {[id |-> i, call |-> caller[c].call]}]
                /\ caller' = [caller EXCEPT ![c].pc = "waiting"]
           ELSE /\ FinishCall(c)
                /\ UNCHANGED link
    /\ UNCHANGED <<tokens, channels, calls>>

ReceiveAnswer(c) ==
    /\ caller[c].pc = "waiting"
    /\ caller[c].answer # <<>>
    /\ FinishCall(c)
    /\ UNCHANGED <<tokens, channels, link, calls>>

\* The time limit: the request leaves the pending map.
TimeOut(c) ==
    /\ caller[c].pc = "waiting"
    /\ caller[c].answer = <<>>
    /\ LET l == caller[c].link
       IN link' = [link EXCEPT ![l].pending =
                      WithoutRequest(@, caller[c].id)]
    /\ FinishCall(c)
    /\ UNCHANGED <<tokens, channels, calls>>

---------------------------------------------------------------------------
(* The app's side of the socket.                                           *)

\* A result for a request it was sent: late, or a second time, is possible.
AppAnswers(l) ==
    /\ link[l].pc \in {"serving", "ended", "drained"}
    /\ link[l].open = "both"
    /\ Len(link[l].inbox) < MaxInbox
    /\ \E frame \in link[l].sent :
          link' = [link EXCEPT ![l].inbox = Append(@, frame)]
    /\ UNCHANGED <<tokens, channels, caller, calls>>

\* The app stops sending, or goes away altogether.
AppCloses(l, open) ==
    /\ link[l].open = "both" \/ (link[l].open = "reading" /\ open = "none")
    /\ link' = [link EXCEPT ![l].open = open]
    /\ UNCHANGED <<tokens, channels, caller, calls>>

---------------------------------------------------------------------------
CallerStep(c) ==
    InsertRequest(c) \/ WriteFrame(c) \/ ReceiveAnswer(c) \/ TimeOut(c)

LinkStep(l) ==
    \/ RegisterChannel(l) \/ ResolveResult(l) \/ ReadEnd(l)
    \/ DisconnectLink(l) \/ UnregisterChannel(l)

ChannelNext ==
    \/ \E a \in ChannelApps : IssueToken(a) \/ RevokeTokens(a)
    \/ \E l \in Links, a \in ChannelApps, t \in 1 .. MaxTokens :
          t <= Len(tokens) /\ ReadHello(l, a, t)
    \/ \E l \in Links : LinkStep(l)
    \/ \E l \in Links : AppAnswers(l)
    \/ \E l \in Links, open \in {"reading", "none"} : AppCloses(l, open)
    \/ \E c \in Callers, a \in ChannelApps, op \in {"execute", "deliver"} :
          TakeChannel(c, a, op)
    \/ \E c \in Callers : CallerStep(c)

ChannelSpec == ChannelInit /\ [][ChannelNext]_channelVars

---------------------------------------------------------------------------
(* Properties.                                                             *)

\* The registry and the connection threads agree: an installation's channel
\* is a connection that is registered and not yet unregistered, and every
\* such connection is the channel of its own installation.  unregister names
\* only the installation, so this is what keeps the end of an old connection
\* from removing the channel of the app's new one.
ChannelIsItsConnection ==
    \A a \in ChannelApps, l \in Links :
        channels[a] = l <=> /\ link[l].app = a
                            /\ link[l].pc \in {"serving", "ended", "drained"}

\* A thread receives the answer to its own call and to no other, whatever
\* late or repeated results the app sends: the ids of one connection are
\* never reused and each connection has its own pending map.
ChannelAnswersTheCall ==
    \A c \in Callers :
        caller[c].answer # <<>> => caller[c].answer[1] = caller[c].call

\* A pending entry is always the entry of a thread that is still in its
\* request, under that request's id: a refused write, a time limit and a
\* result each take their entry out, so nothing is left behind in the map.
PendingIsInFlight ==
    \A l \in Links : \A p \in link[l].pending :
        /\ caller[p.waiter].pc \in {"write", "waiting"}
        /\ caller[p.waiter].link = l
        /\ caller[p.waiter].id = p.id
        /\ caller[p.waiter].answer = <<>>

-----------------------------------------------------------------------------
(***************************************************************************)
(* The streamed screen of an app, for one stream id: the registration of   *)
(* its endpoint, whose token is provisioned over a socket while only the   *)
(* registration lock is held, and the tickets a browser needs to open it.  *)
(* Issuing and checking a ticket each read the endpoint and take the lock  *)
(* on the tickets afterwards, so the endpoint may have been removed and    *)
(* registered again in between.                                            *)
(***************************************************************************)
CONSTANTS
    StreamSessions,     \* shell sessions
    Viewers,            \* request threads
    TicketTime,         \* lifetime of a ticket, in ticks (60 s)
    MaxEndpointTokens,  \* bound: endpoints ever made
    MaxTickets,         \* bound: tickets ever issued
    MaxStreamTicks      \* bound: the clock

ASSUME StreamBounds == TicketTime \in Nat /\ MaxTickets \in Nat

VARIABLES
    endpoint,       \* the registered endpoint, in a set of at most one
    candidate,      \* the endpoint being provisioned, likewise
    minted,         \* endpoint tokens made so far
    tickets,        \* the grants: at most one for each session
    ticketFor,      \* history: ticketFor[n] is the endpoint token of ticket n
    streamTicks,    \* the clock
    viewer          \* the state of each thread

streamVars == <<endpoint, candidate, minted, tickets, ticketFor, streamTicks, viewer>>

Endpoint == [owner : StreamSessions, token : Nat]

IdleViewer == [pc |-> "idle", endpoint |-> {}, ticket |-> 0]

StreamInit ==
    /\ endpoint = {}
    /\ candidate = {}
    /\ minted = 0
    /\ tickets = {}
    /\ ticketFor = <<>>
    /\ streamTicks = 0
    /\ viewer = [v \in Viewers |-> IdleViewer]

\* register_selkies up to the await: an id that is registered is refused
BeginRegister(s) ==
    /\ candidate = {}
    /\ endpoint = {}
    /\ minted < MaxEndpointTokens
    /\ minted' = minted + 1
    /\ candidate' = {[owner |-> s, token |-> minted']}
    /\ UNCHANGED <<endpoint, tickets, ticketFor, streamTicks, viewer>>

\* provision_selkies_token fails or takes longer than five seconds
ProvisionFails ==
    /\ candidate # {}
    /\ candidate' = {}
    /\ UNCHANGED <<endpoint, minted, tickets, ticketFor, streamTicks, viewer>>

FinishRegister ==
    /\ candidate # {}
    /\ endpoint' = candidate
    /\ candidate' = {}
    /\ UNCHANGED <<minted, tickets, ticketFor, streamTicks, viewer>>

RemoveEndpoint ==
    /\ endpoint # {}
    /\ endpoint' = {}
    /\ UNCHANGED <<candidate, minted, tickets, ticketFor, streamTicks, viewer>>

\* RegisteredStreamProvider::resolve: only its owner sees an endpoint
Resolve(s) == {e \in endpoint : e.owner = s}

BeginIssue(v, s) ==
    /\ viewer[v].pc = "idle"
    /\ Resolve(s) # {}
    /\ viewer' = [viewer EXCEPT ![v] =
           [pc |-> "issuing", endpoint |-> Resolve(s), ticket |-> 0]]
    /\ UNCHANGED <<endpoint, candidate, minted, tickets, ticketFor, streamTicks>>

InsertTicket(v) ==
    /\ viewer[v].pc = "issuing"
    /\ Len(ticketFor) < MaxTickets
    /\ \E e \in viewer[v].endpoint :
           /\ tickets' =
                  {t \in tickets : t.expires > streamTicks /\ t.session # e.owner}
                  \cup {[session |-> e.owner, ticket |-> Len(ticketFor) + 1,
                         token |-> e.token, expires |-> streamTicks + TicketTime]}
           /\ ticketFor' = Append(ticketFor, e.token)
    /\ viewer' = [viewer EXCEPT ![v] = IdleViewer]
    /\ UNCHANGED <<endpoint, candidate, minted, streamTicks>>

BeginAuthorize(v, s, n) ==
    /\ viewer[v].pc = "idle"
    /\ Resolve(s) # {}
    /\ viewer' = [viewer EXCEPT ![v] =
           [pc |-> "authorizing", endpoint |-> Resolve(s), ticket |-> n]]
    /\ UNCHANGED <<endpoint, candidate, minted, tickets, ticketFor, streamTicks>>

Accepts(t, e, n) ==
    /\ t.session = e.owner
    /\ t.expires > streamTicks
    /\ t.ticket = n
    /\ t.token = e.token

CheckTicket(v) ==
    /\ viewer[v].pc = "authorizing"
    /\ LET allowed == \E t \in tickets, e \in viewer[v].endpoint :
                          Accepts(t, e, viewer[v].ticket)
       IN  viewer' = [viewer EXCEPT ![v] = IF allowed THEN [@ EXCEPT !.pc = "open"]
                                           ELSE IdleViewer]
    /\ UNCHANGED <<endpoint, candidate, minted, tickets, ticketFor, streamTicks>>

CloseStream(v) ==
    /\ viewer[v].pc = "open"
    /\ viewer' = [viewer EXCEPT ![v] = IdleViewer]
    /\ UNCHANGED <<endpoint, candidate, minted, tickets, ticketFor, streamTicks>>

StreamClock ==
    /\ streamTicks < MaxStreamTicks
    /\ streamTicks' = streamTicks + 1
    /\ UNCHANGED <<endpoint, candidate, minted, tickets, ticketFor, viewer>>

ViewerStep(v) ==
    \/ \E s \in StreamSessions : BeginIssue(v, s)
    \/ InsertTicket(v)
    \/ \E s \in StreamSessions, n \in 1 .. Len(ticketFor) : BeginAuthorize(v, s, n)
    \/ CheckTicket(v)
    \/ CloseStream(v)

StreamNext ==
    \/ \E s \in StreamSessions : BeginRegister(s)
    \/ ProvisionFails \/ FinishRegister \/ RemoveEndpoint
    \/ \E v \in Viewers : ViewerStep(v)
    \/ StreamClock

StreamSpec == StreamInit /\ [][StreamNext]_streamVars

(***************************************************************************)
(* A ticket opens the endpoint it was issued for and no other: one that    *)
(* was issued before the stream was removed and registered again, or whose *)
(* issue overlapped that, does not open the new endpoint.                  *)
(***************************************************************************)
TicketsOpenTheirEndpoint ==
    \A v \in Viewers :
        viewer[v].pc = "open" =>
            \A e \in viewer[v].endpoint : ticketFor[viewer[v].ticket] = e.token
=============================================================================
