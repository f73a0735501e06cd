----------------------------- MODULE AuditTrail ------------------------------
(***************************************************************************)
(* The audit log: the append-only table audit_event with its migration     *)
(* from the early schema (persistence-sqlite/src/audit_log.rs), what the   *)
(* gateway and the service append to it, the spool through which the       *)
(* operating system layer reports events (platform-buildroot/src/          *)
(* os_events.rs, read by ingest_os_events of the service), and the event   *)
(* monitor that pages through it (recovery_audit in                        *)
(* platform-web/src/server.rs).                                            *)
(*                                                                         *)
(* A row is the number of its event, counted over the whole behaviour; a   *)
(* line of the spool keeps the number its report was given.                *)
(***************************************************************************)
EXTENDS Integers, Sequences, SequencesExt, FiniteSets

CONSTANTS Reporters,        \* processes that append to the spool
          MaxAuditEvents,   \* events the behaviour may produce
          MaxAuditStops,    \* stops of the service, crashes included
          PageLimit,        \* the limit the event monitor asks for
          MaxOffset,        \* 1,000,000 in the code
          NoTable

ASSUME AuditBounds == {MaxAuditEvents, MaxAuditStops, PageLimit, MaxOffset} \subseteq Nat

VARIABLES events,           \* table audit_event, oldest row first
          legacy,           \* table audit_event_legacy
          oldSchema,        \* audit_event still has the CHECK on its actions
          phase,            \* "down", the migration statement to run next, or "up"
          unreadable,       \* rows whose actor decode() turns down
          spool,            \* the spool's lines: what was written, and if it ended
          reporter,         \* the event whose newline each reporter still owes
          processed,        \* lines this start has been through
          batch,            \* the lines read and not recorded yet
          changed,          \* an accepted change of operating mode to record
          monitor,          \* the event monitor: offset, events seen and due
          counted,          \* events so far
          auditStops

auditTables == <<events, legacy, oldSchema>>
spoolVars == <<spool, reporter>>
serviceVars == <<processed, batch, changed>>
auditVars == <<auditTables, phase, unreadable, spoolVars, serviceVars, monitor, counted,
               auditStops>>

NoReport == 0
MonitorClosed == [offset |-> -1, seen |-> {}, due |-> {}]

\* An installation from before the CHECK was dropped, with one event.
AuditInit ==
    /\ events = <<1>> /\ legacy = NoTable /\ oldSchema = TRUE /\ phase = "down"
    /\ unreadable = {}
    /\ spool = <<>> /\ reporter = [r \in Reporters |-> NoReport]
    /\ processed = 0 /\ batch = <<>> /\ changed = FALSE
    /\ monitor = MonitorClosed
    /\ counted = 1 /\ auditStops = 0

------------------------------------------------------------------------------
(* open: migrate and the CREATE ... IF NOT EXISTS batch.  Neither is a       *)
(* transaction, so every statement commits by itself.                       *)

NeedsMigration == events # NoTable /\ oldSchema

StartAudit ==
    /\ phase = "down"
    /\ phase' = IF NeedsMigration THEN "rename" ELSE "create"
    /\ UNCHANGED <<auditTables, unreadable, spoolVars, serviceVars, monitor, counted,
                   auditStops>>

\* ALTER TABLE ... RENAME fails when a legacy table is there; none can be, since the
\* only table with the early schema is the first one.
RenameTable ==
    /\ phase = "rename" /\ legacy = NoTable
    /\ legacy' = events /\ events' = NoTable /\ oldSchema' = FALSE
    /\ phase' = "recreate"

RecreateTable ==
    /\ phase = "recreate"
    /\ events' = <<>> /\ phase' = "copy"
    /\ UNCHANGED <<legacy, oldSchema>>


CopyRows ==
    /\ phase = "copy"
    /\ events' = legacy /\ phase' = "drop"
    /\ UNCHANGED <<legacy, oldSchema>>

DropLegacy ==
    /\ phase = "drop"
    /\ legacy' = NoTable /\ phase' = "create"
    /\ UNCHANGED <<events, oldSchema>>

\* CREATE TABLE IF NOT EXISTS and the triggers that keep the table append-only; then
\* the service records its start and begins to read the spool from its first line.
FinishOpen ==
    /\ phase = "create" /\ counted < MaxAuditEvents
    /\ counted' = counted + 1
    /\ events' = Append(IF events = NoTable THEN <<>> ELSE events, counted + 1)
    /\ phase' = "up"
    /\ processed' = 0 /\ batch' = <<>>
    /\ UNCHANGED <<legacy, oldSchema, unreadable, spoolVars, changed, monitor, auditStops>>

Migrate ==
    /\ \/ RenameTable
       \/ RecreateTable
       \/ CopyRows
       \/ DropLegacy
    /\ UNCHANGED <<unreadable, spoolVars, serviceVars, monitor, counted, auditStops>>

\* A crash at any point, or a stop that records SystemStopped first.
StopAudit(orderly) ==
    /\ phase # "down" /\ auditStops < MaxAuditStops
    /\ orderly => phase = "up" /\ counted < MaxAuditEvents
    /\ events' = IF orderly THEN Append(events, counted + 1) ELSE events
    /\ counted' = IF orderly THEN counted + 1 ELSE counted
    /\ phase' = "down" /\ auditStops' = auditStops + 1
    /\ processed' = 0 /\ batch' = <<>> /\ changed' = FALSE
    /\ UNCHANGED <<legacy, oldSchema, unreadable, spoolVars, monitor>>

------------------------------------------------------------------------------
(* What the gateway appends. *)

\* record_audit: one INSERT under the connection's mutex.  The name of an app in a
\* shell report is written as it came, and only decode() asks for a valid one.
RecordEvent(validActor) ==
    /\ phase = "up" /\ counted < MaxAuditEvents
    /\ counted' = counted + 1
    /\ events' = Append(events, counted + 1)
    /\ unreadable' = IF validActor THEN unreadable ELSE unreadable \union {counted + 1}
    /\ UNCHANGED <<legacy, oldSchema, phase, spoolVars, serviceVars, monitor, auditStops>>

\* AuditedOsModeRepository: the mode is stored first and the event is written after.
StoreAuditedChange ==
    /\ phase = "up" /\ ~changed
    /\ changed' = TRUE
    /\ UNCHANGED <<auditTables, phase, unreadable, spoolVars, processed, batch, monitor,
                   counted, auditStops>>

RecordChange ==
    /\ phase = "up" /\ changed /\ counted < MaxAuditEvents
    /\ counted' = counted + 1
    /\ events' = Append(events, counted + 1)
    /\ changed' = FALSE
    /\ UNCHANGED <<legacy, oldSchema, phase, unreadable, spoolVars, processed, batch,
                   monitor, auditStops>>

------------------------------------------------------------------------------
(* The spool. *)

\* writeln! to a file opened for appending writes the text and then the newline, so
\* two reporters may end up on one line, which is no JSON any more.
WriteReport(r) ==
    /\ reporter[r] = NoReport /\ counted < MaxAuditEvents
    /\ counted' = counted + 1
    /\ spool' = IF spool # <<>> /\ ~Last(spool).ended
                THEN [spool EXCEPT ![Len(spool)].text = Append(@, counted + 1)]
                ELSE Append(spool, [text |-> <<counted + 1>>, ended |-> FALSE])
    /\ reporter' = [reporter EXCEPT ![r] = counted + 1]
    /\ UNCHANGED <<auditTables, phase, unreadable, serviceVars, monitor, auditStops>>

EndReport(r) ==
    /\ reporter[r] # NoReport
    /\ spool' = IF Last(spool).ended
                THEN Append(spool, [text |-> <<>>, ended |-> TRUE])
                ELSE [spool EXCEPT ![Len(spool)].ended = TRUE]
    /\ reporter' = [reporter EXCEPT ![r] = NoReport]
    /\ UNCHANGED <<auditTables, phase, unreadable, serviceVars, monitor, counted, auditStops>>

\* A tick that finds more lines than it has been through; the last may still lack its
\* newline and counts all the same.
ReadSpool ==
    /\ phase = "up" /\ batch = <<>> /\ Len(spool) > processed
    /\ batch' = SelectSeq(SubSeq(spool, processed + 1, Len(spool)),
                          LAMBDA line : Len(line.text) = 1)
    /\ processed' = Len(spool)
    /\ UNCHANGED <<auditTables, phase, unreadable, spoolVars, changed, monitor, counted,
                   auditStops>>

RecordLine ==
    /\ phase = "up" /\ batch # <<>>
    /\ events' = Append(events, Head(batch).text[1])
    /\ batch' = Tail(batch)
    /\ UNCHANGED <<legacy, oldSchema, phase, unreadable, spoolVars, processed, changed,
                   monitor, counted, auditStops>>

------------------------------------------------------------------------------
(* The event monitor. *)

OpenMonitor ==
    /\ phase = "up" /\ monitor = MonitorClosed
    /\ monitor' = [offset |-> 0, seen |-> {}, due |-> Range(events)]
    /\ UNCHANGED <<auditTables, phase, unreadable, spoolVars, serviceVars, counted,
                   auditStops>>

\* ORDER BY sequence DESC LIMIT ? OFFSET ?.
Page(offset) ==
    LET from == IF offset < MaxOffset THEN offset ELSE MaxOffset
        newestFirst == Reverse(events)
    IN SubSeq(newestFirst, from + 1,
              IF from + PageLimit <= Len(events) THEN from + PageLimit ELSE Len(events))

\* nextOffset, or null (-2) after a page that was not full.
NextOffset(offset, page) ==
    IF Len(page) = PageLimit THEN offset + Len(page) ELSE -2

\* A page with a row that does not decode is refused as a whole.
ReadPage ==
    LET page == Page(monitor.offset) IN
    /\ phase = "up" /\ monitor.offset >= 0
    /\ Range(page) \intersect unreadable = {}
    /\ monitor' = [monitor EXCEPT !.seen = @ \union Range(page),
                                  !.offset = NextOffset(@, page)]
    /\ UNCHANGED <<auditTables, phase, unreadable, spoolVars, serviceVars, counted,
                   auditStops>>

AuditStep ==
    \/ StartAudit
    \/ Migrate
    \/ FinishOpen
    \/ \E orderly \in BOOLEAN : StopAudit(orderly)
    \/ \E validActor \in BOOLEAN : RecordEvent(validActor)
    \/ StoreAuditedChange
    \/ RecordChange

SpoolStep ==
    \/ \E r \in Reporters : WriteReport(r) \/ EndReport(r)
    \/ ReadSpool
    \/ RecordLine

MonitorStep == OpenMonitor \/ ReadPage

AuditNext == AuditStep \/ SpoolStep \/ MonitorStep

AuditSpec == AuditInit /\ [][AuditNext]_auditVars

------------------------------------------------------------------------------
(* Properties *)

Rows(table) == IF table = NoTable THEN {} ELSE Range(table)


\* A monitor that has followed nextOffset to its end has seen every event that was in
\* the log when it opened it, although events were appended between its pages.
PagingMissesNothing == monitor.offset = -2 => monitor.due \subseteq monitor.seen

------------------------------------------------------------------------------
(***************************************************************************)
(* What an audit event comes to in its row and back (core/src/platform/    *)
(* audit.rs, persistence-sqlite/src/audit_log.rs): the texts of actions,   *)
(* outcomes and actors, the optional target, and the queries that filter   *)
(* the rows by those texts.                                                *)
(*                                                                         *)
(* A name or a target is a record of what the code asks of it: its length  *)
(* and whether a control character is in it.  The text of an actor is its  *)
(* prefix and the rest.                                                    *)
(***************************************************************************)
CONSTANTS EventInputs,     \* the events a handler may report
          Filters,         \* the queries a person may ask
          MaxAuditRows,    \* bound on the rows
          NotGiven           \* no target, no filter

ASSUME AuditRowBounds == MaxAuditRows \in Nat

VARIABLES rows,            \* table audit_event, oldest row first
          reported         \* the events behind them

rowVars == <<rows, reported>>

MaxTargetBytes == 256

ActionText ==
    [SignIn |-> "sign-in", SignInFailed |-> "sign-in-failed", SignOut |-> "sign-out",
     Reauthenticate |-> "reauthenticate", ReauthenticateFailed |-> "reauthenticate-failed",
     OsModeChanged |-> "os-mode-changed", AppLaunched |-> "app-launched",
     AppLaunchFailed |-> "app-launch-failed", AppRuntimeStarted |-> "app-runtime-started",
     AppRuntimeStopped |-> "app-runtime-stopped", AppInstalled |-> "app-installed",
     AppUninstalled |-> "app-uninstalled", AppImported |-> "app-imported",
     CapabilityInvoked |-> "capability-invoked", CapabilityDenied |-> "capability-denied",
     AppCrashed |-> "app-crashed", AppUnresponsive |-> "app-unresponsive",
     ServiceStarted |-> "service-started", ServiceStopped |-> "service-stopped",
     ServiceStale |-> "service-stale", ServiceRecovered |-> "service-recovered",
     SelfHeal |-> "self-heal", Maintenance |-> "maintenance",
     SystemStarted |-> "system-started", SystemStopped |-> "system-stopped",
     Activity |-> "activity"]

ParseAction(text) == {a \in DOMAIN ActionText : ActionText[a] = text}

OutcomeText == [Success |-> "success", Denied |-> "denied", Failure |-> "failure"]

ParseOutcome(text) == {o \in DOMAIN OutcomeText : OutcomeText[o] = text}

ValidActorName(name) == name.length \in 1 .. MaxTargetBytes /\ ~name.control

ActorPrefix == [User |-> "user:", Service |-> "service:", App |-> "app:",
                System |-> "system", Os |-> "os"]

EncodedActor(actor) == <<ActorPrefix[actor.kind], actor.name>>

\* The actors a text stands for: one, or none when the text is refused.  The rest of
\* a user's text is an identifier, any other name has to be valid.
DecodedActor(text) ==
    {[kind |-> k, name |-> text[2]] : k \in
        {k \in DOMAIN ActorPrefix :
            /\ ActorPrefix[k] = text[1]
            /\ k = "User" => text[2].uuid
            /\ k \in {"Service", "App"} => ValidActorName(text[2])}}

ValidTarget(t) == t.length \in 1 .. MaxTargetBytes /\ ~t.control

\* record_audit: an event whose target is refused is recorded without one.
WithTarget(e) ==
    IF e.target = NotGiven \/ ValidTarget(e.target) THEN e ELSE [e EXCEPT !.target = NotGiven]

(* Mutant: the target is not stored. *)
RowWithoutTarget(e) ==
    [at |-> e.at, actor |-> EncodedActor(e.actor), action |-> ActionText[e.action],
     target |-> NotGiven, outcome |-> OutcomeText[e.outcome]]

RowOf(e) ==
    [at |-> e.at, actor |-> EncodedActor(e.actor), action |-> ActionText[e.action],
     target |-> e.target, outcome |-> OutcomeText[e.outcome]]

RowDecodes(row) ==
    /\ DecodedActor(row.actor) # {}
    /\ ParseAction(row.action) # {}
    /\ ParseOutcome(row.outcome) # {}

DecodedRow(row) ==
    [at |-> row.at, actor |-> CHOOSE a \in DecodedActor(row.actor) : TRUE,
     action |-> CHOOSE a \in ParseAction(row.action) : TRUE, target |-> row.target,
     outcome |-> CHOOSE o \in ParseOutcome(row.outcome) : TRUE]

\* recovery_audit: the filter's own texts have to parse.
FilterReads(f) ==
    /\ f.action # NotGiven => ParseAction(f.action) # {}
    /\ f.actor # NotGiven => DecodedActor(f.actor) # {}
    /\ f.outcome # NotGiven => ParseOutcome(f.outcome) # {}
    /\ f.target # NotGiven => f.target.length \in 1 .. MaxTargetBytes

RowMatches(f, row) ==
    /\ f.action \in {NotGiven, row.action}
    /\ f.actor \in {NotGiven, row.actor}
    /\ f.outcome \in {NotGiven, row.outcome}
    /\ f.target \in {NotGiven, row.target}
    /\ row.at >= f.since

RecentLimit == 1000

\* ORDER BY sequence DESC LIMIT.
Newest(selected) ==
    LET newestFirst == Reverse(selected)
    IN  SubSeq(newestFirst, 1, IF Len(selected) < RecentLimit THEN Len(selected) ELSE RecentLimit)

QuerySystem(f) == Newest(SelectSeq(rows, LAMBDA row : RowMatches(f, row)))

\* recent: what a person sees of their own.
Recent(user) ==
    Newest(SelectSeq(rows, LAMBDA row : row.actor = EncodedActor(user)))

RecentTarget(t) ==
    Newest(SelectSeq(rows, LAMBDA row : t # NotGiven /\ row.target = t))

RowsInit == rows = <<>> /\ reported = <<>>

RecordRow(e) ==
    /\ Len(rows) < MaxAuditRows
    /\ rows' = Append(rows, RowOf(WithTarget(e)))
    /\ reported' = Append(reported, WithTarget(e))

RowsNext == \E e \in EventInputs : RecordRow(e)

RowsSpec == RowsInit /\ [][RowsNext]_rowVars

------------------------------------------------------------------------------

DecodedAll(page) == [n \in DOMAIN page |-> DecodedRow(page[n])]

PageReads(page) == \A n \in DOMAIN page : RowDecodes(page[n])

EventsWhere(Test(_)) == Reverse(SelectSeq(reported, Test))

\* A query that can be answered is answered with the very events that were reported,
\* newest first: those the filter asks for, those of the person who asks, those about
\* one target.  A row whose actor does not decode makes the page it is on unreadable,
\* and no other page.
QueriesAnswerWhatWasReported ==
    /\ \A f \in Filters : FilterReads(f) /\ PageReads(QuerySystem(f)) =>
           DecodedAll(QuerySystem(f)) = EventsWhere(LAMBDA e :
               /\ f.action # NotGiven => ParseAction(f.action) = {e.action}
               /\ f.actor # NotGiven => DecodedActor(f.actor) = {e.actor}
               /\ f.outcome # NotGiven => ParseOutcome(f.outcome) = {e.outcome}
               /\ f.target # NotGiven => e.target = f.target
               /\ e.at >= f.since)
    /\ \A n \in DOMAIN reported :
           /\ LET user == reported[n].actor IN
              user.kind = "User" =>
                  DecodedAll(Recent(user)) = EventsWhere(LAMBDA e : e.actor = user)
           /\ LET t == reported[n].target IN
              t # NotGiven /\ PageReads(RecentTarget(t)) =>
                  DecodedAll(RecentTarget(t)) = EventsWhere(LAMBDA e : e.target = t)
==============================================================================
