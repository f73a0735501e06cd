------------------------- MODULE SupervisorProtocol -------------------------
(***************************************************************************)
(* The three socket protocols between the platform service and the         *)
(* runtime supervisor: runtime control, runtime secrets, image import.     *)
(* A request is a header and length-prefixed fields, written piece by      *)
(* piece on a connection of its own and ended by closing the writing       *)
(* side; the client may be gone, and the connection cut, after any piece.  *)
(* The server reads, parses, calls its target and writes a short answer,   *)
(* which may be cut in the same way.                                       *)
(*                                                                         *)
(* A piece is the header's magic, operation or field count, a field's      *)
(* length (four bytes in the code) or one unit of a field's text.  What a  *)
(* target does is RuntimeSupervisor's subject: here it is any outcome.     *)
(***************************************************************************)
EXTENDS Integers, Sequences, SequencesExt, FiniteSets

CONSTANTS
    FieldTexts,      \* the texts the identifier and path parsers accept
    RuntimeRequests, \* the runtime requests the platform makes
    SecretRequests,
    ImageRequests,
    CommandLines,    \* the option lists the supervisor is started with
    ProtocolFieldLimit,  \* MAX_FIELD_LENGTH, MAX_STRING_FIELD
    RequestLimit,    \* MAX_REQUEST_LENGTH
    ArchiveLimit,    \* MAX_ARCHIVE_BYTES
    EntrypointLimit, \* MAX_ENTRYPOINTS
    NoRequest

VARIABLES
    supervisor,  \* "down", "up", or the protocols whose sockets are bound so far
    exchange,    \* the client's side of the conversation
    inbound,     \* the pieces that reached the server
    inboundEnds, \* whether the client's writing side is closed
    serving,     \* the server's side of the conversation
    outbound,    \* the pieces of the answer that reached the client
    outboundEnds,
    acted        \* what the target was asked in this conversation and said

protocolVars == <<supervisor, exchange, inbound, inboundEnds, serving, outbound,
                  outboundEnds, acted>>

Protocols == {"runtime", "secrets", "images"}

Magic == [runtime |-> "RRP1", secrets |-> "RSH1", images |-> "DPI1"]

SpecOperations == {"prepare", "activate"}

IdOperations == {"state", "deactivate", "remove"}

-----------------------------------------------------------------------------
(* Encoding. *)

EncodeEntrypoint(entry) == <<entry.id, <<entry.target>>, entry.path>>

EncodeSpec(spec) ==
    <<spec.installation, spec.app, spec.publisher, spec.version, <<spec.kind>>>>
        \o FlattenSeq([n \in 1 .. Len(spec.entrypoints) |->
                          EncodeEntrypoint(spec.entrypoints[n])])

RuntimeFields(request) ==
    IF request.operation \in SpecOperations THEN EncodeSpec(request.spec)
                                            ELSE <<request.installation>>

SecretFields(request) ==
    IF request.operation = "deliver"
    THEN <<request.journal, request.installation, request.app, request.publisher,
           request.client, request.secret>>
    ELSE <<request.journal, request.installation>>

ImageFields(request) == <<request.installation, request.artifact, request.archive>>

RequestFields(protocol, request) ==
    CASE protocol = "runtime" -> RuntimeFields(request)
      [] protocol = "secrets" -> SecretFields(request)
      [] protocol = "images"  -> ImageFields(request)

Framed(fields) == FlattenSeq([n \in 1 .. Len(fields) |-> <<Len(fields[n])>> \o fields[n]])

Encoded(protocol, operation, fields) ==
    <<Magic[protocol], operation, Len(fields)>> \o Framed(fields)

\* The runtime client refuses what its server would; the secret client does not look.
RuntimeEncodes(request) ==
    LET fields == RuntimeFields(request)
    IN  /\ request.operation \in SpecOperations =>
               Len(request.spec.entrypoints) <= EntrypointLimit
        /\ \A n \in 1 .. Len(fields) : Len(fields[n]) \in 1 .. ProtocolFieldLimit
        /\ Len(Encoded("runtime", request.operation, fields)) <= RequestLimit

ImageEncodes(request) == Len(request.archive) \in 1 .. ArchiveLimit

Encodes(protocol, request) ==
    CASE protocol = "runtime" -> RuntimeEncodes(request)
      [] protocol = "secrets" -> TRUE
      [] protocol = "images"  -> ImageEncodes(request)

-----------------------------------------------------------------------------
(* Reading and parsing. *)

NotRead == [ok |-> FALSE, at |-> 0, fields |-> <<>>]

LimitOf(protocol, n) ==
    IF protocol = "images" /\ n = 3 THEN ArchiveLimit ELSE ProtocolFieldLimit

TotalFits(protocol, total) == protocol = "images" \/ total <= RequestLimit

\* A field is read whole or not at all (read_exact).
ReadField(protocol, pieces, before, n) ==
    IF ~before.ok \/ before.at > Len(pieces) THEN NotRead
    ELSE LET length == pieces[before.at]
             last   == before.at + length
         IN  IF /\ length \in 1 .. LimitOf(protocol, n)
                /\ TotalFits(protocol, last)
                /\ last <= Len(pieces)
             THEN [ok |-> TRUE, at |-> last + 1,
                   fields |-> Append(before.fields, SubSeq(pieces, before.at + 1, last))]
             ELSE NotRead

ReadFields(protocol, pieces, count) ==
    LET read[n \in 0 .. count] ==
            IF n = 0 THEN [ok |-> TRUE, at |-> 4, fields |-> <<>>]
                     ELSE ReadField(protocol, pieces, read[n - 1], n)
    IN  read[count]

RuntimeCount(operation, count) ==
    IF operation \in SpecOperations
    THEN /\ count >= 5
         /\ (count - 5) % 3 = 0
         /\ (count - 5) \div 3 <= EntrypointLimit
    ELSE operation \in IdOperations /\ count = 1

SecretCount(operation, count) ==
    \/ operation = "deliver" /\ count = 6
    \/ operation = "remove" /\ count = 2

CountFits(protocol, operation, count) ==
    CASE protocol = "runtime" -> RuntimeCount(operation, count)
      [] protocol = "secrets" -> SecretCount(operation, count)
      [] protocol = "images"  -> operation = "import" /\ count = 3

Parses(text) == text \in FieldTexts

ParseEntrypoint(fields, n) ==
    [id |-> fields[3 * n + 3], target |-> fields[3 * n + 4][1], path |-> fields[3 * n + 5]]

EntrypointParses(fields, n) ==
    /\ Parses(fields[3 * n + 3])
    /\ fields[3 * n + 4] \in {<<"web-asset">>, <<"container-artifact">>, <<"endpoint">>}
    /\ Parses(fields[3 * n + 5])

Accepted == {<<"web", "web-asset">>, <<"container", "container-artifact">>,
             <<"container", "endpoint">>}

\* RuntimeDescriptor::add_entrypoint: the target fits the kind, no id twice.
SpecParses(fields) ==
    LET count == (Len(fields) - 5) \div 3
    IN  /\ \A n \in 1 .. 4 : Parses(fields[n])
        /\ fields[5] \in {<<"web">>, <<"container">>, <<"native">>}
        /\ \A n \in 1 .. count :
               EntrypointParses(fields, n) /\ <<fields[5][1], fields[3 * n + 4][1]>> \in Accepted
        /\ \A m, n \in 1 .. count : m /= n => fields[3 * m + 3] /= fields[3 * n + 3]

ParseSpec(fields) ==
    [installation |-> fields[1], app |-> fields[2], publisher |-> fields[3],
     version |-> fields[4], kind |-> fields[5][1],
     entrypoints |-> [n \in 1 .. (Len(fields) - 5) \div 3 |-> ParseEntrypoint(fields, n)]]

ParseRuntime(operation, fields) ==
    IF operation \in SpecOperations
    THEN IF SpecParses(fields) THEN [operation |-> operation, spec |-> ParseSpec(fields)]
                               ELSE NoRequest
    ELSE IF Parses(fields[1]) THEN [operation |-> operation, installation |-> fields[1]]
                              ELSE NoRequest

ParseSecrets(operation, fields) ==
    IF \E n \in 1 .. Len(fields) : ~Parses(fields[n]) THEN NoRequest
    ELSE IF operation = "deliver"
    THEN [operation |-> operation, journal |-> fields[1], installation |-> fields[2],
          app |-> fields[3], publisher |-> fields[4], client |-> fields[5],
          secret |-> fields[6]]
    ELSE [operation |-> operation, journal |-> fields[1], installation |-> fields[2]]

ParseImages(fields) ==
    IF Parses(fields[1]) /\ Parses(fields[2])
    THEN [operation |-> "import", installation |-> fields[1], artifact |-> fields[2],
          archive |-> fields[3]]
    ELSE NoRequest

ParseFields(protocol, operation, fields) ==
    CASE protocol = "runtime" -> ParseRuntime(operation, fields)
      [] protocol = "secrets" -> ParseSecrets(operation, fields)
      [] protocol = "images"  -> ParseImages(fields)

\* The whole of parse_request: header, fields, nothing after them.
ParseRequest(protocol, pieces) ==
    IF \/ Len(pieces) < 3
       \/ pieces[1] /= Magic[protocol]
       \/ ~CountFits(protocol, pieces[2], pieces[3])
    THEN NoRequest
    ELSE LET read == ReadFields(protocol, pieces, pieces[3])
         IN  IF read.ok /\ read.at = Len(pieces) + 1
             THEN ParseFields(protocol, pieces[2], read.fields)
             ELSE NoRequest

-----------------------------------------------------------------------------
(* Answers. *)

States == {"absent", "prepared", "active"}

RuntimeOutcomes ==
    [status : {"accepted"}, state : States, changed : BOOLEAN]
        \union [status : {"conflict", "rejected", "error"}, state : {"absent"}, changed : {FALSE}]

OtherOutcomes(statuses) == [status : statuses, state : {"absent"}, changed : {FALSE}]

Outcomes(protocol) ==
    CASE protocol = "runtime" -> RuntimeOutcomes
      [] protocol = "secrets" -> OtherOutcomes({"accepted", "conflict", "rejected", "error"})
      [] protocol = "images"  -> OtherOutcomes({"accepted", "error"})

\* target_outcome_is_valid and, in the same words, the client's checks.
OutcomeFits(operation, outcome) ==
    outcome.status = "accepted" =>
        CASE operation = "prepare"    -> outcome.state \in {"prepared", "active"}
          [] operation = "activate"   -> outcome.state = "active"
          [] operation = "state"      -> ~outcome.changed
          [] operation = "deactivate" -> outcome.state /= "active"
          [] operation = "remove"     -> outcome.state = "absent"

Status(protocol, operation, outcome) ==
    IF outcome.status = "error" \/ (protocol = "runtime" /\ ~OutcomeFits(operation, outcome))
    THEN "rejected"
    ELSE outcome.status

Answer(protocol, status, outcome) ==
    IF protocol = "runtime"
    THEN <<Magic[protocol], status, IF status = "accepted" THEN outcome.state ELSE "absent",
           status = "accepted" /\ outcome.changed>>
    ELSE <<Magic[protocol], status>>

AnswerLength(protocol) == IF protocol = "runtime" THEN 4 ELSE 2

\* The client's reading of a whole answer.
Succeeds(protocol, operation, pieces) ==
    /\ Len(pieces) = AnswerLength(protocol)
    /\ pieces[1] = Magic[protocol]
    /\ pieces[2] = "accepted"
    /\ protocol = "runtime" =>
           OutcomeFits(operation, [status |-> "accepted", state |-> pieces[3],
                                   changed |-> pieces[4]])

-----------------------------------------------------------------------------
(* The supervisor's start. *)

RequiredOptions == {"--docker", "--runtime-root", "--image-root", "--network", "--instance",
                    "--control-socket", "--secret-socket", "--image-socket",
                    "--platform-user"}

ParseArgs(options) ==
    /\ Range(options) = RequiredOptions
    /\ Len(options) = Cardinality(RequiredOptions)

SocketModes == {"owner only", "owner and group"}

ConfigHolds(config) ==
    config.absolute /\ config.timeout /= 0 /\ config.mode \in SocketModes

SupervisorConfig == [absolute |-> TRUE, timeout |-> 5, mode |-> "owner and group"]

Idle == [step |-> "idle", protocol |-> "runtime", request |-> NoRequest, left |-> <<>>]

NotServing == [step |-> "accepting", left |-> <<>>]

NotActed == [request |-> NoRequest, outcome |-> NoRequest]

ProtocolInit ==
    /\ supervisor = "down"
    /\ exchange = Idle
    /\ inbound = <<>> /\ inboundEnds = FALSE
    /\ serving = NotServing
    /\ outbound = <<>> /\ outboundEnds = FALSE
    /\ acted = NotActed

connection == <<exchange, inbound, inboundEnds, serving, outbound, outboundEnds, acted>>

StartSupervisor ==
    /\ supervisor = "down"
    /\ \E options \in CommandLines : ParseArgs(options)
    /\ ConfigHolds(SupervisorConfig)
    /\ supervisor' = "control bound"
    /\ UNCHANGED connection

\* The sockets are bound one after the other and served once all are; a bind that
\* fails ends the process, and systemd takes its sockets' directory away.
BindNext ==
    /\ supervisor \in {"control bound", "secrets bound"}
    /\ supervisor' \in {"down", IF supervisor = "control bound" THEN "secrets bound" ELSE "up"}
    /\ UNCHANGED connection

Reachable(protocol) ==
    CASE protocol = "runtime" -> supervisor /= "down"
      [] protocol = "secrets" -> supervisor \in {"secrets bound", "up"}
      [] protocol = "images"  -> supervisor = "up"

-----------------------------------------------------------------------------
(* The client. *)

Requests(protocol) ==
    CASE protocol = "runtime" -> RuntimeRequests
      [] protocol = "secrets" -> SecretRequests
      [] protocol = "images"  -> ImageRequests

BeginExchange(protocol, peer, request) ==
    /\ exchange.step = "idle"
    /\ Encodes(protocol, request)
    /\ Reachable(protocol)
    /\ exchange' = [step |-> "writing", protocol |-> protocol, peer |-> peer,
                    request |-> request,
                    left |-> Encoded(protocol, request.operation,
                                     RequestFields(protocol, request))]
    /\ UNCHANGED <<supervisor, inbound, inboundEnds, serving, outbound, outboundEnds, acted>>

WritePiece ==
    /\ exchange.step = "writing"
    /\ IF exchange.left /= <<>>
       THEN /\ inbound' = Append(inbound, Head(exchange.left))
            /\ exchange' = [exchange EXCEPT !.left = Tail(exchange.left)]
            /\ UNCHANGED inboundEnds
       ELSE /\ inboundEnds' = TRUE
            /\ exchange' = [exchange EXCEPT !.step = "waiting"]
            /\ UNCHANGED inbound
    /\ UNCHANGED <<supervisor, serving, outbound, outboundEnds, acted>>

\* The platform service stops, or its timeout passes.
ClientLeaves ==
    /\ exchange.step \in {"writing", "waiting"}
    /\ exchange' = [exchange EXCEPT !.step = "failed", !.left = <<>>]
    /\ inboundEnds' = TRUE
    /\ UNCHANGED <<supervisor, inbound, serving, outbound, outboundEnds, acted>>

ReadAnswer ==
    /\ exchange.step = "waiting"
    /\ outboundEnds \/ Len(outbound) = AnswerLength(exchange.protocol)
    /\ exchange' = [exchange EXCEPT !.step =
                        IF Succeeds(exchange.protocol, exchange.request.operation, outbound)
                        THEN "succeeded" ELSE "failed"]
    /\ UNCHANGED <<supervisor, inbound, inboundEnds, serving, outbound, outboundEnds, acted>>

-----------------------------------------------------------------------------
(* The server. *)

Serves == supervisor = "up" /\ serving.step = "accepting" /\ exchange.step /= "idle"

PeerIsPlatform == exchange.peer = "platform"

Reject == [step |-> "answering", left |-> Answer(exchange.protocol, "rejected", NoRequest)]

RefusePeer ==
    /\ Serves
    /\ ~PeerIsPlatform
    /\ serving' = [serving EXCEPT !.step = "closed"]
    /\ outboundEnds' = TRUE
    /\ UNCHANGED <<supervisor, exchange, inbound, inboundEnds, outbound, acted>>

\* The reads of parse_request together, once the stream has ended.
ServeRequest ==
    /\ Serves
    /\ PeerIsPlatform
    /\ inboundEnds
    /\ LET parsed == ParseRequest(exchange.protocol, inbound)
       IN  IF parsed = NoRequest
           THEN serving' = Reject /\ UNCHANGED acted
           ELSE /\ serving' = [serving EXCEPT !.step = "handling"]
                /\ acted' = [acted EXCEPT !.request = parsed]
    /\ UNCHANGED <<supervisor, exchange, inbound, inboundEnds, outbound, outboundEnds>>

RequestTimesOut ==
    /\ Serves
    /\ PeerIsPlatform
    /\ ~inboundEnds
    /\ serving' = Reject
    /\ UNCHANGED <<supervisor, exchange, inbound, inboundEnds, outbound, outboundEnds, acted>>

TargetReturns(outcome) ==
    /\ supervisor = "up"
    /\ serving.step = "handling"
    /\ outcome \in Outcomes(exchange.protocol)
    /\ acted' = [acted EXCEPT !.outcome = outcome]
    /\ LET status == Status(exchange.protocol, acted.request.operation, outcome)
       IN  serving' = [step |-> "answering",
                       left |-> Answer(exchange.protocol, status, outcome)]
    /\ UNCHANGED <<supervisor, exchange, inbound, inboundEnds, outbound, outboundEnds>>

WriteAnswer ==
    /\ serving.step = "answering"
    /\ IF serving.left /= <<>>
       THEN /\ outbound' = Append(outbound, Head(serving.left))
            /\ serving' = [serving EXCEPT !.left = Tail(serving.left)]
            /\ UNCHANGED outboundEnds
       ELSE /\ serving' = [serving EXCEPT !.step = "closed"]
            /\ outboundEnds' = TRUE
            /\ UNCHANGED outbound
    /\ UNCHANGED <<supervisor, exchange, inbound, inboundEnds, acted>>

\* A crash, or the exit that follows a failed accept.
SupervisorStops ==
    /\ supervisor = "up"
    /\ supervisor' = "down"
    /\ serving' = [serving EXCEPT !.step = IF exchange.step = "idle" THEN "accepting"
                                                                     ELSE "closed"]
    /\ outboundEnds' = (exchange.step /= "idle")
    /\ UNCHANGED <<exchange, inbound, inboundEnds, outbound, acted>>

ExchangeEnds ==
    /\ exchange.step \in {"succeeded", "failed"}
    /\ serving.step = "closed"
    /\ exchange' = Idle
    /\ inbound' = <<>> /\ inboundEnds' = FALSE
    /\ serving' = NotServing
    /\ outbound' = <<>> /\ outboundEnds' = FALSE
    /\ acted' = NotActed
    /\ UNCHANGED supervisor

ProtocolNext ==
    \/ StartSupervisor \/ BindNext \/ SupervisorStops
    \/ \E protocol \in Protocols, peer \in {"platform", "other"} :
           \E request \in Requests(protocol) : BeginExchange(protocol, peer, request)
    \/ WritePiece \/ ClientLeaves \/ ReadAnswer
    \/ RefusePeer \/ ServeRequest \/ RequestTimesOut \/ WriteAnswer
    \/ \E outcome \in RuntimeOutcomes : TargetReturns(outcome)
    \/ ExchangeEnds

ProtocolSpec == ProtocolInit /\ [][ProtocolNext]_protocolVars

-----------------------------------------------------------------------------
(* The supervisor acts on a request only as the platform made it: a        *)
(* connection cut within a field, before the last field or between two     *)
(* fields never becomes a shorter or another request (parse_request of     *)
(* runtime_provider.rs and runtime_secret_server.rs, read_request of       *)
(* docker_image_channel.rs).  And a call succeeds for the platform only    *)
(* when the supervisor's target accepted that very request with a state    *)
(* that fits it, whatever was cut, timed out or crashed on the way.        *)
ServedAsSent ==
    /\ acted.request /= NoRequest => acted.request = exchange.request
    /\ exchange.step = "succeeded" =>
           /\ acted.outcome /= NoRequest
           /\ acted.outcome.status = "accepted"
           /\ exchange.protocol = "runtime" =>
                  OutcomeFits(exchange.request.operation, acted.outcome)

=============================================================================
