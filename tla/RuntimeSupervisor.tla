------------------------- MODULE RuntimeSupervisor -------------------------
(***************************************************************************)
(* The container of one installation and the process that looks after it.  *)
(* The supervisor runs three servers, each of one thread, over a Unix      *)
(* socket each: runtime control (the Docker command line), runtime secrets *)
(* (three files in the namespace directory of the installation) and image  *)
(* import.  Its clients are the operation runner, which takes the steps of *)
(* an installation or of a removal in order and repeats a step that        *)
(* failed, and the user, who starts and stops the container.  A client     *)
(* that waits too long gives its request up, and the server serves it all  *)
(* the same.  A Docker command that takes too long is killed, and the      *)
(* daemon may still do its work later, or never.                           *)
(*                                                                         *)
(* An installation has one specification and one secret, so the replies    *)
(* for a conflicting replay are not reached.                               *)
(***************************************************************************)
EXTENDS Integers, Sequences, FiniteSets

CONSTANTS
    MaxFaults,      \* bound: failures, kills, crashes and lost replies
    MaxUserCalls    \* bound: starts and stops by the user

ASSUME SupervisorBounds == MaxFaults \in Nat /\ MaxUserCalls \in Nat

VARIABLES
    box,        \* Docker: the container and the killed commands still to run
    disk,       \* the directories and files of the installation
    server,     \* the state of each server
    backlog,    \* the requests each server has not accepted yet
    runner,     \* the step the runner is at, and whether it waits
    user,       \* whether the user's request waits, and how many there were
    faults,     \* faults so far
    createLost  \* history: a create command was killed before it answered

supervisorVars == <<box, disk, server, backlog, runner, user, faults, createLost>>

Servers == {"control", "secret", "image"}

\* the secret, the client id and the record of the delivery, in this order
SecretFiles == <<"secret", "client", "record">>

InSecretsDirectory(files) == {f \in files : f.name # "record"}

IdleServer == [pc |-> "idle", op |-> "none", from |-> "nobody", made |-> FALSE, todo |-> <<>>]

SupervisorInit ==
    /\ box = [container |-> "none", late |-> {}]
    /\ disk = [namespace |-> FALSE, secrets |-> FALSE, files |-> {}, image |-> FALSE]
    /\ server = [s \in Servers |-> IdleServer]
    /\ backlog = [s \in Servers |-> <<>>]
    /\ runner = [step |-> "import", waits |-> FALSE]
    /\ user = [waits |-> FALSE, calls |-> 0]
    /\ faults = 0
    /\ createLost = FALSE

-----------------------------------------------------------------------------
(* The clients *)

Send(s, op, from) ==
    backlog' = [backlog EXCEPT ![s] = Append(@, [op |-> op, from |-> from])]

\* exchange of the runtime provider, up to the wait for the response
ControlExchange(op, from) ==
    /\ op \in {"prepare", "activate", "state", "deactivate", "remove"}
    /\ Send("control", op, from)

\* exchange of the secret delivery
SecretExchange(op, from) ==
    /\ op \in {"deliver", "removeSecrets"}
    /\ Send("secret", op, from)

\* exchange of the image importer
ImageExchange(op, from) ==
    /\ op = "import"
    /\ Send("image", op, from)

RunnerSends ==
    /\ ~ runner.waits
    /\ runner.step \notin {"installed", "gone"}
    /\ \/ ControlExchange(runner.step, "runner")
       \/ SecretExchange(runner.step, "runner")
       \/ ImageExchange(runner.step, "runner")
    /\ runner' = [runner EXCEPT !.waits = TRUE]
    /\ UNCHANGED <<box, disk, server, user, faults, createLost>>

UserSends(op) ==
    /\ ~ user.waits
    /\ user.calls < MaxUserCalls
    /\ runner.step \notin {"import", "prepare", "deliver", "activate", "gone"}
    /\ ControlExchange(op, "user")
    /\ user' = [waits |-> TRUE, calls |-> user.calls + 1]
    /\ UNCHANGED <<box, disk, server, runner, faults, createLost>>

NextStep(step) ==
    CASE step = "import" -> "prepare"
      [] step = "prepare" -> "deliver"
      [] step = "deliver" -> "activate"
      [] step = "activate" -> "installed"
      [] step = "deactivate" -> "removeSecrets"
      [] step = "removeSecrets" -> "remove"
      [] step = "remove" -> "gone"

\* the runner undoes an installation from the step it was at, or uninstalls
TurnBack ==
    /\ ~ runner.waits
    /\ runner.step \in {"import", "prepare", "deliver", "activate", "installed"}
    /\ runner' = [runner EXCEPT !.step =
                      CASE @ = "import" -> "gone"
                        [] @ = "prepare" -> "remove"
                        [] @ = "deliver" -> "removeSecrets"
                        [] OTHER -> "deactivate"]
    /\ UNCHANGED <<box, disk, server, backlog, user, faults, createLost>>

Fault ==
    /\ faults < MaxFaults
    /\ faults' = faults + 1

Abandoned(request, c) == IF request.from = c THEN [request EXCEPT !.from = "nobody"] ELSE request

\* the timeout of exchange, or the end of the client's process: the request
\* stays with the server
GiveUp(c) ==
    /\ Fault
    /\ server' = [s \in Servers |-> Abandoned(server[s], c)]
    /\ backlog' = [s \in Servers |->
                      [i \in DOMAIN backlog[s] |-> Abandoned(backlog[s][i], c)]]
    /\ \/ /\ c = "runner" /\ runner.waits
          /\ runner' = [runner EXCEPT !.waits = FALSE]
          /\ UNCHANGED user
       \/ /\ c = "user" /\ user.waits
          /\ user' = [user EXCEPT !.waits = FALSE]
          /\ UNCHANGED runner
    /\ UNCHANGED <<box, disk, createLost>>

-----------------------------------------------------------------------------
(* The servers *)

Accept(s, pc) ==
    /\ server[s].pc = "idle"
    /\ backlog[s] # <<>>
    /\ server' = [server EXCEPT ![s] = [IdleServer EXCEPT !.pc = pc,
                     !.op = Head(backlog[s]).op, !.from = Head(backlog[s]).from]]
    /\ backlog' = [backlog EXCEPT ![s] = Tail(@)]
    /\ UNCHANGED <<box, disk, runner, user, faults, createLost>>

\* serve_once of each server: accept a connection, parse its request
AcceptControl == Accept("control", "look")

AcceptSecret ==
    /\ backlog["secret"] # <<>>
    /\ Accept("secret", IF Head(backlog["secret"]).op = "deliver" THEN "read" ELSE "find")

AcceptImage == Accept("image", "load")

\* write_response: a client that gave up does not see it
Reply(s, ok) ==
    /\ server' = [server EXCEPT ![s] = IdleServer]
    /\ runner' = IF server[s].from # "runner" THEN runner
                 ELSE [step |-> IF ok THEN NextStep(runner.step) ELSE runner.step, waits |-> FALSE]
    /\ user' = IF server[s].from # "user" THEN user ELSE [user EXCEPT !.waits = FALSE]
    /\ UNCHANGED backlog

GoOn(s, pc) ==
    /\ server' = [server EXCEPT ![s].pc = pc]
    /\ UNCHANGED <<backlog, runner, user>>

\* serve_once returns an error from accept, or the host restarts: the
\* process starts again with nothing to serve
Crash ==
    /\ Fault
    /\ \E s \in Servers : server[s].pc # "idle"
    /\ server' = [s \in Servers |-> IdleServer]
    /\ backlog' = [s \in Servers |-> <<>>]
    /\ runner' = [runner EXCEPT !.waits = FALSE]
    /\ user' = [user EXCEPT !.waits = FALSE]
    /\ UNCHANGED <<box, disk, createLost>>

-----------------------------------------------------------------------------
(* Docker *)

\* what a command does when the daemon runs it
Effect(command, container) ==
    CASE command = "create" -> IF container = "none" THEN "created" ELSE container
      [] command = "start" -> IF container = "none" THEN "none" ELSE "running"
      [] command = "stop" -> IF container = "running" THEN "exited" ELSE container
      [] command = "rm" -> IF container = "running" THEN container ELSE "none"

\* run_command kills the command line, not the work it asked for
LateEffect(command) ==
    /\ command \in box.late
    /\ \E done \in BOOLEAN :
          box' = [container |-> IF done THEN Effect(command, box.container) ELSE box.container,
                  late |-> box.late \ {command}]
    /\ UNCHANGED <<disk, server, backlog, runner, user, faults, createLost>>

ContainerExits ==
    /\ box.container = "running"
    /\ box' = [box EXCEPT !.container = "exited"]
    /\ UNCHANGED <<disk, server, backlog, runner, user, faults, createLost>>

\* run_checked succeeds
Done(command) ==
    /\ box' = [box EXCEPT !.container = Effect(command, @)]
    /\ UNCHANGED <<faults, createLost>>

\* run_checked fails: the daemon refused the command, or it was killed
Fails(command) ==
    /\ Fault
    /\ \/ UNCHANGED <<box, createLost>>
       \/ /\ box' = [box EXCEPT !.late = @ \cup {command}]
          /\ createLost' = (createLost \/ command = "create")

NoCommand == UNCHANGED <<box, faults, createLost>>

-----------------------------------------------------------------------------
(* Runtime control *)

At(s, pc) == server[s].pc = pc

\* matching_container and container_state, and the image of a new container
\* (resolve_image, image inspection)
Look ==
    /\ At("control", "look")
    /\ LET op == server["control"].op
           container == box.container
       IN CASE op = "prepare" /\ container # "none" -> Reply("control", TRUE)
            [] op = "prepare" /\ container = "none" ->
                   IF disk.image THEN GoOn("control", "namespace") ELSE Reply("control", FALSE)
            [] op = "activate" /\ container = "none" -> Reply("control", FALSE)
            [] op = "activate" /\ container = "running" -> Reply("control", TRUE)
            [] op = "activate" /\ container \in {"created", "exited"} -> GoOn("control", "start")
            [] op = "deactivate" /\ container # "running" -> Reply("control", TRUE)
            [] op = "deactivate" /\ container = "running" -> GoOn("control", "stop")
            [] op = "remove" /\ container = "none" -> GoOn("control", "emptySecrets")
            [] op = "remove" /\ container = "running" -> Reply("control", FALSE)
            [] op = "remove" /\ container \in {"created", "exited"} -> GoOn("control", "rm")
            [] op = "state" -> Reply("control", TRUE)
    /\ NoCommand
    /\ UNCHANGED disk

\* a lookup command fails or takes too long
LookFails ==
    /\ At("control", "look")
    /\ Fault
    /\ Reply("control", FALSE)
    /\ UNCHANGED <<box, disk, createLost>>

\* ensure_namespace, first directory
MakeNamespace ==
    /\ At("control", "namespace")
    /\ disk' = [disk EXCEPT !.namespace = TRUE]
    /\ server' = [server EXCEPT !["control"].pc = "secrets", !["control"].made = ~ disk.namespace]
    /\ NoCommand
    /\ UNCHANGED <<backlog, runner, user>>

\* ensure_namespace, second directory
MakeSecrets ==
    /\ At("control", "secrets")
    /\ disk' = [disk EXCEPT !.secrets = TRUE]
    /\ GoOn("control", "create")
    /\ NoCommand

\* a namespace made for a container that could not be created is removed
\* again, errors ignored
Create ==
    /\ At("control", "create")
    /\ \/ box.container = "none" /\ Done("create") /\ Reply("control", TRUE)
       \/ /\ Fails("create")
          /\ IF server["control"].made THEN GoOn("control", "undoSecrets") ELSE Reply("control", FALSE)
       \/ /\ box.container # "none" /\ NoCommand
          /\ IF server["control"].made THEN GoOn("control", "undoSecrets") ELSE Reply("control", FALSE)
    /\ UNCHANGED disk

WithoutSecrets ==
    IF InSecretsDirectory(disk.files) = {} THEN [disk EXCEPT !.secrets = FALSE] ELSE disk

WithoutNamespace ==
    IF ~ disk.secrets /\ disk.files = {} THEN [disk EXCEPT !.namespace = FALSE] ELSE disk

UndoNamespace ==
    \/ /\ At("control", "undoSecrets")
       /\ disk' = WithoutSecrets
       /\ GoOn("control", "undoNamespace")
       /\ NoCommand
    \/ /\ At("control", "undoNamespace")
       /\ disk' = WithoutNamespace
       /\ Reply("control", FALSE)
       /\ NoCommand

StartContainer ==
    /\ At("control", "start")
    /\ \/ Done("start") /\ GoOn("control", "checkStarted")
       \/ Fails("start") /\ Reply("control", FALSE)
    /\ UNCHANGED disk

StopContainer ==
    /\ At("control", "stop")
    /\ \/ Done("stop") /\ GoOn("control", "checkStopped")
       \/ Fails("stop") /\ Reply("control", FALSE)
    /\ UNCHANGED disk

\* the state is read again after the command
Check ==
    /\ \/ At("control", "checkStarted") /\ Reply("control", box.container = "running")
       \/ At("control", "checkStopped") /\ Reply("control", box.container # "running")
    /\ NoCommand
    /\ UNCHANGED disk

(* Mutant: a killed command is taken for a done one. *)
RemoveContainerRegardless ==
    /\ At("control", "rm")
    /\ \/ box.container # "running" /\ Done("rm") /\ GoOn("control", "emptySecrets")
       \/ Fails("rm") /\ Reply("control", TRUE)
    /\ UNCHANGED disk

RemoveContainer ==
    /\ At("control", "rm")
    /\ \/ box.container # "running" /\ Done("rm") /\ GoOn("control", "emptySecrets")
       \/ box.container = "running" /\ NoCommand /\ Reply("control", FALSE)
       \/ Fails("rm") /\ Reply("control", FALSE)
    /\ UNCHANGED disk

\* remove_namespace_if_empty: a directory that is not empty is an error
RemoveNamespaceIfEmpty ==
    \/ /\ At("control", "emptySecrets")
       /\ disk' = WithoutSecrets
       /\ IF disk'.secrets THEN Reply("control", FALSE) ELSE GoOn("control", "emptyNamespace")
       /\ NoCommand
    \/ /\ At("control", "emptyNamespace")
       /\ disk' = WithoutNamespace
       /\ Reply("control", ~ disk'.namespace)
       /\ NoCommand

-----------------------------------------------------------------------------
(* Runtime secrets *)

Complete(name) == [name |-> name, complete |-> TRUE]
Partial(name) == [name |-> name, complete |-> FALSE]

HasFile(name) == Complete(name) \in disk.files

Missing == SelectSeq(SecretFiles, LAMBDA name : ~ HasFile(name))

(* Mutant: the secret itself is all that is looked at. *)
ReadSecretFilesOnce ==
    /\ At("secret", "read")
    /\ IF disk.namespace /\ disk.secrets
       THEN /\ server' = [server EXCEPT !["secret"].pc = "write",
                                        !["secret"].todo = IF HasFile("secret") THEN <<>> ELSE SecretFiles]
            /\ UNCHANGED <<backlog, runner, user>>
       ELSE Reply("secret", FALSE)
    /\ NoCommand
    /\ UNCHANGED disk

\* deliver_oidc_client_secret: the directories are validated, the files read
ReadSecretFiles ==
    /\ At("secret", "read")
    /\ IF disk.namespace /\ disk.secrets
       THEN /\ server' = [server EXCEPT !["secret"].pc = "write", !["secret"].todo = Missing]
            /\ UNCHANGED <<backlog, runner, user>>
       ELSE Reply("secret", FALSE)
    /\ NoCommand
    /\ UNCHANGED disk

Writable(name) == disk.namespace /\ (name # "record" => disk.secrets)

\* write_atomic: a temporary file, then its new name
WriteSecretFile ==
    /\ At("secret", "write")
    /\ LET todo == server["secret"].todo
           name == Head(todo)
       IN \/ /\ todo = <<>>
             /\ Reply("secret", TRUE)
             /\ UNCHANGED disk
          \/ /\ todo # <<>> /\ ~ Writable(name)
             /\ Reply("secret", FALSE)
             /\ UNCHANGED disk
          \/ /\ todo # <<>> /\ Writable(name) /\ Partial(name) \notin disk.files
             /\ disk' = [disk EXCEPT !.files = @ \cup {Partial(name)}]
             /\ UNCHANGED <<server, backlog, runner, user>>
          \/ /\ todo # <<>> /\ Partial(name) \in disk.files
             /\ disk' = [disk EXCEPT !.files = (@ \ {Partial(name)}) \cup {Complete(name)}]
             /\ server' = [server EXCEPT !["secret"].todo = Tail(@)]
             /\ UNCHANGED <<backlog, runner, user>>
    /\ NoCommand

\* remove_for_installation: no namespace, nothing to remove
FindSecretFiles ==
    /\ At("secret", "find")
    /\ IF ~ disk.namespace THEN Reply("secret", TRUE)
       ELSE IF ~ disk.secrets THEN Reply("secret", FALSE)
       ELSE /\ server' = [server EXCEPT !["secret"].pc = "delete",
                  !["secret"].todo = [i \in 1 .. 6 |->
                      IF i <= 3 THEN Complete(SecretFiles[i]) ELSE Partial(SecretFiles[i - 3])]]
            /\ UNCHANGED <<backlog, runner, user>>
    /\ NoCommand
    /\ UNCHANGED disk

DeleteSecretFile ==
    /\ At("secret", "delete")
    /\ LET todo == server["secret"].todo
       IN \/ /\ todo = <<>>
             /\ Reply("secret", TRUE)
             /\ UNCHANGED disk
          \/ /\ todo # <<>>
             /\ disk' = [disk EXCEPT !.files = @ \ {Head(todo)}]
             /\ server' = [server EXCEPT !["secret"].todo = Tail(@)]
             /\ UNCHANGED <<backlog, runner, user>>
    /\ NoCommand

-----------------------------------------------------------------------------
(* Image import *)

\* import_archive: load the archive, then write the reference of the image
ImportArchive ==
    /\ At("image", "load")
    /\ \/ GoOn("image", "stage") /\ NoCommand
       \/ Fault /\ Reply("image", FALSE) /\ UNCHANGED <<box, createLost>>
    /\ UNCHANGED disk

StageReference ==
    /\ At("image", "stage")
    /\ disk' = [disk EXCEPT !.image = TRUE]
    /\ Reply("image", TRUE)
    /\ NoCommand

-----------------------------------------------------------------------------

ControlStep ==
    \/ Look \/ LookFails \/ MakeNamespace \/ MakeSecrets \/ Create \/ UndoNamespace
    \/ StartContainer \/ StopContainer \/ Check \/ RemoveContainer
    \/ RemoveNamespaceIfEmpty

SecretStep == ReadSecretFiles \/ WriteSecretFile \/ FindSecretFiles \/ DeleteSecretFile

ImageStep == ImportArchive \/ StageReference

SupervisorNext ==
    \/ RunnerSends \/ TurnBack \/ Crash \/ ContainerExits
    \/ \E op \in {"activate", "deactivate", "state"} : UserSends(op)
    \/ \E c \in {"runner", "user"} : GiveUp(c)
    \/ AcceptControl \/ AcceptSecret \/ AcceptImage
    \/ \E command \in {"create", "start", "stop", "rm"} : LateEffect(command)
    \/ ControlStep \/ SecretStep \/ ImageStep

SupervisorSpec == SupervisorInit /\ [][SupervisorNext]_supervisorVars

-----------------------------------------------------------------------------

\* A container runs with its whole secret.  Until its removal begins, an
\* installation whose container runs has the three files in place, although
\* the delivery and the start are served by different threads, either may
\* be repeated or served after its client gave up, and a crash may leave
\* the files half written.
RunningHasItsSecret ==
    /\ box.container = "running"
    /\ runner.step \in {"import", "prepare", "deliver", "activate", "installed"}
    => Missing = <<>>

\* What is removed is gone.  When the runner has seen its last step answered,
\* there is neither a container nor a directory nor a file of the secret,
\* whatever was served late, except that a create command that was killed
\* may still take effect.
GoneLeavesNothing ==
    runner.step = "gone" /\ ~ createLost =>
        /\ box.container = "none"
        /\ ~ disk.namespace /\ ~ disk.secrets
        /\ disk.files = {}

\* A container can be given its secret.  The directory that is mounted into
\* the container exists as long as the container does: it is made before
\* the container and removed after it.  A killed create command is the
\* exception, for its directory is removed at once.
ContainerHasItsNamespace ==
    box.container # "none" /\ ~ createLost => disk.namespace /\ disk.secrets
=============================================================================
