# TLA+ verification of the rumahl platform

rumahl is a self-hosted platform: a Rust service that keeps accounts, serves a
web shell, and installs apps that bring web assets, containers, databases and
an OpenID Connect client; a supervisor process that owns the containers; and a
TypeScript shell in the browser. This project models it in TLA+, checks the
models with TLC on small instances, and proves the properties that matter most
with TLAPS, for every value of the constants.

The centre is the installation and the removal of an app, in which several
durable stores have to change together under crashes, retries and concurrent
requests. Around it are the OpenID provider and the local accounts, whose
requests work in several transactions while others change what they rely on,
and a module for every other component with state or with a conversion that
can go wrong.

## 1. Parts and modules

| Part | Code | Module |
|---|---|---|
| Operation domain | `core/src/app_operations/operation.rs` | `AppOperation` |
| Operation journal | `persistence-sqlite/src/app_operation_repository.rs` | `AppOperationJournal`, refining `AtomicOperations` |
| Operation runner | `app-operations/src/runner.rs` | `AppOperationRunner` |
| Participants of an operation | `app_database_provider.rs`, `docker_runtime_target.rs`, `namespace_secret_target.rs`, `registrar.rs`, `oidc_client_repository.rs`, `secret_store.rs` | `AppResources` |
| Package import, app service | `platform-service/src/install.rs`, `platform-buildroot/src/package_importer.rs` | `PackageService` |
| OIDC authorization and tokens | `oidc-provider/src/protocol.rs`, `persistence-sqlite/src/oidc_*_store.rs` | `OidcProvider` |
| OIDC clients and endpoints | `registrar.rs`, `client.rs`, `platform-web/src/oidc.rs` | `OidcEndpoints` |
| Refresh token families | `oidc-provider/src/token_family.rs`, `oidc_refresh_token_store.rs` | `TokenFamilies` |
| Passwords, sign-in, password change | `account-auth/`, `password_credential_repository.rs`, `browser_session_repository.rs` | `LocalAccounts` |
| Account and session rows | `account_repository.rs`, `session_credential_repository.rs`, `core/src/accounts` | `AccountStore` |
| Browser sign-in pages | `platform-web/src/browser_auth.rs`, `ssr.rs` | `BrowserSignIn` |
| Platform snapshot, registries, permissions | `core/src/persistence`, `apps`, `permissions`, `capabilities`, `events`, `runtime/router.rs` | `PlatformState` |
| Stored form of the snapshot | `persistence-sqlite/src/wire.rs` | `WireFormat` |
| Identifiers, paths and other names | `core/src/identity/ids.rs` and other parsers | `TextNames` |
| Launch leases, app access | `platform-web/src/apps.rs`, `platform-service/src/apps.rs` | `AppAccess` |
| App channels; streams | `app_channel.rs`, `core/src/runtime/channel.rs`; `streams.rs` | `AppChannels` |
| Runtime supervisor | `docker_runtime_target.rs`, `runtime_provider.rs`, `runtime_secret_server.rs`, ... | `RuntimeSupervisor` |
| Supervisor socket protocols | the same, and `docker_image_channel.rs` | `SupervisorProtocol` |
| Container images | `docker_image_importer.rs`, `staged_docker_image_*.rs` | `ContainerImages` |
| App databases | `app_database_provider.rs` | `AppDatabases` |
| Secrets and fields at rest, TPM keys | `secret_store.rs`, `field_cipher.rs`, `tpm2_key_provider.rs` | `SealedSecrets` |
| Package signing, verification, publication | `app-packages/src` | `PackageTrust` |
| Store pages, pinned certificates | `platform-web/src/store.rs` | `StoreTrust` |
| Web gateway | `platform-web/src/server.rs`, `files.rs`, `workspace.rs` | `Gateway` |
| Audit log, system event spool | `audit_log.rs`, `os_events.rs`, `platform-service/src/main.rs` | `AuditTrail` |
| Recovery settings | `platform-web/src/recovery_settings.rs`, `server.rs` | `RecoveryMode` |
| Personal files | `persistence-sqlite/src/personal_files.rs`, `platform-web/src/files.rs` | `PersonalFiles` |
| Preferences, operating mode, workspaces, and the pages that poll them | `shell_preferences.rs`, `os_mode.rs`; `frontend/.../preferences/` | `ShellSettings` |
| Shell snapshot and themes | `shell_composer.rs`, `ui-contracts/src` | `ShellComposer` |
| Page updates | `platform-web/src/events.rs`, `live-updates.ts` | `ShellPages` |
| App bridge of the shell | `frontend/.../bridge.ts`, `InstalledAppHost.tsx`, `bridge-client` | `AppBridge` |
| Icon grids of the shell | `free-grid.ts`, `launcher-order.ts` | `DesktopLayout` |

`PROJECT.json` lists the sources of each part, the code lines of each
definition, and what is left out of a part that is modelled in part. Its map
names the operations; a helper whose lines lie inside those of its caller is not
always listed again.

How the parts interact. A request of the app service loads the snapshot and
calls the runner. The runner writes an operation with its plan to the journal,
then works through the plan: it records a step, calls the participant of the
step, and records its completion. The last step of every plan stores the
platform snapshot, and then the operation commits. The service goes on outside
the journal: it publishes assets, makes a data directory and adds launch grants
to the snapshot. A process that dies leaves an incomplete operation, which
`recover_incomplete` resumes. An uninstall ends in the tables of the OpenID
provider: the OIDC participant revokes the client of the installation and
everything issued for it, while requests of users and of the app may be between
two of their transactions. The provider issues codes and tokens to sessions,
which the accounts open by password and end by logout or by a change of the
password. The shell in the browser reads composed snapshots, launches apps under
leases, and lets app documents talk to the platform and to each other over the
bridge.

`AppOperationRunner` is composed of `AppOperation` and `AppResources`, and
`PackageService` of the runner and the service around it. The component modules
are not composed with them. Where two modules describe one thing at
different levels (`AppResources` and `AppDatabases` or `RuntimeSupervisor`,
`OidcProvider` and `OidcEndpoints`, `LocalAccounts` and `AccountStore`), one has
the interleaving or the crash points and the other the data; that the levels
agree was read off the code and is not checked.

### The operation modules

`AppOperation` has no state. It defines the plan of an app (`PlanForApp`), the
checks of `restore_with_target` (`Restorable`) and every transition with its
guard (`CanBeginResource`, `BeginResource`, ...). `Successors` collects them.

`AtomicOperations` says what the journal promises: operations are created once
and then change by one domain transition at a time, each from the value the
last one left.

`AppOperationJournal` is the SQLite journal. A process holds a copy of an
operation. `LoadRow` and `Decode` are the two statements of a load, so a
transition can fall between them. `StoreTransition` is a domain method followed
by the compare-and-swap on the revision; a stale one fails the request.

`AppResources` describes every participant call by the durable states it passes
`through`, the state at its `end` and whether it is `ok`. A call that is cut
short, by a failure or by a crash, leaves one of the states it passes through.

`AppOperationRunner` runs the calls of the runner in concurrent processes. One
action is one durable effect: `BeginStep`, `CallParticipant`, `StoreSnapshot`,
`CompleteStep`, `Finish`; before them `Install`, `Uninstall`, `FindInstall` and
`CompensateInstall`; for recovery `ListIncomplete`, `LoadIncomplete` and
`ResumeNext`. `Crash` kills a process, perhaps in the middle of a call. The
module ends with a host that follows the runner's contract: `Request`,
`Recover`, `Close`. With `StartupRecovery` no new operation starts while one is
incomplete.

`PackageService` puts the real host on top of it: the requests of
`install_with` and `uninstall_with`, the import that resumes the first
incomplete install of the same app when its own install fails, the data
directory named after the app, and the grants that are added to a snapshot
loaded again. It recovers only where the code does, in a failing import.

`OidcProvider` runs `begin`, `approve` and `exchange_code` in concurrent
requests. A request reads the clock once and holds the list of steps it still
has to take; one step is one database transaction (`RequireLiveSession`,
`ActiveClient`, `InsertTransaction`, `ApproveTransaction`, `ConsumeCode`,
`IssueTokens`), and `Abandon` ends it after any of them. Between them come
`Logout`, `RevokeAccess`, `RevokeForInstallation` and `Tick`. The tables are
sequences of rows; a row number stands for the digest that names the row.

`LocalAccounts` runs sign-in, reauthentication and password change of one
account: `Load` takes a copy of the account state and a clock reading,
`BeginAttempt` counts the attempt and hands out the verifier, `Verify` checks
it and clears the counter, and `CreateSession` or `ChangePassword` spends the
proof. `Logout` ends a session; `SetClock` moves the clock either way.

### The component modules

Each has its own variables, initial predicate and next-state relation, and one
action per operation, cut where others may come between: at every transaction,
file operation, socket piece, lock or wait of the code.

- `AppAccess` runs the requests of signed-in users on threads of their own:
  launch under a lease, asset reads, runtime control, capability invocation,
  import and uninstall. It works on the state of `PlatformState`, which has the
  manifests, registries, grants and the authorization decisions as values.
- `WireFormat` and `TextNames` are conversions: every declaration through its
  stored form and back any number of times, every short text through every
  parser.
- `AppChannels` has the channel of a running app (connection threads, callers,
  pending calls with a time limit) and the streamed screens (endpoints, tickets).
- `RuntimeSupervisor` is the container of one installation with the supervisor's
  three servers, clients that give up while the server goes on, and Docker
  commands that take effect late; `SupervisorProtocol` their requests, piece by
  piece on connections that may be cut; `ContainerImages` the way from a package
  archive to the image a container runs.
- `AppDatabases` is one file system call at a time of two provider calls for one
  installation, with failures and crashes.
- `PackageTrust` signs, verifies and publishes a directory file by file while it
  is edited; `StoreTrust` fetches store pages under pinned certificates, and
  saves pins through a temporary file.
- `SealedSecrets` seals records and fields under keys that change from start to
  start. `AuditTrail` has the migration of the log, its rows, the spool of the
  operating system and a monitor that pages through it.
- `AccountStore`, `TokenFamilies`, `OidcEndpoints` and `BrowserSignIn` have the
  data of accounts, refresh tokens, OIDC requests and sign-in pages.
- `Gateway` is every route as the sequence of its checks and calls, while the
  session, the mode and the connection may end between two of them.
- `RecoveryMode`, `PersonalFiles` and `ShellSettings` are stores that several
  requests load and change.
- `ShellComposer`, `ShellPages`, `AppBridge` and `DesktopLayout` are the shell:
  how its view is put together, how a page keeps up with it, how app documents
  talk to it, and where it draws icons.

`MCAppOperationJournal`, `MCAppOperationRunner`, `MCPackageService`,
`MCOidcProvider` and `MCLocalAccounts` give constants their values.
`MCComponents` has one small instance of every component module. The components
share no state there, and a behaviour follows one of them, chosen by the
variable `part`; a run over several parts is the sum of their checks, not a
check of their interaction. Properties that several components have for the same
reason are stated once in `MCComponents`, with a conjunct for each.

Definitions introduced by a `Mutant:` comment change a definition the way a
plausible bug would. They are not part of any specification and serve to show
that a property depends on the definition.

### Abstractions

- An app of the operation modules is its declarations: databases or not, the
  kind of OIDC client, container or web, always on or on demand. A plan depends
  on nothing else.
- There the snapshot is the set of installed apps and the set of installations
  users hold a launch grant for. At least one account exists, so that an install
  stores grants.
- The runner module reads an operation in one step and keeps `updated_at`: the
  journal module has torn reads and times, and what remains of time is the
  order of recovery and the revocation of a client, which use `started_at`.
- The calls of two processes to one participant are not interleaved inside one
  call; `RuntimeSupervisor` and `AppDatabases` have what happens when they are.
- An installation identifier is new for every install, as in the code.
- The kind Update exists in the type; nothing creates or resumes one.
- A failure of the service's own work outside the journal leaves what a crash
  before it leaves, so only the crash is an action.
- Scopes, redirect URIs, PKCE and client secrets are left out of
  `OidcProvider`: they refuse a request before or inside a step that then
  changes nothing, which `Abandon` covers. `OidcEndpoints` has them.
- Histories record what no table holds: `late` (the session was logged out when
  its code was consumed), `guesses` (verifiers handed out since the attempt
  counter was last reset), and the like, each marked in its module.
- A password hash is the password with the number of the change, because every
  hash has a new salt. `change_password` has no caller outside the tests yet;
  the model lets a request load, authenticate and change in this order, as they
  do. Refresh token families likewise have no caller in the protocol yet.
- Cryptography, Docker, SQLite, the TPM command and the browser are external
  and modelled by what the code relies on: a sealed value opens only under its
  key and context, a transaction is atomic, a command may fail, hang or take
  effect late, messages to a window that is gone are lost.
- A reboot, which empties the supervisor's runtime directory, is not modelled.

## 2. Runs

| Run | Shows |
|---|---|
| `journal` | Two processes with torn reads, stale copies and a clock that steps back: the journal implements atomic transitions, and never stores what decode refuses. |
| `runner_recovery` | With recovery before new work and up to two crashes or failures anywhere: no container runs without its secret, the snapshot advertises only what exists, what ended stands (what was removed leaves nothing, committed installs stay advertised), no effect is unrecorded, and what was started ends. |
| `service_concurrent` | Requests alone and uninterrupted: the files and grants outside the journal agree with the snapshot. Two requests at the same time, one of which may die or fail: an app is advertised only after an install of it applied every provider step, has at most one installation, and every request is answered. |
| `oidc_flow` | Two requests against each other, a logout, an uninstall and the clock: a grant is used once, nothing outlives its client, a token that resolves rests on a consent and on rows that agree with it, and a code presented after logout gives no token. |
| `accounts_concurrent` | Two requests on one account, right and wrong passwords, a clock set back: the number of guesses is bounded, a proof made with a replaced password opens no session, and a password change ends every session its copy of the state holds, or changes nothing. |
| `app_components` | The parts around installed apps: signing out is final, what is stored recovers, registries say what is the case, an answer settles its own call, a running container has its secret and a removed one leaves nothing, a container runs the image of its archive, data an app wrote is kept, what is published was signed, and a handler calls the platform only when its checks passed. |
| `shell_components` | The parts behind the shell: one revision stands for one state, stored and wire forms read back, credentials open only their own, limits hold, files stay a tree, pins are kept, a reused refresh token ends its family, starts respect the recovery settings, no announcement and no audit event is lost, and pages of an ended session stop. |
| `accounts_password_change` | Violation: a session opened while a password change is under way survives it. |
| `runner_staged_databases` | Violation: a compensation that can never end. |
| `runner_clock_steps_back` | Violation: an uninstall that can never end. |
| `service_interrupted_install` | Violation: a removed installation is advertised again. |
| `service_resurrection` | Violation: a concurrent install undoes an uninstall. |

### What the violations say

*Staged databases.* A crash while the databases of an app are provisioned
leaves a staging directory. A repeated install clears it, but when the install
is compensated instead, `retain_installation` answers `StagingDataExists`, now
and on every later recovery. `CompensationEndsOrIsBlocked`, which
`runner_recovery` checks, says that nothing else stops a compensation.

*Clock.* An uninstall revokes the client at its `started_at`. If the clock was
set back since the installation, `revoked_at >= created_at` fails, and each
retry uses the same time.

*Interrupted install.* The service does not call recovery when it starts. An
install interrupted after it stored the snapshot stays incomplete while its app
is used and uninstalled. The next failing import of that app resumes it, and
its last step stores a snapshot with the installation whose resources are gone.

*Resurrection.* `install_with` loads the snapshot, adds grants and stores it
without a comparison. An uninstall that commits in between is undone.

*Password change.* `change_password` revokes the sessions of the account state
it was given, not those of the table. A login that verified the old password
and creates its session after that state was loaded, and before the change
commits, is missed; its session stays live. In the other direction a session
that was logged out after the load makes the change fail as a whole.

Two neighbours of *Resurrection* are described here rather than run: two
installs that add grants to the same loaded snapshot lose the grants of the
first; and a process that was overtaken by another on its operation can still
activate a container between the deactivation and the removal of the secret by
an uninstall, because only journal transitions are compared and swapped
(`SecretBeforeActivation` fails with two processes and three operations). The
documentation says that every app receives two runtime steps
(`docs/architecture/app-resource-operations.md:38`); the plan of an on-demand
container has only the first, which the model follows.

### Bounds

- `journal`: one operation, two processes, a plan of three steps, two clock
  values. Two processes are enough for one to overtake the other; operations
  do not share state; three steps give a first, a middle and the final one.
- `runner_recovery`: a container with every resource and a web app, two
  operations, two faults. Two operations give an install followed by its own
  removal, or two installs that recovery has to take in order. Two faults
  interrupt an operation and then its recovery.
- `service_concurrent`: three installations of two apps and three operations
  for the requests that run alone (install, remove, install again next to
  another app); two processes, two installations of one plain container, two
  operations and one fault for those that run together: the conflict, the
  recovery of each other's operation, and a request that dies.
- `oidc_flow`: two requests, two clients, two sessions of different users, one
  authorization transaction, two codes and two tokens, a clock from 0 to 1 with
  all lifetimes 1, and an earlier consent of the first user to the second
  client. One transaction suffices for two approvals to race for it; the second
  place for a code and a token is where a second use would show; each row
  expires while the clock runs, and one of the sessions does.
- `accounts_concurrent`: two requests, two passwords, two clock values, at most
  two attempts, two sessions and one change of the password. Each property
  relates two requests, or a request and a logout.
- `app_components`, `shell_components`: two actors wherever actors race, limits
  of one or two so that they are met, one or two faults, and tokens, calls and
  events up to two or three; texts of up to five characters over an alphabet
  with one character of each class the parsers tell apart.

The theorems of section 3 remove the bounds of the first five runs for the
properties they state. Deadlock is not checked where a bound on operations,
calls or faults makes the model stop, which the system does not.

### Fairness

A process that runs is scheduled (`WF` of `RunnerStep`, `Close` and the steps
of a request): the threads are ordinary blocking threads that wait for nothing
but SQLite and bounded commands. The import of an image that an install waits
for is finished (`WF` of `StageImage`). In the host that follows the contract,
recovery is tried again and again while an operation is incomplete (`SF` of
`Recover`, because requests that are answered at once may come in between).
In `shell_components` the server's tasks, a connection's messages and a page's
fetches go on (`WF`): they are timers and loops of the runtime and the browser,
and every fetch is answered or fails. Requests, compensations, logouts and
faults are never assumed to happen. The service has no fairness for recovery,
because the code never schedules it.

## 3. Proofs

Every theorem holds for all values of the constants that satisfy the named
assumptions of its module; TLC evaluates those on every run.

### The journal

`AppOperationJournalProofs` proves, for all operation identifiers, processes,
valid plans and clock values, assuming only that there is an identifier, that
plans pass `validate_plan`, that times are natural numbers and that the value
for a missing operation is not an operation:

- `JournalInvariant`: the type invariant, `StoredOperationsDecode` and
  `CopyIsStoredOrStale`;
- `SnapshotIsLast`: `SnapshotAfterProviders`;
- `JournalRefinesAtomic`: the journal implements `AtomicOperations`;
- `TerminalStaysTerminal`: `TerminalIsFinal`.

The argument. That stored operations decode is not inductive: a stored
operation is the successor of a *copy*. So the inductive invariant `IInv` adds
that a copy decodes (`HeldOperationsDecode`; a torn read that does not is
refused) and that a copy with the stored revision equals the stored operation
(`CopyIsStoredOrStale`), torn reads included: if a transition falls between the
two statements, the copy keeps the old revision and is stale for ever. The
compare-and-swap then accepts only a successor of the stored operation itself,
which gives the refinement. The domain lemma behind it says that every
successor of a decodable operation is decodable; it goes through the
transitions one by one. `SnapshotAfterProviders` follows from decodability, and
`TerminalIsFinal` from the refinement and the absence of successors.

### The runner with any number of processes

`AppOperationRunnerProofs` proves, for any number of processes, installations,
operations, crashes and failures, with or without recovery at startup, assuming
only that manifests are declarations the manifest validator accepts
(`ManifestAssumption`) and the types of the bounds (`RunnerAssumption`):

- `AdvertisedApplied`: `AdvertisedWasApplied`, the snapshot advertises an
  installation only when an install of it has reached the snapshot step, with
  every provider step applied before it, and they stay applied unless that
  install is turned round;
- `OneInstallation`: `OneInstallationPerApp`;
- `RunnerInvariant`: the inductive invariant `RunnerInv` behind both.

The argument. A process works with copies: of the snapshot it loaded when its
request began, of the operation it drives, of the operations it listed for
recovery, and of the snapshot it staged and will store some steps later, when
the journal has moved on. `RunnerInv` says of every such copy what survives
the steps of the others. A copy of an operation is the stored one or has an
older revision, and every step it has begun the journal has begun too
(`CopyOf`). A snapshot that is held or stored
advertises one installation per app, each with an install that has begun every
step (`AppliedIn`, `StateOK`); one that is staged may in addition advertise the installation of
its own install (`StagedOK`). `Moves` says how the journal changes under any
step: entries stay, and each keeps its value or makes `Progress`. `StepOK` is
what a step of one process may do; `StepKeepsInv` shows once that this keeps
the invariant of all processes, and one lemma per action shows that the action
is such a step. The snapshot step is where it comes together: it stores the
staged snapshot only when every step of the copy is begun, and by `CopyOf` the
stored operation, however far others have driven or undone it since, has begun
them too. That it had applied the provider steps then is the order of the plan
(`Ordered`).

### The package service

`PackageServiceProofs` proves that both properties survive the real host
(`ServiceAdvertisesApplied`, `ServiceOneInstallation`): its requests load the
snapshot on their own and store it on their own, without the journal and
without a comparison. `ServiceInv` adds to `RunnerInv` that the snapshot a
request holds may be stored again at any later time. This is also the boundary
of what can be proved: such a store may bring back an uninstalled app
(`service_resurrection`), but never one that was not once installed in full,
and never a second installation of an app.

### The runner under crashes and recovery

`AppResourcesProofs` has the lemmas about the participants, and
`RunnerRecoveryProofs` proves, for any number of installations, operations,
crashes, failures and compensations and for every clock:

- `SecretComesFirst`: `SecretBeforeActivation`, a container with a confidential
  client runs only with its secret delivered;
- `AdvertisedHasResources`: `AdvertisedIsProvisioned`, what the snapshot
  advertises has every resource its plan promised, unless its uninstall or a
  compensation is under way;
- `EndsStand`: `EndedOperationsStand`, a committed install that nothing removed
  is advertised, and a committed uninstall and a finished compensation leave
  nothing behind;
- `EffectsRecorded`: `EffectsAreRecorded`, the resources of an installation
  change, other than by an image being staged, only while the journal shows a
  step in progress in an operation of that installation;
- `RecoveryInvariant`: the inductive invariant `RecoveryInv` behind them.

They assume `OneAtATime`: the host recovers before it starts new work, and it
has one process. This is the contract the runner's documentation states
(startup recovery, `docs/architecture/app-resource-operations.md`), and it is
necessary: the runs `service_interrupted_install` and `service_resurrection`,
and the overtaken process described above, show what happens without it. The
real service does not meet it, which is what those findings say.

The argument. `ResourcesOK` relates the resources to the journal: a resource
whose step is pending or compensated in the install, or applied in the
uninstall, is `Gone`; one whose step is applied in the install, with no
uninstall started, is `Made`; about a step in progress nothing is known, since
a call may have been cut anywhere. So `RemoveEffect` and `ApplyEffect` say what
a participant's call leaves *wherever it stops*: a call that reports success
makes or unmakes its resource, and one that does not, or is cut short, never
unmakes or makes another. Behind them is one lemma per call of a participant,
over all the states it passes through. `HistoryOK` says that one operation is
incomplete at a time, an installation is installed once and removed once, and
its uninstall follows a committed install. `LoneOK` says that what the process
holds is current: its copy is the stored operation, its staged snapshot differs
from the stored one in the installation of its operation only, and a step
that was called has achieved its effect. The properties follow: for example, a
finished compensation has every step pending or compensated, so every resource
is gone.

Two participants do not keep `HasSecret` by themselves: the activation of the
runtime keeps it only when the client is made already, and the removal of the
client only when the runtime is not active. Both come from the order of the
plan, forwards for an install and backwards for a compensation.

### The OpenID provider

`OidcProviderProofs` proves, for any number of sessions, users, clients and
requests, assuming only the types of the constants (`ConstantsAssumption`):

- `GrantsUsedOnce`: `GrantsAreUsedOnce`;
- `ClientLeavesNothing`: `NothingOutlivesItsClient`;
- `LogoutEndsCodes`: `NoTokenAfterLogout`;
- `TokensRestOnConsent`: `ResolvableTokensRestOnConsent`;
- `GrantsExpire`: `LifetimesAddUp`, no delay between the steps stretches a grant
  beyond the sum of the lifetimes;
- `InvHolds`: the type invariant and the inductive invariant `OidcInv`.

The argument. Each property relates rows that different transactions of
different requests wrote, so `OidcInv` follows a grant from row to row.
`CodesFollow` and `TokensFollow` say that a code comes of a consumed transaction
and a token of a consumed code, agrees with it, and expires in time;
`ConsentsStand` that the consent is there as long as the client is active.
`RequestInv` says what a request knows between two of its transactions: the row
it works on exists, and once it has consumed a code (`Holding`) the code names
its client, was not expired at its reading of the clock, and has no token yet;
`RequestsKnow` adds that no two requests hold one code. `OneRequestMoves` shows
once that a step of one request keeps what the others know, because rows are
never taken back. `late` records what no table does, that the session was
logged out when the code was consumed; such a request does not get past the
session check, which comes between consuming the code and issuing the token. A
logout after that check is too late, and the property does not claim otherwise.

### The local accounts

`LocalAccountsProofs` proves, for any number of requests, passwords, sessions
and clock readings in any order, assuming that the limit and the lockout are not
zero and that times are natural numbers (`AccountsAssumption`):

- `GuessesBound`: `GuessesAreBounded`, between two resets of the counter no more
  verifiers are handed out than the policy allows;
- `SessionsAreCurrent`: `SessionsOpenUnderTheCurrentPassword`, a proof made with
  a replaced password opens no session;
- `ChangesEndSessions`: `ChangeEndsEarlierSessions`, a change of the password
  ends every session of the copy it works on;
- `AccountsInvariant`: the inductive invariant `AccountsInv` behind them.

The argument. `CounterCounts` says that the counter of the credential row is
the number of verifiers handed out since its last reset, whichever requests they
went to, and that it reaches the limit only with the account blocked.
`CopyKnowsTheLive` says that of the sessions that existed when a request took its
copy of the account, those still live are live in the copy, because revocation
is for good. The copy may be old, so it says nothing about sessions opened
later, and those are the ones
`accounts_password_change` shows to survive.

### Only model-checked, and why

- Liveness is out of reach of the prover: `ApplyingEnds`,
  `CompensationEndsOrIsBlocked`, `RequestsEnd` and `SignedOutPagesStop`.
- `InstalledAloneIsComplete` relates the snapshot to files and grants the service
  writes outside the journal, for requests that run alone. It needs an invariant
  over the whole of the request, step by step; TLC covers every such sequence up
  to its bounds.
- The properties of the runner that assume one process do not hold for several,
  as the violations and their neighbours show.
- The properties of `app_components` and `shell_components`. Several are about
  texts or sequences of any length, for which a proof needs induction over data.
- What a recursive function computes is checked against a reference definition
  over bounded inputs.

## 4. Not modelled

The recovery tools and the sensors of the operating system image, the backup
program, rendering and styling in the browser, the reducer of the shell's
windows and its session snapshot; and everywhere the display code, the getters
and the wording of errors. `PROJECT.json` says for each part that is modelled in
part what is left out.

## 5. Observations

Behaviour met while reading the code that the models above do not state as a
property; each is a consequence of an order or of a default.

- An import publishes images and assets before its operation exists
  (`package_importer.rs:113`); one that dies there leaves files no operation
  names.
- The service is configured with a single key (`main.rs:69`), so a record sealed
  under an earlier key cannot be read.
- A crash leaves the socket file of the image channel, and the next bind fails
  until it is removed (`docker_image_channel.rs:304`).
- The spool of system events is read from its start after a restart, because
  `processed` starts at zero (`main.rs:438`).
- A backup copies the databases one after another, not at one point in time
  (`lib.rs:88` of the backup crate).
- An app identifier may have 255 characters, the view that shows it 192
  (`snapshot.rs:880`).
- An uninstall whose handler is dropped goes on and leaves no audit record
  (`server.rs:608`).
- A channel request that is inserted after the connection was drained waits for
  its whole time limit (`app_channel.rs:180`).
- Two requests that change the recovery settings load the same file, and the
  later one overwrites the change of the earlier (`server.rs:2101`). The file is
  written in place, so a crash can leave half of it
  (`recovery_settings.rs:50`).
- In the browser, two tabs that open at once each make a key for the session
  snapshot, and the later one is kept (`session-snapshot.ts:113`); closing a
  window gives the focus to the last one of the list, which may be minimized
  (`shell-state.ts:67`).
