---------------------------- MODULE RecoveryMode -----------------------------
(***************************************************************************)
(* The recovery settings and the requests that read, change and obey them: *)
(* platform-web/src/recovery_settings.rs, and in platform-web/src/         *)
(* server.rs the launch and the runtime actions of an app, the restart,    *)
(* the self-heal, the repair after a crash report, the quarantine and the  *)
(* settings form.                                                          *)
(*                                                                         *)
(* The settings are a JSON file that fs::write truncates before it writes; *)
(* no lock is held between a load and what follows from it, and a file     *)
(* that does not parse counts as the defaults.                             *)
(***************************************************************************)
EXTENDS Integers, Sequences, SequencesExt

CONSTANTS RecoveryApps,    \* apps of the user
          AlwaysOn,        \* those self-heal starts, in catalog order
          Workers,         \* requests served at a time
          DisabledLimit,   \* 64 in the code
          MaxRecoveryRequests,
          NoSettings

ASSUME RecoveryBounds == DisabledLimit \in Nat \ {0} /\ MaxRecoveryRequests \in Nat

VARIABLES recoveryFile,    \* the settings on disk, NoSettings while they do not parse
          running,         \* apps whose runtime runs
          worker,          \* what each worker is doing
          served           \* requests taken so far

recoveryVars == <<recoveryFile, running, worker, served>>

DefaultSettings == [autoRepair |-> TRUE, safeMode |-> FALSE, disabled |-> <<>>]

\* The forms a user may send.
Forms == [autoRepair : {TRUE}, safeMode : BOOLEAN, disabled : {<<>>}]

IdleWorker == [kind |-> "none", app |-> "none", step |-> "idle", sees |-> NoSettings,
               todo |-> <<>>, since |-> NoSettings, starts |-> FALSE]

RecoveryInit ==
    /\ recoveryFile = DefaultSettings
    /\ running = RecoveryApps
    /\ worker = [w \in Workers |-> IdleWorker]
    /\ served = 0

LoadedSettings == IF recoveryFile = NoSettings THEN DefaultSettings ELSE recoveryFile

IsDisabled(s, a) == a \in Range(s.disabled)

\* Kinds of request that start a runtime without the user having asked for it.
Automatic == {"repair", "heal"}

Starting == {"launch", "start", "restart"} \union Automatic

\* What the complete settings on disk say about a request of this kind.
Forbids(file, kind, app) ==
    /\ file # NoSettings /\ kind \in Starting
    /\ (file.safeMode \/ (kind \in Automatic /\ IsDisabled(file, app)))

------------------------------------------------------------------------------

BeginRecoveryRequest(w, kind, app) ==
    /\ worker[w].step = "idle" /\ served < MaxRecoveryRequests
    /\ kind = "heal" => app = AlwaysOn[1]
    /\ served' = served + 1
    /\ worker' = [worker EXCEPT ![w] =
         [IdleWorker EXCEPT !.kind = kind, !.app = app, !.step = "load",
                            !.todo = IF kind = "heal" THEN Tail(AlwaysOn) ELSE <<>>,
                            !.since = recoveryFile]]
    /\ UNCHANGED <<recoveryFile, running>>

\* The settings form carries its values and loads nothing.
BeginForm(w, form) ==
    /\ worker[w].step = "idle" /\ served < MaxRecoveryRequests
    /\ served' = served + 1
    /\ worker' = [worker EXCEPT ![w] = [IdleWorker EXCEPT !.kind = "form",
                                                          !.step = "truncate",
                                                          !.sees = form]]
    /\ UNCHANGED <<recoveryFile, running>>

\* The list after a quarantine or a release: the app moves to the end, and the first
\* entry gives way when there are too many.
Quarantined(s, app, disable) ==
    LET others == SelectSeq(s.disabled, LAMBDA a : a # app)
        list == IF disable THEN Append(others, app) ELSE others
    IN [s EXCEPT !.disabled = IF disable /\ Len(list) > DisabledLimit
                              THEN Tail(list) ELSE list]

(* Mutant: a restart looks at nothing. *)
FirstStepIgnoringSafeMode(kind, app, s) ==
    CASE kind \in {"launch", "start"} -> IF s.safeMode THEN "idle" ELSE "start"
      [] kind = "restart" -> "stop"
      [] kind = "repair" -> IF s.autoRepair /\ ~s.safeMode /\ ~IsDisabled(s, app)
                            THEN "stop" ELSE "idle"
      [] kind = "heal" -> "status"
      [] OTHER -> "truncate"

\* Where a request goes with the settings it has loaded.
FirstStep(kind, app, s) ==
    CASE kind \in {"launch", "start", "restart"} /\ s.safeMode -> "idle"
      [] kind \in {"launch", "start"} /\ ~s.safeMode -> "start"
      [] kind = "restart" /\ ~s.safeMode -> "stop"
      [] kind = "repair" -> IF s.autoRepair /\ ~s.safeMode /\ ~IsDisabled(s, app)
                            THEN "stop" ELSE "idle"
      [] kind = "heal" -> "status"
      [] OTHER -> "truncate"

WorkerGoes(w, step) ==
    worker' = [worker EXCEPT ![w] = IF step = "idle" THEN IdleWorker
                                    ELSE [@ EXCEPT !.step = step]]

LoadMode(w) ==
    LET job == worker[w] IN
    /\ job.step = "load"
    /\ LET step == FirstStep(job.kind, job.app, LoadedSettings)
           sees == CASE job.kind = "quarantine" -> Quarantined(LoadedSettings, job.app, TRUE)
                     [] job.kind = "release" -> Quarantined(LoadedSettings, job.app, FALSE)
                     [] OTHER -> LoadedSettings
       IN worker' = [worker EXCEPT ![w] = IF step = "idle" THEN IdleWorker
                                          ELSE [@ EXCEPT !.step = step, !.sees = sees]]
    /\ UNCHANGED <<recoveryFile, running, served>>

\* since is history: what was on disk when a request began, as long as it stays there.
OthersLoseSight(w, job) ==
    [v \in Workers |-> IF v = w THEN job ELSE [worker[v] EXCEPT !.since = NoSettings]]

\* fs::write: the file is empty until the text is written, and stays so when that fails.
TruncateSettings(w) ==
    /\ worker[w].step = "truncate"
    /\ recoveryFile' = NoSettings
    /\ worker' = OthersLoseSight(w, [worker[w] EXCEPT !.step = "write"])
    /\ UNCHANGED <<running, served>>

\* A second writer that truncated before the first one wrote overwrites its text, and
\* what is left of a longer one does not parse.
WriteSettings(w) ==
    LET job == worker[w] IN
    /\ job.step = "write"
    /\ \/ recoveryFile' = job.sees
       \/ recoveryFile # NoSettings /\ recoveryFile' = NoSettings
    /\ worker' = OthersLoseSight(w, IF job.kind = "quarantine"
                                    THEN [job EXCEPT !.step = "stop"] ELSE IdleWorker)
    /\ UNCHANGED <<running, served>>

WriteFails(w) ==
    /\ worker[w].step = "write"
    /\ WorkerGoes(w, "idle")
    /\ UNCHANGED <<recoveryFile, running, served>>

\* Self-heal goes on to its next app, whatever became of this one.
HealNext(w) ==
    LET job == worker[w] IN
    IF job.todo = <<>> THEN WorkerGoes(w, "idle")
    ELSE worker' = [worker EXCEPT ![w].app = Head(job.todo), ![w].todo = Tail(job.todo),
                                  ![w].step = "status", ![w].starts = FALSE]

\* An app that is disabled, running, in safe mode or without a status is passed over.
HealStatus(w) ==
    LET job == worker[w] IN
    /\ job.step = "status"
    /\ \/ /\ ~IsDisabled(job.sees, job.app) /\ job.app \notin running /\ ~job.sees.safeMode
          /\ WorkerGoes(w, "start")
       \/ HealNext(w)
    /\ UNCHANGED <<recoveryFile, running, served>>

\* The runtime calls; each may be refused, which ends a restart or a repair.
StopApp(w) ==
    LET job == worker[w] IN
    /\ job.step = "stop"
    /\ \/ /\ running' = running \ {job.app}
          /\ WorkerGoes(w, IF job.kind = "quarantine" THEN "idle" ELSE "start")
       \/ UNCHANGED running /\ WorkerGoes(w, "idle")
    /\ UNCHANGED <<recoveryFile, served>>

StartApp(w) ==
    LET job == worker[w] IN
    /\ job.step = "start"
    /\ \/ /\ running' = IF job.kind = "launch" THEN running ELSE running \union {job.app}
          /\ worker' = [worker EXCEPT ![w].step = "answer", ![w].starts = TRUE]
       \/ /\ UNCHANGED running
          /\ worker' = [worker EXCEPT ![w].step = "answer"]
    /\ UNCHANGED <<recoveryFile, served>>

AnswerRecovery(w) ==
    /\ worker[w].step = "answer"
    /\ IF worker[w].kind = "heal" THEN HealNext(w) ELSE WorkerGoes(w, "idle")
    /\ UNCHANGED <<recoveryFile, running, served>>

AppCrashes(a) ==
    /\ a \in running
    /\ running' = running \ {a}
    /\ UNCHANGED <<recoveryFile, worker, served>>

WorkerStep(w) ==
    \/ \E kind \in Starting \union {"quarantine", "release"} : \E app \in RecoveryApps :
          BeginRecoveryRequest(w, kind, app)
    \/ \E form \in Forms : BeginForm(w, form)
    \/ LoadMode(w) \/ TruncateSettings(w) \/ WriteSettings(w) \/ WriteFails(w)
    \/ HealStatus(w) \/ StopApp(w) \/ StartApp(w) \/ AnswerRecovery(w)

RecoveryNext ==
    \/ \E w \in Workers : WorkerStep(w)
    \/ \E a \in RecoveryApps : AppCrashes(a)

RecoverySpec == RecoveryInit /\ [][RecoveryNext]_recoveryVars

------------------------------------------------------------------------------
(* Properties *)

\* Safe mode and the quarantine are obeyed by every request that began after they were
\* saved: while the same settings stay on disk, no launch, start, restart, repair or
\* self-heal gets past them, whatever the other requests do to the app.  A request
\* that loaded the settings before is not stopped, and a save under way counts as the
\* defaults; since keeps track of both.
StartsRespectRecoveryMode ==
    \A w \in Workers :
        Forbids(worker[w].since, worker[w].kind, worker[w].app) => ~worker[w].starts
==============================================================================
