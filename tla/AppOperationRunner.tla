------------------------- MODULE AppOperationRunner -------------------------
(***************************************************************************)
(* app-operations/src/runner.rs: install, uninstall, compensate_install    *)
(* and recover_incomplete, run by concurrent processes against the shared  *)
(* journal, the participants and the platform snapshot.                    *)
(*                                                                         *)
(* Every durable effect is an action of its own, because a process can be  *)
(* killed, and another can run, between any two of them: a journal         *)
(* transition, a participant call, the commit.  What the code does between *)
(* two effects is part of the action that follows.                         *)
(*                                                                         *)
(* Time matters in two places: the order in which recovery takes the       *)
(* operations, and the revocation of a client.  Both depend on started_at  *)
(* alone, so a transition keeps updated_at (AppOperationJournal checks     *)
(* that part), and operations are read as a whole (it checks torn reads).  *)
(***************************************************************************)
EXTENDS AppOperation, AppResources

CONSTANTS Processes,      \* threads or command-line runs using a runner
          Installations,  \* installation identifiers
          AppOf,          \* the app each of them is an installation of
          Manifest,       \* the declarations of each app
          MaxOperations,  \* bound on the number of operations
          MaxFaults,      \* bound on the crashes and participant failures
          StartupRecovery, \* whether new work waits for recovery to finish
          NoOperation     \* an identifier that is not in the journal

VARIABLES journal,    \* the stored operations
          target,     \* the installation each stored operation is about
          snapshot,   \* the stored platform snapshot
          resources,  \* the participants' state of every installation
          proc,       \* the processes
          faults      \* crashes and participant failures so far

durable == <<journal, target, snapshot, resources>>
vars == <<durable, proc, faults>>

OperationIds == 1 .. MaxOperations

App(i) == Manifest[AppOf[i]]

ASSUME ManifestAssumption ==
    \A i \in Installations :
        /\ App(i) \in Declarations
        /\ App(i).oidc = "confidential" => App(i).runtime = "Container"
        /\ App(i).oidc = "public" => App(i).runtime = "Web"

(***************************************************************************)
(* The operations of the runner: it has no update, and plans come from     *)
(* for_app.  Times are seconds since the epoch.                            *)
(***************************************************************************)
RunnerKinds == {"Install", "Uninstall"}

Plans == {PlanForApp(App(i), kind) : i \in Installations, kind \in RunnerKinds}

Operation ==
    {op \in [kind : RunnerKinds, plan : Plans, startedAt : Times, phase : Phases,
             steps : Seq(StepStates), revision : Nat, updatedAt : Times] :
        Len(op.steps) = Len(op.plan)}

ASSUME RunnerAssumption ==
    /\ MaxOperations \in Nat /\ Times \subseteq Nat
    /\ NoOperation \notin Operation

(***************************************************************************)
(* A platform state, live or staged or stored: the installed apps, and the *)
(* installations that users hold a launch grant for, which the runner      *)
(* passes along.                                                           *)
(***************************************************************************)
NoState == [apps |-> {}, grants |-> {}]

(***************************************************************************)
(* A process: live is the platform state its request loaded; id and op are *)
(* the operation it works on and staged the state it will publish; called  *)
(* tells that the participant of the current step has returned; todo is    *)
(* what is left of a recovery.                                             *)
(***************************************************************************)
Idle == [pc |-> "idle", live |-> NoState, id |-> 0, op |-> NoOperation,
         staged |-> NoState, called |-> FALSE, todo |-> <<>>]

Init ==
    /\ journal = [id \in OperationIds |-> NoOperation]
    /\ target = [id \in OperationIds |-> CHOOSE i \in Installations : TRUE]
    /\ snapshot = NoState
    /\ resources = [i \in Installations |-> NoResources]
    /\ proc = [p \in Processes |-> Idle]
    /\ faults = 0

Stored == {id \in OperationIds : journal[id] # NoOperation}
Incomplete == {id \in Stored : ~ IsTerminal(journal[id])}

-----------------------------------------------------------------------------
(* Mutant: only the same installation conflicts. *)
ConflictsByInstallation(live, i) == i \in live.apps

(***************************************************************************)
(* Staging.  The result is the set of staged states, empty on an error: an *)
(* app has at most one installation.                                       *)
(***************************************************************************)
Conflicts(live, i) == \E j \in live.apps \ {i} : AppOf[j] = AppOf[i]

StageInstallTarget(live, i) ==
    IF Conflicts(live, i) THEN {} ELSE {[live EXCEPT !.apps = @ \cup {i}]}

StageWithoutTarget(live, i) ==
    IF Conflicts(live, i) THEN {} ELSE {[live EXCEPT !.apps = @ \ {i}]}

(***************************************************************************)
(* A call of the runner returns; its process keeps the live state.         *)
(***************************************************************************)
Returned(self, outcome) == [Idle EXCEPT !.pc = outcome, !.live = self.live]

Return(p, outcome) == proc' = [proc EXCEPT ![p] = Returned(@, outcome)]

Working(live, id, op, staged, todo) ==
    [pc |-> "running", live |-> live, id |-> id, op |-> op,
     staged |-> staged, called |-> FALSE, todo |-> todo]

(* Mutant: a stale transition is tried again instead of reported. *)
StoreTransitionRetrying(p, next, after) ==
    LET id == proc[p].id IN
    IF journal[id].revision + 1 = next.revision
    THEN /\ journal' = [journal EXCEPT ![id] = next]
         /\ proc' = [proc EXCEPT ![p] = after]
    ELSE UNCHANGED <<journal, proc>>

(***************************************************************************)
(* store_transition: a stale transition fails the call.                    *)
(***************************************************************************)
StoreTransition(p, next, after) ==
    LET id == proc[p].id IN
    IF journal[id].revision + 1 = next.revision
    THEN /\ journal' = [journal EXCEPT ![id] = next]
         /\ proc' = [proc EXCEPT ![p] = after]
    ELSE /\ Return(p, "error")
         /\ UNCHANGED journal

CreateOperation(p, kind, i, live, staged) ==
    \E id \in OperationIds \ Stored, at \in Times :
        LET op == NewOperation(kind, PlanForApp(App(i), kind), at)
        IN  /\ journal' = [journal EXCEPT ![id] = op]
            /\ target' = [target EXCEPT ![id] = i]
            /\ proc' = [proc EXCEPT ![p] = Working(live, id, op, staged, <<>>)]

(***************************************************************************)
(* install and uninstall, up to the creation of the journal entry.         *)
(***************************************************************************)
Install(p, i, live) ==
    /\ \A id \in Stored : target[id] # i
    /\ IF Conflicts(live, i)
       THEN /\ proc' = [proc EXCEPT ![p] = [Idle EXCEPT !.pc = "error", !.live = live]]
            /\ UNCHANGED <<journal, target>>
       ELSE \E staged \in StageInstallTarget(live, i) :
                CreateOperation(p, "Install", i, live, staged)
    /\ UNCHANGED <<snapshot, resources, faults>>

Uninstall(p, i, live) ==
    /\ i \in live.apps
    /\ \E staged \in StageWithoutTarget(live, i) :
           CreateOperation(p, "Uninstall", i, live, staged)
    /\ UNCHANGED <<snapshot, resources, faults>>

(***************************************************************************)
(* compensate_install: the operation is found, then its compensation is    *)
(* recorded, and only then is the removal staged.                          *)
(***************************************************************************)
FindInstall(p, id, live) ==
    /\ id \in Stored
    /\ proc' = [proc EXCEPT ![p] =
          IF journal[id].kind = "Install" /\ ~ IsTerminal(journal[id])
          THEN [Idle EXCEPT !.pc = "found", !.live = live, !.id = id, !.op = journal[id]]
          ELSE [Idle EXCEPT !.pc = "error", !.live = live]]
    /\ UNCHANGED <<durable, faults>>

CompensateInstall(p) ==
    /\ proc[p].pc = "found"
    /\ LET self == proc[p]
           found == self.op
           op == IF found.phase = "Applying"
                 THEN BeginCompensation(found, found.updatedAt) ELSE found
           staging == StageWithoutTarget(self.live, target[self.id])
           after == IF staging = {} THEN {Returned(self, "error")}
                    ELSE {Working(self.live, self.id, op, staged, <<>>) : staged \in staging}
       IN  \E next \in after :
              IF found.phase = "Applying" THEN StoreTransition(p, op, next)
              ELSE proc' = [proc EXCEPT ![p] = next] /\ UNCHANGED journal
    /\ UNCHANGED <<target, snapshot, resources, faults>>

-----------------------------------------------------------------------------
(***************************************************************************)
(* recover_incomplete.  list_incomplete selects the identifiers in start   *)
(* order and then loads each operation.                                    *)
(***************************************************************************)
StartOrder(a, b) ==
    \/ journal[a].startedAt < journal[b].startedAt
    \/ journal[a].startedAt = journal[b].startedAt /\ a < b

ListIncomplete(p, live) ==
    /\ \E n \in 0 .. MaxOperations : \E order \in [1 .. n -> Incomplete] :
          /\ \A id \in Incomplete : \E k \in 1 .. n : order[k] = id
          /\ \A a, b \in 1 .. n : a < b => StartOrder(order[a], order[b])
          /\ proc' = [proc EXCEPT ![p] =
                [Idle EXCEPT !.pc = "listing", !.live = live,
                             !.todo = [k \in 1 .. n |->
                                         [id |-> order[k], op |-> NoOperation]]]]
    /\ UNCHANGED <<durable, faults>>

LoadIncomplete(p) ==
    /\ proc[p].pc = "listing"
    /\ LET listed == proc[p].todo
       IN  proc' = [proc EXCEPT
              ![p].pc = "recovering",
              ![p].todo = [k \in DOMAIN listed |->
                             [listed[k] EXCEPT !.op = journal[listed[k].id]]]]
    /\ UNCHANGED <<durable, faults>>

(***************************************************************************)
(* The loop of recover_incomplete: any error ends it.                      *)
(***************************************************************************)
ResumeNext(p) ==
    /\ proc[p].pc = "recovering"
    /\ LET self == proc[p]
           rest == Tail(self.todo)
           id   == Head(self.todo).id
           op   == Head(self.todo).op
           staging == IF IsTerminal(op) THEN {}
                      ELSE IF op.kind = "Install" /\ op.phase = "Applying"
                      THEN StageInstallTarget(self.live, target[id])
                      ELSE StageWithoutTarget(self.live, target[id])
       IN  IF self.todo = <<>> THEN Return(p, "ok")
           ELSE \/ \E staged \in staging :
                     proc' = [proc EXCEPT ![p] =
                                Working(self.live, id, op, staged, rest)]
                \/ staging = {} /\ Return(p, "error")
    /\ UNCHANGED <<durable, faults>>

-----------------------------------------------------------------------------
(***************************************************************************)
(* The loops of apply_install, apply_uninstall and                         *)
(* compensate_install_operation.  They differ in the transitions they use, *)
(* in the direction, and in what a participant is asked to do.             *)
(***************************************************************************)
Running(p) == proc[p].pc = "running"

(* Mutant: the step begins in memory only. *)
BeginStepUnrecorded(p) ==
    /\ Running(p)
    /\ \E k \in DOMAIN proc[p].op.steps :
          LET op == proc[p].op
          IN  /\ CanBeginResource(op, k)
              /\ proc' = [proc EXCEPT ![p].op = BeginResource(op, k, op.updatedAt)]
    /\ UNCHANGED <<durable, faults>>

(***************************************************************************)
(* The step is recorded before its participant is called.                  *)
(***************************************************************************)
BeginStep(p) ==
    /\ Running(p)
    /\ LET self == proc[p]
           op   == self.op
           Store(next) == StoreTransition(p, next, [self EXCEPT !.op = next])
       IN  \E k \in DOMAIN op.steps :
              \/ CanBeginResource(op, k) /\ Store(BeginResource(op, k, op.updatedAt))
              \/ /\ CanBeginResourceCompensation(op, k)
                 /\ Store(BeginResourceCompensation(op, k, op.updatedAt))
    /\ UNCHANGED <<target, snapshot, resources, faults>>

(***************************************************************************)
(* What the participant of step k is asked to do.                          *)
(***************************************************************************)
Participant(op, k, i) ==
    IF op.kind = "Install" /\ op.phase = "Applying"
    THEN ApplyResource(op.plan[k], resources[i], App(i), op.startedAt)
    ELSE RemoveResource(op.plan[k], resources[i], op.startedAt)

InProgress(op) == {k \in DOMAIN op.steps : op.steps[k] \in {"Applying", "Compensating"}}

(***************************************************************************)
(* The participant of the step in progress is called, after the step was   *)
(* recorded or because it was found recorded.  A fault stops the call      *)
(* anywhere on its way, and the runner returns the error.                *)
(***************************************************************************)
CallParticipant(p) ==
    /\ Running(p)
    /\ ~ proc[p].called
    /\ \E k \in InProgress(proc[p].op) :
        LET self == proc[p]
            i    == target[self.id]
            call == Participant(self.op, k, i)
        IN  /\ self.op.plan[k] # "PlatformSnapshot"
            /\ \/ /\ resources' = [resources EXCEPT ![i] = call.end]
                  /\ IF call.ok THEN proc' = [proc EXCEPT ![p].called = TRUE]
                                ELSE Return(p, "error")
                  /\ UNCHANGED faults
               \/ /\ faults < MaxFaults
                  /\ faults' = faults + 1
                  /\ \E r \in call.through :
                        resources' = [resources EXCEPT ![i] = r]
                  /\ Return(p, "error")
    /\ UNCHANGED <<journal, target, snapshot>>

(***************************************************************************)
(* The last participant: the snapshot is replaced as a whole by the staged *)
(* state, whatever is stored by now.                                       *)
(***************************************************************************)
StoreSnapshot(p) ==
    /\ Running(p)
    /\ ~ proc[p].called
    /\ \E k \in InProgress(proc[p].op) : proc[p].op.plan[k] = "PlatformSnapshot"
    /\ \/ /\ snapshot' = proc[p].staged
          /\ proc' = [proc EXCEPT ![p].called = TRUE]
          /\ UNCHANGED faults
       \/ /\ faults < MaxFaults
          /\ faults' = faults + 1
          /\ Return(p, "error")
          /\ UNCHANGED snapshot
    /\ UNCHANGED <<journal, target, resources>>

CompleteStep(p) ==
    /\ Running(p)
    /\ proc[p].called
    /\ LET self == proc[p]
           op   == self.op
           Store(next) == StoreTransition(p, next,
                             [self EXCEPT !.op = next, !.called = FALSE])
       IN  \E k \in InProgress(op) :
              Store(IF op.phase = "Applying"
                    THEN CompleteResource(op, k, op.updatedAt)
                    ELSE CompleteResourceCompensation(op, k, op.updatedAt))
    /\ UNCHANGED <<target, snapshot, resources, faults>>

(***************************************************************************)
(* commit or finish_compensation; only then is the staged state live.      *)
(***************************************************************************)
Finish(p) ==
    /\ Running(p)
    /\ LET self == proc[p]
           op   == self.op
           next == IF op.phase = "Applying" THEN Commit(op, op.updatedAt)
                   ELSE FinishCompensation(op, op.updatedAt)
           done == [Idle EXCEPT !.live = self.staged, !.todo = self.todo,
                                !.pc = IF self.todo = <<>> THEN "ok"
                                       ELSE "recovering"]
       IN  /\ CanCommit(op) \/ CanFinishCompensation(op)
           /\ StoreTransition(p, next, done)
    /\ UNCHANGED <<target, snapshot, resources, faults>>

RunnerStep(p) ==
    \/ CompensateInstall(p)
    \/ LoadIncomplete(p)
    \/ ResumeNext(p)
    \/ BeginStep(p)
    \/ CallParticipant(p)
    \/ StoreSnapshot(p)
    \/ CompleteStep(p)
    \/ Finish(p)

(***************************************************************************)
(* The process is killed, perhaps in the middle of a participant call.     *)
(***************************************************************************)
CutShort(p) ==
    {resources} \cup
    UNION {LET i == target[proc[p].id]
               call == Participant(proc[p].op, k, i)
           IN  {[resources EXCEPT ![i] = r] : r \in call.through} :
               k \in IF Running(p) /\ ~ proc[p].called
                     THEN {k \in InProgress(proc[p].op) :
                              proc[p].op.plan[k] # "PlatformSnapshot"}
                     ELSE {}}

Crash(p) ==
    /\ proc[p].pc # "idle"
    /\ faults < MaxFaults
    /\ faults' = faults + 1
    /\ resources' \in CutShort(p)
    /\ proc' = [proc EXCEPT ![p] = Idle]
    /\ UNCHANGED <<journal, target, snapshot>>

-----------------------------------------------------------------------------
(***************************************************************************)
(* A host that follows the contract of the runner: every request loads the *)
(* stored snapshot, and, with StartupRecovery, no new operation is started *)
(* while one is incomplete, because recovery runs first.                   *)
(***************************************************************************)
MayStart == StartupRecovery => Incomplete = {}

Request(p) ==
    /\ proc[p].pc = "idle"
    /\ \/ MayStart /\ \E i \in Installations : Install(p, i, snapshot)
       \/ MayStart /\ \E i \in Installations : Uninstall(p, i, snapshot)
       \/ \E id \in OperationIds : FindInstall(p, id, snapshot)

Recover(p) ==
    /\ proc[p].pc = "idle"
    /\ Incomplete # {}
    /\ ListIncomplete(p, snapshot)

Close(p) ==
    /\ proc[p].pc \in {"ok", "error"}
    /\ proc' = [proc EXCEPT ![p] = Idle]
    /\ UNCHANGED <<durable, faults>>

(***************************************************************************)
(* The package import stages the container image of an installation whose  *)
(* install is in progress.                                                 *)
(***************************************************************************)
StageImage(i) ==
    /\ \E id \in Incomplete : target[id] = i /\ journal[id].kind = "Install"
    /\ App(i).runtime = "Container"
    /\ ~ resources[i].image
    /\ resources' = [resources EXCEPT ![i].image = TRUE]
    /\ UNCHANGED <<journal, target, snapshot, proc, faults>>

Next ==
    \/ \E p \in Processes :
          Request(p) \/ Recover(p) \/ RunnerStep(p) \/ Crash(p) \/ Close(p)
    \/ \E i \in Installations : StageImage(i)

Spec == Init /\ [][Next]_vars

(***************************************************************************)
(* A process that runs is scheduled, and the host recovers again and again *)
(* while an operation is incomplete.  Requests, compensation and faults    *)
(* need not happen.                                                        *)
(***************************************************************************)
Fairness ==
    /\ \A p \in Processes :
          /\ WF_vars(RunnerStep(p))
          /\ SF_vars(Recover(p))
          /\ WF_vars(Close(p))
    /\ \A i \in Installations : WF_vars(StageImage(i))

FairSpec == Spec /\ Fairness

-----------------------------------------------------------------------------
OperationsOf(i) == {id \in Stored : target[id] = i}

BeingRemoved(i) ==
    \E id \in OperationsOf(i) :
        \/ journal[id].kind = "Uninstall" /\ journal[id].phase = "Applying"
        \/ journal[id].phase = "Compensating"

(***************************************************************************)
(* A container that was given OIDC credentials never runs without them:    *)
(* activation follows delivery, and removal deactivates first.             *)
(***************************************************************************)
SecretBeforeActivation ==
    \A i \in Installations :
        App(i).oidc = "confidential" /\ resources[i].runtime = "Active"
            => resources[i].delivered

(***************************************************************************)
(* The stored snapshot advertises only apps whose resources all exist,     *)
(* except while their removal is under way (StoreSnapshot is last).        *)
(***************************************************************************)
AdvertisedIsProvisioned ==
    \A i \in snapshot.apps :
        BeingRemoved(i) \/ IsProvisioned(resources[i], App(i), ActivatesAtInstall(App(i)))

(***************************************************************************)
(* The same promise in terms of the journal, which concurrent processes    *)
(* keep too: an app is not advertised before an install of it has reached  *)
(* the snapshot, its last step, with all its provider steps completed; as  *)
(* long as the install is not turned round they stay so.                   *)
(***************************************************************************)
AdvertisedWasApplied ==
    \A i \in snapshot.apps :
        \E id \in OperationsOf(i) :
            /\ journal[id].kind = "Install"
            /\ \A k \in DOMAIN journal[id].steps : journal[id].steps[k] # "Pending"
            /\ journal[id].phase \in {"Applying", "Committed"} =>
                  \A k \in 1 .. Len(journal[id].plan) - 1 : journal[id].steps[k] = "Applied"

(***************************************************************************)
(* A committed uninstall and a finished compensation leave no container,   *)
(* no client, no secret, no open database and no snapshot entry.           *)
(***************************************************************************)
RemovedLeavesNothing ==
    \A id \in Stored :
        \/ journal[id].phase = "Compensated"
        \/ journal[id].kind = "Uninstall" /\ journal[id].phase = "Committed"
        => IsRemoved(resources[target[id]]) /\ target[id] \notin snapshot.apps

(***************************************************************************)
(* A committed install stays in the stored snapshot until its removal      *)
(* begins, whatever the other operations store.                            *)
(***************************************************************************)
InstalledStaysAdvertised ==
    \A id \in Stored :
        journal[id].kind = "Install" /\ journal[id].phase = "Committed"
            => \/ target[id] \in snapshot.apps
               \/ \E other \in OperationsOf(target[id]) : journal[other].kind = "Uninstall"

(***************************************************************************)
(* What an ended operation did stands: removals leave nothing behind, and  *)
(* later operations, crashes and recoveries take no installation away.     *)
(***************************************************************************)
EndedOperationsStand == RemovedLeavesNothing /\ InstalledStaysAdvertised

(***************************************************************************)
(* An app has at most one installation in the stored snapshot.             *)
(***************************************************************************)
OneInstallationPerApp ==
    \A i, j \in snapshot.apps : AppOf[i] = AppOf[j] => i = j

(***************************************************************************)
(* No effect is unrecorded: resources change, other than by an image being *)
(* staged, only while the journal shows a step in progress for them, so    *)
(* recovery knows of every effect that a crash may have cut short.         *)
(***************************************************************************)
EffectsAreRecorded ==
    [][\A i \in Installations :
          [resources[i] EXCEPT !.image = TRUE] # [resources'[i] EXCEPT !.image = TRUE]
              => \E id \in OperationsOf(i) : InProgress(journal[id]) # {}]_vars

(***************************************************************************)
(* Recovery finishes what was started: an operation that applies commits   *)
(* or is turned into a compensation, however often it was interrupted.     *)
(***************************************************************************)
ApplyingEnds ==
    \A id \in OperationIds :
        id \in Stored /\ journal[id].phase = "Applying"
            ~> id \in Stored /\ journal[id].phase # "Applying"

(***************************************************************************)
(* Startup recovery resumes an interrupted compensation to its end.        *)
(***************************************************************************)
CompensationEnds ==
    \A id \in OperationIds :
        id \in Stored /\ journal[id].phase = "Compensating"
            ~> id \in Stored /\ journal[id].phase = "Compensated"

(***************************************************************************)
(* What holds of it: only a database directory that an interrupted         *)
(* provisioning left staged, which retain_installation refuses, keeps a    *)
(* compensation from its end.                                              *)
(***************************************************************************)
CompensationEndsOrIsBlocked ==
    \A id \in OperationIds :
        id \in Stored /\ journal[id].phase = "Compensating"
            ~> /\ id \in Stored
               /\ \/ journal[id].phase = "Compensated"
                  \/ resources[target[id]].databases = "Staged"
=============================================================================
