---------------------------- MODULE AppOperation ----------------------------
(***************************************************************************)
(* The durable app operation of core/src/app_operations/operation.rs: the  *)
(* resource plan derived from an app's declarations, the phase and step    *)
(* transitions, and the checks a stored operation must pass when it is     *)
(* read back.  The module has no state of its own; AppOperationJournal     *)
(* and AppOperationRunner apply its operators to their journals.           *)
(*                                                                         *)
(* An operation is a record                                                *)
(*   kind, plan, startedAt   fixed when the operation is created;          *)
(*   phase, steps            steps[i] is the state of resource plan[i];    *)
(*   revision, updatedAt     advanced by every transition.                 *)
(* A method of the code that fails leaves the operation unchanged and      *)
(* returns an error: it is a disabled guard here.                          *)
(***************************************************************************)
EXTENDS Naturals, Sequences

Kinds == {"Install", "Update", "Uninstall"}
Phases == {"Applying", "Committed", "Compensating", "Compensated"}
Resources == {"AppDatabases", "RuntimeInstance", "OidcClient",
              "RuntimeActivation", "PlatformSnapshot"}
StepStates == {"Pending", "Applying", "Applied",
               "CompensationPending", "Compensating", "Compensated"}

(***************************************************************************)
(* What a plan depends on in an app manifest.                              *)
(***************************************************************************)
Declarations == [databases : BOOLEAN,
                 oidc      : {"none", "public", "confidential"},
                 runtime   : {"Web", "Container"},
                 lifecycle : {"OnDemand", "AlwaysOn"}]

ActivatesAtInstall(app) ==
    ~ (app.runtime = "Container" /\ app.lifecycle = "OnDemand")

Optional(resource, wanted) == IF wanted THEN <<resource>> ELSE <<>>

(* Mutant: install activates the runtime before the OIDC client exists. *)
PlanActivatingFirst(app, kind) ==
    LET databases == Optional("AppDatabases", app.databases)
        oidc      == Optional("OidcClient", app.oidc # "none")
    IN  IF kind = "Uninstall"
        THEN <<"RuntimeActivation">> \o oidc \o <<"RuntimeInstance">>
                \o databases \o <<"PlatformSnapshot">>
        ELSE databases \o <<"RuntimeInstance", "RuntimeActivation">> \o oidc
                \o <<"PlatformSnapshot">>

(***************************************************************************)
(* for_app: the plan of an operation, derived from the declarations only.  *)
(***************************************************************************)
PlanForApp(app, kind) ==
    LET databases == Optional("AppDatabases", app.databases)
        oidc      == Optional("OidcClient", app.oidc # "none")
    IN  IF kind = "Uninstall"
        THEN <<"RuntimeActivation">> \o oidc \o <<"RuntimeInstance">>
                \o databases \o <<"PlatformSnapshot">>
        ELSE databases \o <<"RuntimeInstance">> \o oidc
                \o Optional("RuntimeActivation", ActivatesAtInstall(app))
                \o <<"PlatformSnapshot">>

ValidatePlan(plan) ==
    /\ Len(plan) > 0
    /\ \A i, j \in 1 .. Len(plan) : plan[i] = plan[j] => i = j
    /\ plan[Len(plan)] = "PlatformSnapshot"

NewOperation(kind, plan, at) ==
    [kind |-> kind, plan |-> plan, startedAt |-> at,
     phase |-> "Applying", steps |-> [i \in 1 .. Len(plan) |-> "Pending"],
     revision |-> 0, updatedAt |-> at]

-----------------------------------------------------------------------------
(***************************************************************************)
(* phase_matches_steps: what decode accepts.  The code walks the steps     *)
(* with a rank that may not decrease.                                      *)
(***************************************************************************)
NonDecreasing(steps, Rank) ==
    /\ \A i \in DOMAIN steps : steps[i] \in DOMAIN Rank
    /\ \A i, j \in DOMAIN steps : i < j => Rank[steps[i]] <= Rank[steps[j]]

AtMostOne(steps, state) ==
    \A i, j \in DOMAIN steps : steps[i] = state /\ steps[j] = state => i = j

ApplyingRank == [Applied |-> 0, Applying |-> 1, Pending |-> 2]

CompensatingRank ==
    [CompensationPending |-> 0, Compensating |-> 1, Compensated |-> 2, Pending |-> 3]

ApplyingStepsAreOrdered(steps) ==
    NonDecreasing(steps, ApplyingRank) /\ AtMostOne(steps, "Applying")

CompensatingStepsAreOrdered(steps) ==
    NonDecreasing(steps, CompensatingRank) /\ AtMostOne(steps, "Compensating")

CompensatedStepsAreOrdered(steps) ==
    /\ \A i \in DOMAIN steps : steps[i] \in {"Compensated", "Pending"}
    /\ \A i, j \in DOMAIN steps :
          i < j /\ steps[i] = "Pending" => steps[j] = "Pending"

PhaseMatchesSteps(phase, steps) ==
    \/ phase = "Applying" /\ ApplyingStepsAreOrdered(steps)
    \/ phase = "Committed" /\ \A i \in DOMAIN steps : steps[i] = "Applied"
    \/ phase = "Compensating" /\ CompensatingStepsAreOrdered(steps)
    \/ phase = "Compensated" /\ CompensatedStepsAreOrdered(steps)

(***************************************************************************)
(* restore_with_target: the checks on an operation read back.              *)
(***************************************************************************)
Restorable(op) ==
    /\ ValidatePlan(op.plan)
    /\ op.updatedAt >= op.startedAt
    /\ PhaseMatchesSteps(op.phase, op.steps)

IsTerminal(op) == op.phase \in {"Committed", "Compensated"}

-----------------------------------------------------------------------------
(***************************************************************************)
(* The transitions.  CanX(op, i) is the guard of method X on plan step i,  *)
(* X(op, i, at) its effect at time at.                                     *)
(***************************************************************************)
Advance(op, at) == [op EXCEPT !.revision = @ + 1, !.updatedAt = at]

SetStep(op, i, state, at) == [Advance(op, at) EXCEPT !.steps[i] = state]

(* Mutant: a step may begin before the ones in front of it are applied. *)
CanBeginResourceInAnyOrder(op, i) == op.phase = "Applying" /\ op.steps[i] = "Pending"

CanBeginResource(op, i) ==
    /\ op.phase = "Applying"
    /\ \A j \in 1 .. i - 1 : op.steps[j] = "Applied"
    /\ op.steps[i] = "Pending"

BeginResource(op, i, at) == SetStep(op, i, "Applying", at)

CanCompleteResource(op, i) == op.phase = "Applying" /\ op.steps[i] = "Applying"

CompleteResource(op, i, at) == SetStep(op, i, "Applied", at)

CanCommit(op) ==
    /\ op.phase = "Applying"
    /\ \A i \in DOMAIN op.steps : op.steps[i] = "Applied"

Commit(op, at) == [Advance(op, at) EXCEPT !.phase = "Committed"]

CanBeginCompensation(op) == op.phase = "Applying"

BeginCompensation(op, at) ==
    [Advance(op, at) EXCEPT
        !.phase = "Compensating",
        !.steps = [i \in DOMAIN op.steps |->
                      IF op.steps[i] \in {"Applying", "Applied"}
                      THEN "CompensationPending" ELSE op.steps[i]]]

CanBeginResourceCompensation(op, i) ==
    /\ op.phase = "Compensating"
    /\ \A j \in i + 1 .. Len(op.plan) :
          op.steps[j] \notin {"CompensationPending", "Compensating"}
    /\ op.steps[i] = "CompensationPending"

BeginResourceCompensation(op, i, at) == SetStep(op, i, "Compensating", at)

CanCompleteResourceCompensation(op, i) ==
    op.phase = "Compensating" /\ op.steps[i] = "Compensating"

CompleteResourceCompensation(op, i, at) == SetStep(op, i, "Compensated", at)

(* Mutant: untouched steps count as uncompensated. *)
CanFinishWhenAllCompensated(op) ==
    /\ op.phase = "Compensating"
    /\ \A i \in DOMAIN op.steps : op.steps[i] = "Compensated"

CanFinishCompensation(op) ==
    /\ op.phase = "Compensating"
    /\ \A i \in DOMAIN op.steps : op.steps[i] \in {"Pending", "Compensated"}

FinishCompensation(op, at) == [Advance(op, at) EXCEPT !.phase = "Compensated"]

(***************************************************************************)
(* The operations one successful method call can turn op into at time at.  *)
(* Every method refuses a time before updated_at.                          *)
(***************************************************************************)
Successors(op, at) ==
    LET Indices == DOMAIN op.steps
    IN  IF at < op.updatedAt THEN {}
        ELSE {BeginResource(op, i, at) :
                i \in {k \in Indices : CanBeginResource(op, k)}}
             \cup {CompleteResource(op, i, at) :
                i \in {k \in Indices : CanCompleteResource(op, k)}}
             \cup {BeginResourceCompensation(op, i, at) :
                i \in {k \in Indices : CanBeginResourceCompensation(op, k)}}
             \cup {CompleteResourceCompensation(op, i, at) :
                i \in {k \in Indices : CanCompleteResourceCompensation(op, k)}}
             \cup {next \in {Commit(op, at)} : CanCommit(op)}
             \cup {next \in {BeginCompensation(op, at)} : CanBeginCompensation(op)}
             \cup {next \in {FinishCompensation(op, at)} : CanFinishCompensation(op)}
=============================================================================
