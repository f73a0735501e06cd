---------------------- MODULE AppOperationRunnerProofs ----------------------
(***************************************************************************)
(* The operation runner with any number of threads, installations and      *)
(* operations, crashes and failures anywhere: the snapshot advertises only *)
(* what an operation applied, and one installation of an app.  The         *)
(* inductive invariant follows every copy of an operation and every        *)
(* snapshot a thread holds: a copy is never ahead of the journal, and a    *)
(* snapshot that is still to be stored advertises nothing but what was     *)
(* applied by then or is installed by the operation that stores it.        *)
(***************************************************************************)
EXTENDS AppOperationRunner, TLAPS

(***************************************************************************)
(* Plans.  for_app lists the resources in one order for an install and in  *)
(* another for an uninstall; the rank of a resource is its place in it.    *)
(***************************************************************************)
Rank(kind) ==
    IF kind = "Uninstall"
    THEN [RuntimeActivation |-> 1, OidcClient |-> 2, RuntimeInstance |-> 3,
          AppDatabases |-> 4, PlatformSnapshot |-> 5]
    ELSE [AppDatabases |-> 1, RuntimeInstance |-> 2, OidcClient |-> 3,
          RuntimeActivation |-> 4, PlatformSnapshot |-> 5]

Planned(app, kind) ==
    {"RuntimeInstance", "PlatformSnapshot"}
        \cup (IF app.databases THEN {"AppDatabases"} ELSE {})
        \cup (IF app.oidc # "none" THEN {"OidcClient"} ELSE {})
        \cup (IF kind = "Uninstall" \/ ActivatesAtInstall(app) THEN {"RuntimeActivation"}
              ELSE {})

\* plan holds the resources of S, each once, by ascending rank.
Lists(plan, S, rank) ==
    /\ plan \in Seq(Resources)
    /\ \A k \in 1 .. Len(plan) : plan[k] \in S
    /\ \A x \in S : \E k \in 1 .. Len(plan) : plan[k] = x
    /\ \A j, k \in 1 .. Len(plan) : j < k => rank[plan[j]] < rank[plan[k]]

\* Appending an optional resource of the highest rank keeps a plan listed by rank
\* (for_app pushes the resources of an app one after the other).
LEMMA ListsOneMore ==
    ASSUME NEW plan, NEW S, NEW rank \in [Resources -> Nat], Lists(plan, S, rank),
           NEW x \in Resources, NEW wanted \in BOOLEAN, \A y \in S : rank[y] < rank[x],
           NEW longer, longer = plan \o Optional(x, wanted),
           NEW more, more = IF wanted THEN S \cup {x} ELSE S
    PROVE  Lists(longer, more, rank)
<1>1. plan \in Seq(Resources) /\ Len(plan) \in Nat
  BY DEF Lists
<1>2. CASE ~ wanted
  <2>1. plan \o <<>> = plan
    BY <1>1
  <2> QED
    BY <1>2, <2>1 DEF Optional
<1>3. CASE wanted
  <2>1. /\ longer \in Seq(Resources) /\ Len(longer) = Len(plan) + 1
        /\ \A k \in 1 .. Len(plan) : longer[k] = plan[k]
        /\ longer[Len(plan) + 1] = x
    <3>1. longer = plan \o <<x>>
      BY <1>3 DEF Optional
    <3> QED
      BY <1>1, <3>1
  <2>2. \A k \in 1 .. Len(longer) : k \in 1 .. Len(plan) \/ k = Len(plan) + 1
    BY <1>1, <2>1
  <2>3. \A k \in 1 .. Len(longer) : longer[k] \in S \cup {x}
    BY <1>1, <2>1, <2>2 DEF Lists
  <2>4. \A y \in S \cup {x} : \E k \in 1 .. Len(longer) : longer[k] = y
    BY <1>1, <2>1 DEF Lists
  <2>5. \A j, k \in 1 .. Len(longer) : j < k => rank[longer[j]] < rank[longer[k]]
    <3> SUFFICES ASSUME NEW j \in 1 .. Len(longer), NEW k \in 1 .. Len(longer), j < k
                 PROVE  rank[longer[j]] < rank[longer[k]]
      OBVIOUS
    <3>1. j \in 1 .. Len(plan)
      BY <1>1, <2>1
    <3>2. CASE k \in 1 .. Len(plan)
      BY <3>1, <3>2, <2>1 DEF Lists
    <3>3. CASE k = Len(plan) + 1
      BY <3>1, <3>3, <2>1 DEF Lists
    <3> QED
      BY <2>2, <3>2, <3>3
  <2>6. Lists(longer, S \cup {x}, rank)
    BY <2>1, <2>3, <2>4, <2>5 DEF Lists
  <2> QED
    BY <1>3, <2>6, Zenon
<1> QED
  BY <1>2, <1>3

\* for_app: which resources a plan names, and in which order.
LEMMA PlanLists ==
    ASSUME NEW app \in Declarations, NEW kind \in RunnerKinds
    PROVE  Lists(PlanForApp(app, kind), Planned(app, kind), Rank(kind))
<1> DEFINE rank == Rank(kind)
           wantsData == app.databases
           wantsOidc == app.oidc # "none"
           activates == ActivatesAtInstall(app)
<1>1. rank \in [Resources -> Nat]
  BY DEF Rank, Resources
<1>2. wantsData \in BOOLEAN /\ wantsOidc \in BOOLEAN /\ activates \in BOOLEAN
  BY DEF Declarations, ActivatesAtInstall
<1>3. Lists(<<>>, {}, rank)
  BY DEF Lists
<1>4. \A x : <<x>> = Optional(x, TRUE)
  BY DEF Optional
<1>5. CASE kind = "Uninstall"
  <2> DEFINE S1 == {"RuntimeActivation"}
             S2 == IF wantsOidc THEN S1 \cup {"OidcClient"} ELSE S1
             S3 == S2 \cup {"RuntimeInstance"}
             S4 == IF wantsData THEN S3 \cup {"AppDatabases"} ELSE S3
             S5 == S4 \cup {"PlatformSnapshot"}
             P1 == <<"RuntimeActivation">>
             P2 == P1 \o Optional("OidcClient", wantsOidc)
             P3 == P2 \o <<"RuntimeInstance">>
             P4 == P3 \o Optional("AppDatabases", wantsData)
             P5 == P4 \o <<"PlatformSnapshot">>
  <2>1. /\ rank["RuntimeActivation"] = 1 /\ rank["OidcClient"] = 2
        /\ rank["RuntimeInstance"] = 3 /\ rank["AppDatabases"] = 4
        /\ rank["PlatformSnapshot"] = 5
    BY <1>5 DEF Rank
  <2>2. Lists(P1, S1, rank)
    BY DEF Lists, Resources
  <2>3. Lists(P2, S2, rank)
    <3>1. /\ P2 = P1 \o Optional("OidcClient", wantsOidc)
          /\ S2 = IF wantsOidc THEN S1 \cup {"OidcClient"} ELSE S1
      BY <1>4
    <3>2. \A y \in S1 : rank[y] < rank["OidcClient"]
      BY <2>1
    <3> HIDE DEF rank, wantsData, wantsOidc, activates, P1, P2, S1, S2
    <3>3. "OidcClient" \in Resources
      BY DEF Resources
    <3> QED
      BY <1>1, <1>2, <2>2, <3>1, <3>2, <3>3, ListsOneMore, Zenon
  <2>4. Lists(P3, S3, rank)
    <3>1. /\ P3 = P2 \o Optional("RuntimeInstance", TRUE)
          /\ S3 = IF TRUE THEN S2 \cup {"RuntimeInstance"} ELSE S2
      BY <1>4, Zenon
    <3>2. \A y \in S2 : rank[y] < rank["RuntimeInstance"]
      BY <2>1
    <3> HIDE DEF rank, wantsData, wantsOidc, activates, P2, P3, S2, S3
    <3>3. "RuntimeInstance" \in Resources
      BY DEF Resources
    <3> QED
      BY <1>1, <1>2, <2>3, <3>1, <3>2, <3>3, ListsOneMore, Zenon
  <2>5. Lists(P4, S4, rank)
    <3>1. /\ P4 = P3 \o Optional("AppDatabases", wantsData)
          /\ S4 = IF wantsData THEN S3 \cup {"AppDatabases"} ELSE S3
      BY <1>4
    <3>2. \A y \in S3 : rank[y] < rank["AppDatabases"]
      BY <2>1
    <3> HIDE DEF rank, wantsData, wantsOidc, activates, P3, P4, S3, S4
    <3>3. "AppDatabases" \in Resources
      BY DEF Resources
    <3> QED
      BY <1>1, <1>2, <2>4, <3>1, <3>2, <3>3, ListsOneMore, Zenon
  <2>6. Lists(P5, S5, rank)
    <3>1. /\ P5 = P4 \o Optional("PlatformSnapshot", TRUE)
          /\ S5 = IF TRUE THEN S4 \cup {"PlatformSnapshot"} ELSE S4
      BY <1>4, Zenon
    <3>2. \A y \in S4 : rank[y] < rank["PlatformSnapshot"]
      BY <2>1
    <3> HIDE DEF rank, wantsData, wantsOidc, activates, P4, P5, S4, S5
    <3>3. "PlatformSnapshot" \in Resources
      BY DEF Resources
    <3> QED
      BY <1>1, <1>2, <2>5, <3>1, <3>2, <3>3, ListsOneMore, Zenon
  <2>7. PlanForApp(app, kind) = P5
    BY <1>5 DEF PlanForApp
  <2>8. Planned(app, kind) = S5
    BY <1>5 DEF Planned
  <2> QED
    BY <2>6, <2>7, <2>8
<1>6. CASE kind = "Install"
  <2> DEFINE S1 == IF wantsData THEN {"AppDatabases"} ELSE {}
             S2 == S1 \cup {"RuntimeInstance"}
             S3 == IF wantsOidc THEN S2 \cup {"OidcClient"} ELSE S2
             S4 == IF activates THEN S3 \cup {"RuntimeActivation"} ELSE S3
             S5 == S4 \cup {"PlatformSnapshot"}
             P1 == Optional("AppDatabases", wantsData)
             P2 == P1 \o <<"RuntimeInstance">>
             P3 == P2 \o Optional("OidcClient", wantsOidc)
             P4 == P3 \o Optional("RuntimeActivation", activates)
             P5 == P4 \o <<"PlatformSnapshot">>
  <2>1. /\ rank["AppDatabases"] = 1 /\ rank["RuntimeInstance"] = 2
        /\ rank["OidcClient"] = 3 /\ rank["RuntimeActivation"] = 4
        /\ rank["PlatformSnapshot"] = 5
    BY <1>6 DEF Rank
  <2>2. Lists(P1, S1, rank)
    <3>1. CASE wantsData
      BY <3>1 DEF Lists, Resources, Optional
    <3>2. CASE ~ wantsData
      BY <3>2, <1>3 DEF Optional
    <3> QED
      BY <3>1, <3>2
  <2>3. Lists(P2, S2, rank)
    <3>1. /\ P2 = P1 \o Optional("RuntimeInstance", TRUE)
          /\ S2 = IF TRUE THEN S1 \cup {"RuntimeInstance"} ELSE S1
      BY <1>4, Zenon
    <3>2. \A y \in S1 : rank[y] < rank["RuntimeInstance"]
      BY <2>1
    <3> HIDE DEF rank, wantsData, wantsOidc, activates, P1, P2, S1, S2
    <3>3. "RuntimeInstance" \in Resources
      BY DEF Resources
    <3> QED
      BY <1>1, <1>2, <2>2, <3>1, <3>2, <3>3, ListsOneMore, Zenon
  <2>4. Lists(P3, S3, rank)
    <3>1. /\ P3 = P2 \o Optional("OidcClient", wantsOidc)
          /\ S3 = IF wantsOidc THEN S2 \cup {"OidcClient"} ELSE S2
      BY <1>4
    <3>2. \A y \in S2 : rank[y] < rank["OidcClient"]
      BY <2>1
    <3> HIDE DEF rank, wantsData, wantsOidc, activates, P2, P3, S2, S3
    <3>3. "OidcClient" \in Resources
      BY DEF Resources
    <3> QED
      BY <1>1, <1>2, <2>3, <3>1, <3>2, <3>3, ListsOneMore, Zenon
  <2>5. Lists(P4, S4, rank)
    <3>1. /\ P4 = P3 \o Optional("RuntimeActivation", activates)
          /\ S4 = IF activates THEN S3 \cup {"RuntimeActivation"} ELSE S3
      BY <1>4
    <3>2. \A y \in S3 : rank[y] < rank["RuntimeActivation"]
      BY <2>1
    <3> HIDE DEF rank, wantsData, wantsOidc, activates, P3, P4, S3, S4
    <3>3. "RuntimeActivation" \in Resources
      BY DEF Resources
    <3> QED
      BY <1>1, <1>2, <2>4, <3>1, <3>2, <3>3, ListsOneMore, Zenon
  <2>6. Lists(P5, S5, rank)
    <3>1. /\ P5 = P4 \o Optional("PlatformSnapshot", TRUE)
          /\ S5 = IF TRUE THEN S4 \cup {"PlatformSnapshot"} ELSE S4
      BY <1>4, Zenon
    <3>2. \A y \in S4 : rank[y] < rank["PlatformSnapshot"]
      BY <2>1
    <3> HIDE DEF rank, wantsData, wantsOidc, activates, P4, P5, S4, S5
    <3>3. "PlatformSnapshot" \in Resources
      BY DEF Resources
    <3> QED
      BY <1>1, <1>2, <2>5, <3>1, <3>2, <3>3, ListsOneMore, Zenon
  <2>7. PlanForApp(app, kind) = P5
    BY <1>6 DEF PlanForApp
  <2>8. Planned(app, kind) = S5
    BY <1>6 DEF Planned
  <2> QED
    BY <2>6, <2>7, <2>8
<1> QED
  BY <1>5, <1>6 DEF RunnerKinds

\* The last step of a plan, and only that one, is the platform snapshot.
LEMMA SnapshotEndsPlan ==
    ASSUME NEW app \in Declarations, NEW kind \in RunnerKinds,
           NEW plan, plan = PlanForApp(app, kind)
    PROVE  /\ plan \in Seq(Resources) /\ Len(plan) \in Nat \ {0}
           /\ \A k \in 1 .. Len(plan) : plan[k] = "PlatformSnapshot" <=> k = Len(plan)
<1> DEFINE S == Planned(app, kind)
           rank == Rank(kind)
<1>1. Lists(plan, S, rank)
  BY PlanLists
<1>2. plan \in Seq(Resources) /\ Len(plan) \in Nat
  BY <1>1 DEF Lists
<1>3. PICK last \in 1 .. Len(plan) : plan[last] = "PlatformSnapshot"
  BY <1>1 DEF Lists, Planned
<1>4. \A x \in Resources : rank[x] \in Nat /\ rank[x] <= rank["PlatformSnapshot"]
                                 /\ rank["PlatformSnapshot"] \in Nat
  BY DEF Rank, Resources
<1>5. \A j, k \in 1 .. Len(plan) : j < k => rank[plan[j]] < rank[plan[k]]
  BY <1>1 DEF Lists
<1>6. \A k \in 1 .. Len(plan) : plan[k] \in Resources
  BY <1>2
<1> HIDE DEF S, rank
<1>7. \A k \in 1 .. Len(plan) : plan[k] = "PlatformSnapshot" => k = Len(plan)
  <2> SUFFICES ASSUME NEW k \in 1 .. Len(plan), plan[k] = "PlatformSnapshot", k < Len(plan)
               PROVE  FALSE
    BY <1>2
  <2>1. rank[plan[k]] < rank[plan[Len(plan)]]
    BY <1>2, <1>5
  <2>2. plan[Len(plan)] \in Resources
    BY <1>2, <1>6
  <2> QED
    BY <1>4, <2>1, <2>2
<1>8. Len(plan) = last
  BY <1>3, <1>7
<1> QED
  BY <1>2, <1>3, <1>7, <1>8

\* The fields of an operation of the runner: its plan is not empty, has one step per
\* resource and ends with the snapshot.
LEMMA OperationFacts ==
    ASSUME NEW op \in Operation
    PROVE  /\ op.kind \in RunnerKinds /\ op.phase \in Phases
           /\ op.revision \in Nat /\ op.startedAt \in Times /\ op.updatedAt \in Times
           /\ op.plan \in Seq(Resources) /\ Len(op.plan) \in Nat \ {0}
           /\ op.steps \in Seq(StepStates) /\ Len(op.steps) = Len(op.plan)
           /\ DOMAIN op.steps = 1 .. Len(op.plan)
           /\ \A k \in 1 .. Len(op.plan) :
                 op.plan[k] = "PlatformSnapshot" <=> k = Len(op.plan)
<1>1. /\ op.kind \in RunnerKinds /\ op.phase \in Phases
      /\ op.revision \in Nat /\ op.startedAt \in Times /\ op.updatedAt \in Times
      /\ op.plan \in Plans
      /\ op.steps \in Seq(StepStates) /\ Len(op.steps) = Len(op.plan)
  BY DEF Operation
<1>2. PICK i \in Installations, kind \in RunnerKinds : op.plan = PlanForApp(App(i), kind)
  BY <1>1 DEF Plans
<1>3. App(i) \in Declarations
  BY ManifestAssumption
<1>4. /\ op.plan \in Seq(Resources) /\ Len(op.plan) \in Nat \ {0}
      /\ \A k \in 1 .. Len(op.plan) :
            op.plan[k] = "PlatformSnapshot" <=> k = Len(op.plan)
  BY <1>2, <1>3, SnapshotEndsPlan
<1>5. DOMAIN op.steps = 1 .. Len(op.plan)
  BY <1>1
<1> QED
  BY <1>1, <1>4, <1>5

-----------------------------------------------------------------------------
(***************************************************************************)
(* The steps of an operation as the runner moves them: forwards they are   *)
(* applied one after the other, backwards undone from the last one.        *)
(***************************************************************************)
Ordered(op) ==
    /\ op.phase = "Applying" =>
          \A k \in DOMAIN op.steps :
             /\ op.steps[k] \in {"Pending", "Applying", "Applied"}
             /\ op.steps[k] # "Pending" => \A j \in 1 .. k - 1 : op.steps[j] = "Applied"
    /\ op.phase = "Committed" => \A k \in DOMAIN op.steps : op.steps[k] = "Applied"
    /\ op.phase = "Compensating" =>
          \A k \in DOMAIN op.steps :
             /\ op.steps[k] \in {"CompensationPending", "Compensating", "Compensated", "Pending"}
             /\ op.steps[k] \in {"CompensationPending", "Compensating"} =>
                   \A j \in 1 .. k - 1 : op.steps[j] = "CompensationPending"
    /\ op.phase = "Compensated" =>
          \A k \in DOMAIN op.steps : op.steps[k] \in {"Pending", "Compensated"}

\* What one transition does to an operation, as far as other holders of it are concerned.
Progress(op, next) ==
    /\ next \in Operation /\ Ordered(next)
    /\ next.kind = op.kind /\ next.plan = op.plan /\ next.startedAt = op.startedAt
    /\ next.revision = op.revision + 1
    /\ op.phase # "Applying" => next.phase # "Applying"
    /\ \A k \in DOMAIN op.steps : op.steps[k] # "Pending" => next.steps[k] # "Pending"

\* set_step changes the state of one step and the revision, nothing else.
LEMMA SetStepFields ==
    ASSUME NEW op \in Operation, NEW k \in DOMAIN op.steps, NEW s \in StepStates,
           NEW next, next = SetStep(op, k, s, op.updatedAt)
    PROVE  /\ next \in Operation
           /\ next.kind = op.kind /\ next.plan = op.plan /\ next.startedAt = op.startedAt
           /\ next.phase = op.phase /\ next.revision = op.revision + 1
           /\ DOMAIN next.steps = DOMAIN op.steps
           /\ \A j \in DOMAIN op.steps : next.steps[j] = IF j = k THEN s ELSE op.steps[j]
<1>1. /\ op.steps \in Seq(StepStates) /\ Len(op.steps) = Len(op.plan) /\ op.revision \in Nat
  BY OperationFacts
<1>2. /\ [op.steps EXCEPT ![k] = s] \in Seq(StepStates)
      /\ Len([op.steps EXCEPT ![k] = s]) = Len(op.steps)
  BY <1>1
<1>3. next = [op EXCEPT !.revision = op.revision + 1, !.updatedAt = op.updatedAt,
                        !.steps = [op.steps EXCEPT ![k] = s]]
  BY <1>1 DEF SetStep, Advance, Operation
<1>4. next = [kind |-> op.kind, plan |-> op.plan, startedAt |-> op.startedAt,
              phase |-> op.phase, steps |-> [op.steps EXCEPT ![k] = s],
              revision |-> op.revision + 1, updatedAt |-> op.updatedAt]
  BY <1>3, Zenon DEF Operation
<1> QED
  BY <1>1, <1>2, <1>4 DEF Operation

\* A change of phase keeps what the operation is for: kind, plan and start.
LEMMA PhaseFields ==
    ASSUME NEW op \in Operation, NEW phase \in Phases, NEW steps \in Seq(StepStates),
           Len(steps) = Len(op.steps),
           NEW next, next = [kind |-> op.kind, plan |-> op.plan, startedAt |-> op.startedAt,
                             phase |-> phase, steps |-> steps,
                             revision |-> op.revision + 1, updatedAt |-> op.updatedAt]
    PROVE  /\ next \in Operation
           /\ next.kind = op.kind /\ next.plan = op.plan /\ next.startedAt = op.startedAt
           /\ next.phase = phase /\ next.revision = op.revision + 1 /\ next.steps = steps
<1>1. /\ op.kind \in RunnerKinds /\ op.plan \in Plans /\ op.startedAt \in Times
      /\ op.updatedAt \in Times /\ op.revision \in Nat /\ Len(op.steps) = Len(op.plan)
  BY DEF Operation
<1>2. op.revision + 1 \in Nat /\ Len(steps) = Len(op.plan)
  BY <1>1
<1>3. next \in Operation
  BY <1>1, <1>2 DEF Operation
<1> QED
  BY <1>3

\* The transitions the runner uses are progress.
LEMMA BeginResourceProgress ==
    ASSUME NEW op \in Operation, Ordered(op), NEW k \in DOMAIN op.steps,
           CanBeginResource(op, k), NEW next, next = BeginResource(op, k, op.updatedAt)
    PROVE  Progress(op, next) /\ next.phase = op.phase
<1>1. "Applying" \in StepStates
  BY DEF StepStates
<1>2. /\ next \in Operation
      /\ next.kind = op.kind /\ next.plan = op.plan /\ next.startedAt = op.startedAt
      /\ next.phase = op.phase /\ next.revision = op.revision + 1
      /\ DOMAIN next.steps = DOMAIN op.steps
      /\ \A j \in DOMAIN op.steps : next.steps[j] = IF j = k THEN "Applying" ELSE op.steps[j]
  BY <1>1, SetStepFields DEF BeginResource
<1>3. DOMAIN op.steps = 1 .. Len(op.plan) /\ Len(op.plan) \in Nat
  BY OperationFacts
<1>4. op.phase = "Applying" /\ op.steps[k] = "Pending" /\ \A j \in 1 .. k - 1 : op.steps[j] = "Applied"
  BY DEF CanBeginResource
<1>5. Ordered(next)
  BY <1>2, <1>3, <1>4 DEF Ordered
<1> QED
  BY <1>2, <1>4, <1>5 DEF Progress

\* Completing a step that is being applied (complete_resource) is progress.
LEMMA CompleteResourceProgress ==
    ASSUME NEW op \in Operation, Ordered(op), NEW k \in InProgress(op),
           op.phase = "Applying", NEW next, next = CompleteResource(op, k, op.updatedAt)
    PROVE  Progress(op, next) /\ next.phase = op.phase
<1>1. "Applied" \in StepStates /\ k \in DOMAIN op.steps /\ op.steps[k] # "Pending"
  BY DEF StepStates, InProgress
<1>2. /\ next \in Operation
      /\ next.kind = op.kind /\ next.plan = op.plan /\ next.startedAt = op.startedAt
      /\ next.phase = op.phase /\ next.revision = op.revision + 1
      /\ DOMAIN next.steps = DOMAIN op.steps
      /\ \A j \in DOMAIN op.steps : next.steps[j] = IF j = k THEN "Applied" ELSE op.steps[j]
  BY <1>1, SetStepFields DEF CompleteResource
<1>3. DOMAIN op.steps = 1 .. Len(op.plan) /\ Len(op.plan) \in Nat
  BY OperationFacts
<1>4. Ordered(next)
  BY <1>1, <1>2, <1>3, SMTT(30) DEF Ordered
<1> QED
  BY <1>2, <1>4 DEF Progress

\* Beginning to undo a step (begin_resource_compensation) is progress.
LEMMA BeginCompensationStepProgress ==
    ASSUME NEW op \in Operation, Ordered(op), NEW k \in DOMAIN op.steps,
           CanBeginResourceCompensation(op, k),
           NEW next, next = BeginResourceCompensation(op, k, op.updatedAt)
    PROVE  Progress(op, next) /\ next.phase = op.phase
<1>1. "Compensating" \in StepStates
  BY DEF StepStates
<1>2. /\ next \in Operation
      /\ next.kind = op.kind /\ next.plan = op.plan /\ next.startedAt = op.startedAt
      /\ next.phase = op.phase /\ next.revision = op.revision + 1
      /\ DOMAIN next.steps = DOMAIN op.steps
      /\ \A j \in DOMAIN op.steps : next.steps[j] = IF j = k THEN "Compensating" ELSE op.steps[j]
  BY <1>1, SetStepFields DEF BeginResourceCompensation
<1>3. DOMAIN op.steps = 1 .. Len(op.plan) /\ Len(op.plan) \in Nat
  BY OperationFacts
<1>4. /\ op.phase = "Compensating" /\ op.steps[k] = "CompensationPending"
      /\ \A j \in k + 1 .. Len(op.plan) : op.steps[j] \notin {"CompensationPending", "Compensating"}
  BY DEF CanBeginResourceCompensation
<1>5. Ordered(next)
  <2>1. \A j \in DOMAIN op.steps :
           op.steps[j] \in {"CompensationPending", "Compensating", "Compensated", "Pending"}
    BY <1>4 DEF Ordered
  <2>2. \A j \in DOMAIN op.steps :
           op.steps[j] \in {"CompensationPending", "Compensating"} => j <= k
    BY <1>3, <1>4
  <2>3. \A j \in 1 .. k - 1 : op.steps[j] = "CompensationPending"
    BY <1>4 DEF Ordered
  <2>4. ASSUME NEW j \in DOMAIN op.steps,
               next.steps[j] \in {"CompensationPending", "Compensating"}
        PROVE  \A m \in 1 .. j - 1 : next.steps[m] = "CompensationPending"
    <3>1. j <= k
      BY <1>2, <1>3, <2>2, <2>4
    <3> QED
      BY <3>1, <1>2, <1>3, <2>3
  <2> QED
    BY <1>2, <2>1, <2>4, <1>4 DEF Ordered
<1> QED
  BY <1>2, <1>4, <1>5 DEF Progress

\* Completing the undoing of a step (complete_resource_compensation) is progress.
LEMMA CompleteCompensationStepProgress ==
    ASSUME NEW op \in Operation, Ordered(op), NEW k \in InProgress(op),
           op.phase = "Compensating",
           NEW next, next = CompleteResourceCompensation(op, k, op.updatedAt)
    PROVE  Progress(op, next) /\ next.phase = op.phase
<1>1. /\ "Compensated" \in StepStates /\ k \in DOMAIN op.steps
      /\ op.steps[k] \in {"Applying", "Compensating"}
  BY DEF StepStates, InProgress
<1>2. /\ next \in Operation
      /\ next.kind = op.kind /\ next.plan = op.plan /\ next.startedAt = op.startedAt
      /\ next.phase = op.phase /\ next.revision = op.revision + 1
      /\ DOMAIN next.steps = DOMAIN op.steps
      /\ \A j \in DOMAIN op.steps : next.steps[j] = IF j = k THEN "Compensated" ELSE op.steps[j]
  BY <1>1, SetStepFields DEF CompleteResourceCompensation
<1>3. DOMAIN op.steps = 1 .. Len(op.plan) /\ Len(op.plan) \in Nat
  BY OperationFacts
<1>4. op.steps[k] = "Compensating"
  BY <1>1 DEF Ordered
<1>5. Ordered(next)
  <2>1. \A j \in DOMAIN op.steps :
           op.steps[j] \in {"CompensationPending", "Compensating", "Compensated", "Pending"}
    BY <1>4 DEF Ordered
  <2>2. \A j \in DOMAIN op.steps :
           op.steps[j] \in {"CompensationPending", "Compensating"} => j <= k
    BY <1>1, <1>3, <1>4 DEF Ordered
  <2>3. \A j \in 1 .. k - 1 : op.steps[j] = "CompensationPending"
    BY <1>1, <1>4 DEF Ordered
  <2>4. ASSUME NEW j \in DOMAIN op.steps,
               next.steps[j] \in {"CompensationPending", "Compensating"}
        PROVE  \A m \in 1 .. j - 1 : next.steps[m] = "CompensationPending"
    <3>1. j <= k
      BY <1>2, <1>3, <2>2, <2>4
    <3>2. \A m \in 1 .. j - 1 : m \in DOMAIN op.steps /\ m \in 1 .. k - 1 /\ m # k
      BY <3>1, <1>1, <1>3
    <3> QED
      BY <3>2, <1>2, <2>3
  <2> QED
    BY <1>2, <2>1, <2>4 DEF Ordered
<1> QED
  BY <1>2, <1>5 DEF Progress

\* Committing is progress and changes no step.
LEMMA CommitProgress ==
    ASSUME NEW op \in Operation, Ordered(op), CanCommit(op),
           NEW next, next = Commit(op, op.updatedAt)
    PROVE  Progress(op, next) /\ next.phase = "Committed" /\ next.steps = op.steps
<1>1. next = [kind |-> op.kind, plan |-> op.plan, startedAt |-> op.startedAt,
              phase |-> "Committed", steps |-> op.steps,
              revision |-> op.revision + 1, updatedAt |-> op.updatedAt]
  BY Zenon DEF Commit, Advance, Operation
<1>2. op.steps \in Seq(StepStates) /\ "Committed" \in Phases
  BY OperationFacts DEF Phases
<1>3. /\ next \in Operation
      /\ next.kind = op.kind /\ next.plan = op.plan /\ next.startedAt = op.startedAt
      /\ next.phase = "Committed" /\ next.revision = op.revision + 1 /\ next.steps = op.steps
  BY <1>1, <1>2, PhaseFields
<1> QED
  BY <1>3 DEF Progress, Ordered, CanCommit

\* Finishing a compensation is progress and changes no step.
LEMMA FinishCompensationProgress ==
    ASSUME NEW op \in Operation, Ordered(op), CanFinishCompensation(op),
           NEW next, next = FinishCompensation(op, op.updatedAt)
    PROVE  Progress(op, next) /\ next.phase = "Compensated" /\ next.steps = op.steps
<1>1. next = [kind |-> op.kind, plan |-> op.plan, startedAt |-> op.startedAt,
              phase |-> "Compensated", steps |-> op.steps,
              revision |-> op.revision + 1, updatedAt |-> op.updatedAt]
  BY Zenon DEF FinishCompensation, Advance, Operation
<1>2. op.steps \in Seq(StepStates) /\ "Compensated" \in Phases
  BY OperationFacts DEF Phases
<1>3. /\ next \in Operation
      /\ next.kind = op.kind /\ next.plan = op.plan /\ next.startedAt = op.startedAt
      /\ next.phase = "Compensated" /\ next.revision = op.revision + 1 /\ next.steps = op.steps
  BY <1>1, <1>2, PhaseFields
<1> QED
  BY <1>3 DEF Progress, Ordered, CanFinishCompensation

\* Turning an operation round (begin_compensation) is progress: what was touched is to
\* be undone, what is pending stays so.
LEMMA BeginCompensationProgress ==
    ASSUME NEW op \in Operation, Ordered(op), op.phase = "Applying",
           NEW next, next = BeginCompensation(op, op.updatedAt)
    PROVE  /\ Progress(op, next) /\ next.phase = "Compensating"
           /\ DOMAIN next.steps = DOMAIN op.steps
           /\ \A k \in DOMAIN op.steps :
                 next.steps[k] = IF op.steps[k] = "Pending" THEN "Pending"
                                 ELSE "CompensationPending"
<1> DEFINE steps == [k \in DOMAIN op.steps |->
                        IF op.steps[k] \in {"Applying", "Applied"}
                        THEN "CompensationPending" ELSE op.steps[k]]
<1>1. next = [kind |-> op.kind, plan |-> op.plan, startedAt |-> op.startedAt,
              phase |-> "Compensating", steps |-> steps,
              revision |-> op.revision + 1, updatedAt |-> op.updatedAt]
  BY Zenon DEF BeginCompensation, Advance, Operation
<1>2. /\ DOMAIN op.steps = 1 .. Len(op.plan) /\ Len(op.plan) \in Nat
      /\ op.steps \in Seq(StepStates) /\ Len(op.steps) = Len(op.plan)
      /\ "Compensating" \in Phases
  BY OperationFacts DEF Phases
<1>3. \A k \in DOMAIN op.steps : op.steps[k] \in {"Pending", "Applying", "Applied"}
  BY DEF Ordered
<1>4. /\ DOMAIN steps = DOMAIN op.steps
      /\ \A k \in DOMAIN op.steps :
            steps[k] = IF op.steps[k] = "Pending" THEN "Pending" ELSE "CompensationPending"
  BY <1>3
<1>5. steps \in Seq(StepStates) /\ Len(steps) = Len(op.steps)
  BY <1>2, <1>3 DEF StepStates
<1> HIDE DEF steps
<1>6. /\ next \in Operation
      /\ next.kind = op.kind /\ next.plan = op.plan /\ next.startedAt = op.startedAt
      /\ next.phase = "Compensating" /\ next.revision = op.revision + 1 /\ next.steps = steps
  BY <1>1, <1>2, <1>5, PhaseFields
<1>7. ASSUME NEW k \in DOMAIN op.steps, steps[k] # "Pending"
      PROVE  \A j \in 1 .. k - 1 : steps[j] = "CompensationPending"
  <2>1. \A j \in 1 .. k - 1 : op.steps[j] = "Applied" /\ j \in DOMAIN op.steps
    BY <1>2, <1>4, <1>7 DEF Ordered
  <2> QED
    BY <1>4, <2>1
<1>8. Ordered(next)
  BY <1>4, <1>6, <1>7 DEF Ordered
<1> QED
  BY <1>4, <1>6, <1>8 DEF Progress

\* A new operation has the plan of its app, all steps pending.
LEMMA NewOperationFields ==
    ASSUME NEW i \in Installations, NEW kind \in RunnerKinds, NEW at \in Times,
           NEW op, op = NewOperation(kind, PlanForApp(App(i), kind), at)
    PROVE  /\ op \in Operation /\ Ordered(op)
           /\ op.kind = kind /\ op.plan = PlanForApp(App(i), kind)
           /\ op.phase = "Applying" /\ op.revision = 0 /\ op.startedAt = at
           /\ DOMAIN op.steps = 1 .. Len(op.plan)
           /\ \A k \in 1 .. Len(op.plan) : op.steps[k] = "Pending"
<1> DEFINE plan == PlanForApp(App(i), kind)
           steps == [k \in 1 .. Len(plan) |-> "Pending"]
<1>1. plan \in Plans
  BY DEF Plans
<1>2. Len(plan) \in Nat
  BY ManifestAssumption, SnapshotEndsPlan
<1>3. op = [kind |-> kind, plan |-> plan, startedAt |-> at, phase |-> "Applying",
            steps |-> steps, revision |-> 0, updatedAt |-> at]
  BY DEF NewOperation
<1> HIDE DEF plan
<1>4. steps \in Seq(StepStates) /\ Len(steps) = Len(plan)
  BY <1>2 DEF StepStates
<1>5. op \in Operation
  BY <1>1, <1>3, <1>4 DEF Operation, Phases
<1>6. Ordered(op)
  BY <1>3 DEF Ordered
<1> QED
  BY <1>3, <1>5, <1>6 DEF plan

-----------------------------------------------------------------------------
(***************************************************************************)
(* The journal and what the processes know of it, for any number of        *)
(* processes.  j stands for the journal and t for the targets, so that a   *)
(* statement can be made of the state before a step and of the one after.  *)
(***************************************************************************)
In(j) == {id \in OperationIds : j[id] # NoOperation}

SomeInstallation == CHOOSE i \in Installations : TRUE

JournalOK(j, t) ==
    /\ j \in [OperationIds -> Operation \cup {NoOperation}]
    /\ t \in [OperationIds -> Installations \cup {SomeInstallation}]
    /\ \A id \in In(j) :
          /\ t[id] \in Installations
          /\ Ordered(j[id])
          /\ j[id].plan = PlanForApp(App(t[id]), j[id].kind)

\* op is the stored operation id, or an earlier version of it.
CopyOf(j, id, op) ==
    /\ id \in In(j) /\ op \in Operation /\ Ordered(op)
    /\ op.kind = j[id].kind /\ op.plan = j[id].plan
    /\ op.revision <= j[id].revision
    /\ op.revision = j[id].revision => op = j[id]
    /\ \A k \in DOMAIN op.steps : op.steps[k] # "Pending" => j[id].steps[k] # "Pending"

\* An install of i has begun every step, which the order of the plan allows only after
\* all provider steps were completed.
AppliedIn(j, t, i) ==
    \E id \in In(j) :
        /\ t[id] = i /\ j[id].kind = "Install"
        /\ \A k \in DOMAIN j[id].steps : j[id].steps[k] # "Pending"

\* The journal stays, one stored operation moves on, or a new one enters.
Moves(j, t, j2, t2) ==
    \/ j2 = j /\ t2 = t
    \/ /\ t2 = t
       /\ \E id \in In(j), next \in Operation :
             Progress(j[id], next) /\ j2 = [j EXCEPT ![id] = next]
    \/ \E id \in OperationIds \ In(j), i \in Installations, kind \in RunnerKinds, at \in Times :
          /\ j2 = [j EXCEPT ![id] = NewOperation(kind, PlanForApp(App(i), kind), at)]
          /\ t2 = [t EXCEPT ![id] = i]

\* A journal that moved still has every entry, for the same installation, the same or
\* further on.
LEMMA MovesKeepEntries ==
    ASSUME NEW j, NEW t, NEW j2, NEW t2, JournalOK(j, t), Moves(j, t, j2, t2),
           NEW id \in In(j)
    PROVE  id \in In(j2) /\ t2[id] = t[id] /\ (j2[id] = j[id] \/ Progress(j[id], j2[id]))
<1>1. id \in OperationIds /\ j[id] \in Operation /\ NoOperation \notin Operation
  BY RunnerAssumption DEF In, JournalOK
<1>2. CASE j2 = j /\ t2 = t
  BY <1>2
<1>3. ASSUME t2 = t, NEW d \in In(j), NEW next \in Operation,
             Progress(j[d], next), j2 = [j EXCEPT ![d] = next]
      PROVE  id \in In(j2) /\ t2[id] = t[id] /\ (j2[id] = j[id] \/ Progress(j[id], j2[id]))
  BY <1>1, <1>3 DEF JournalOK, In
<1>4. ASSUME NEW d \in OperationIds \ In(j), NEW i \in Installations,
             NEW kind \in RunnerKinds, NEW at \in Times,
             j2 = [j EXCEPT ![d] = NewOperation(kind, PlanForApp(App(i), kind), at)],
             t2 = [t EXCEPT ![d] = i]
      PROVE  id \in In(j2) /\ t2[id] = t[id] /\ (j2[id] = j[id] \/ Progress(j[id], j2[id]))
  <2>1. id # d /\ id \in DOMAIN j /\ id \in DOMAIN t
    BY <1>1 DEF JournalOK
  <2>2. j2[id] = j[id] /\ t2[id] = t[id]
    BY <1>4, <2>1
  <2> QED
    BY <1>1, <2>2 DEF In
<1> QED
  BY <1>2, <1>3, <1>4 DEF Moves

\* Every stored operation keeps its order and its plan.
LEMMA MovesKeepJournal ==
    ASSUME NEW j, NEW t, NEW j2, NEW t2, JournalOK(j, t), Moves(j, t, j2, t2)
    PROVE  JournalOK(j2, t2)
<1>1. NoOperation \notin Operation
  BY RunnerAssumption
<1>2. CASE j2 = j /\ t2 = t
  BY <1>2
<1>3. ASSUME t2 = t, NEW d \in In(j), NEW next \in Operation,
             Progress(j[d], next), j2 = [j EXCEPT ![d] = next]
      PROVE  JournalOK(j2, t2)
  <2>1. j2 \in [OperationIds -> Operation \cup {NoOperation}] /\ In(j2) = In(j)
    BY <1>1, <1>3 DEF JournalOK, In
  <2>2. Ordered(next) /\ next.kind = j[d].kind /\ next.plan = j[d].plan
    BY <1>3 DEF Progress
  <2>3. \A id \in In(j) : j2[id] = IF id = d THEN next ELSE j[id]
    BY <1>3 DEF JournalOK, In
  <2> QED
    BY <1>3, <2>1, <2>2, <2>3 DEF JournalOK
<1>4. ASSUME NEW d \in OperationIds \ In(j), NEW i \in Installations,
             NEW kind \in RunnerKinds, NEW at \in Times,
             j2 = [j EXCEPT ![d] = NewOperation(kind, PlanForApp(App(i), kind), at)],
             t2 = [t EXCEPT ![d] = i]
      PROVE  JournalOK(j2, t2)
  <2> DEFINE op == NewOperation(kind, PlanForApp(App(i), kind), at)
  <2>1. op \in Operation /\ Ordered(op) /\ op.kind = kind /\ op.plan = PlanForApp(App(i), kind)
    BY NewOperationFields
  <2> HIDE DEF op
  <2>2. j2 = [j EXCEPT ![d] = op]
    BY <1>4 DEF op
  <2>3. /\ j2 \in [OperationIds -> Operation \cup {NoOperation}]
        /\ t2 \in [OperationIds -> Installations \cup {SomeInstallation}]
        /\ j2[d] = op /\ t2[d] = i
    BY <1>4, <2>1, <2>2 DEF JournalOK
  <2>4. \A id \in In(j2) \ {d} : id \in In(j) /\ j2[id] = j[id] /\ t2[id] = t[id]
    <3> SUFFICES ASSUME NEW id \in In(j2) \ {d}
                 PROVE  id \in In(j) /\ j2[id] = j[id] /\ t2[id] = t[id]
      OBVIOUS
    <3>1. id \in OperationIds /\ id \in DOMAIN j /\ id \in DOMAIN t /\ j2[id] # NoOperation
      BY DEF JournalOK, In
    <3>2. j2[id] = j[id] /\ t2[id] = t[id]
      BY <1>4, <2>2, <3>1
    <3> QED
      BY <3>1, <3>2 DEF In
  <2> QED
    BY <2>1, <2>3, <2>4 DEF JournalOK
<1> QED
  BY <1>2, <1>3, <1>4 DEF Moves

\* A copy of an operation stays a copy of it, however the journal moves.
LEMMA MovesKeepCopies ==
    ASSUME NEW j, NEW t, NEW j2, NEW t2, JournalOK(j, t), Moves(j, t, j2, t2),
           NEW id, NEW op, CopyOf(j, id, op)
    PROVE  CopyOf(j2, id, op)
<1>1. id \in In(j) /\ op \in Operation /\ op.revision \in Nat
  BY OperationFacts DEF CopyOf
<1>2. j[id] \in Operation /\ j[id].revision \in Nat /\ DOMAIN j[id].steps = 1 .. Len(j[id].plan)
      /\ DOMAIN op.steps = 1 .. Len(op.plan) /\ op.plan = j[id].plan
  <2>1. j[id] \in Operation
    BY <1>1 DEF JournalOK, In
  <2> QED
    BY <1>1, <2>1, OperationFacts DEF CopyOf
<1>3. id \in In(j2) /\ (j2[id] = j[id] \/ Progress(j[id], j2[id]))
  BY <1>1, MovesKeepEntries
<1>4. CASE j2[id] = j[id]
  BY <1>3, <1>4 DEF CopyOf
<1>5. CASE Progress(j[id], j2[id])
  <2>1. /\ j2[id].kind = j[id].kind /\ j2[id].plan = j[id].plan
        /\ j2[id].revision = j[id].revision + 1
        /\ j2[id].phase = "Applying" => j[id].phase = "Applying"
        /\ \A k \in DOMAIN j[id].steps : j[id].steps[k] # "Pending" => j2[id].steps[k] # "Pending"
    BY <1>5 DEF Progress
  <2>2. op.revision <= j2[id].revision /\ op.revision # j2[id].revision
    BY <1>1, <1>2, <2>1 DEF CopyOf
  <2> QED
    BY <1>2, <1>3, <2>1, <2>2 DEF CopyOf
<1> QED
  BY <1>3, <1>4, <1>5

\* An install whose provider steps were completed once counts as such from then on.
LEMMA MovesKeepApplied ==
    ASSUME NEW j, NEW t, NEW j2, NEW t2, JournalOK(j, t), Moves(j, t, j2, t2),
           NEW i, AppliedIn(j, t, i)
    PROVE  AppliedIn(j2, t2, i)
<1>1. PICK id \in In(j) : /\ t[id] = i /\ j[id].kind = "Install"
                          /\ \A k \in DOMAIN j[id].steps : j[id].steps[k] # "Pending"
  BY DEF AppliedIn
<1>2. id \in In(j2) /\ t2[id] = i /\ (j2[id] = j[id] \/ Progress(j[id], j2[id]))
  BY <1>1, MovesKeepEntries
<1>3. j[id] \in Operation /\ DOMAIN j[id].steps = 1 .. Len(j[id].plan)
  BY OperationFacts DEF JournalOK, In
<1>4. CASE Progress(j[id], j2[id])
  <2>1. j2[id].kind = "Install" /\ DOMAIN j2[id].steps = DOMAIN j[id].steps
    BY <1>1, <1>3, <1>4, OperationFacts DEF Progress
  <2>2. \A k \in DOMAIN j[id].steps : j2[id].steps[k] # "Pending"
    BY <1>1, <1>4 DEF Progress
  <2> QED
    BY <1>2, <2>1, <2>2 DEF AppliedIn
<1> QED
  BY <1>1, <1>2, <1>4 DEF AppliedIn

-----------------------------------------------------------------------------
(***************************************************************************)
(* What a process holds.  Its platform states name only installations with *)
(* an applied install, one per app, except that a running install has its  *)
(* own target staged; its operations are copies of the stored ones.        *)
(***************************************************************************)
PCs == {"idle", "found", "listing", "recovering", "running", "ok", "error"}

State == [apps : SUBSET Installations, grants : SUBSET Installations]

Entry == [id : OperationIds, op : Operation \cup {NoOperation}]

Process == [pc : PCs, live : State, id : Nat, op : Operation \cup {NoOperation},
            staged : State, called : BOOLEAN, todo : Seq(Entry)]

OneEach(s) == \A i, j \in s.apps : AppOf[i] = AppOf[j] => i = j

StateOK(j, t, s) ==
    s \in State /\ OneEach(s) /\ \A i \in s.apps : AppliedIn(j, t, i)

StagedOK(j, t, id, op, s) ==
    /\ s \in State /\ OneEach(s)
    /\ \A i \in s.apps :
          \/ AppliedIn(j, t, i)
          \/ i = t[id] /\ op.kind = "Install" /\ op.phase = "Applying"

TodoOK(j, todo) == \A k \in DOMAIN todo : CopyOf(j, todo[k].id, todo[k].op)

ProcOK(j, t, q) ==
    /\ q \in Process
    /\ StateOK(j, t, q.live)
    /\ q.pc \in {"running", "found"} => CopyOf(j, q.id, q.op)
    /\ q.pc = "running" => StagedOK(j, t, q.id, q.op, q.staged)
    /\ q.pc \in {"running", "recovering"} => TodoOK(j, q.todo)
    /\ q.pc = "listing" => \A k \in DOMAIN q.todo : q.todo[k].id \in In(j)

\* A snapshot that may be stored may still be stored after the journal moved.
LEMMA MovesKeepState ==
    ASSUME NEW j, NEW t, NEW j2, NEW t2, JournalOK(j, t), Moves(j, t, j2, t2),
           NEW s, StateOK(j, t, s)
    PROVE  StateOK(j2, t2, s)
  BY MovesKeepApplied DEF StateOK

\* What another thread holds stays right when the journal moves.
LEMMA MovesKeepProc ==
    ASSUME NEW j, NEW t, NEW j2, NEW t2, JournalOK(j, t), Moves(j, t, j2, t2),
           NEW q, ProcOK(j, t, q)
    PROVE  ProcOK(j2, t2, q)
<1>1. q \in Process /\ StateOK(j2, t2, q.live)
  BY MovesKeepState DEF ProcOK
<1>2. ASSUME q.pc \in {"running", "found"}
      PROVE  CopyOf(j2, q.id, q.op)
  BY <1>2, MovesKeepCopies DEF ProcOK
<1>3. ASSUME q.pc = "running"
      PROVE  StagedOK(j2, t2, q.id, q.op, q.staged)
  <2>1. q.id \in In(j)
    BY <1>3 DEF ProcOK, CopyOf
  <2>2. t2[q.id] = t[q.id]
    BY <2>1, MovesKeepEntries
  <2> QED
    BY <1>3, <2>2, MovesKeepApplied DEF ProcOK, StagedOK
<1>4. ASSUME q.pc \in {"running", "recovering"}
      PROVE  TodoOK(j2, q.todo)
  BY <1>4, MovesKeepCopies DEF ProcOK, TodoOK
<1>5. ASSUME q.pc = "listing", NEW k \in DOMAIN q.todo
      PROVE  q.todo[k].id \in In(j2)
  BY <1>5, MovesKeepEntries DEF ProcOK
<1> QED
  BY <1>1, <1>2, <1>3, <1>4, <1>5 DEF ProcOK

\* A thread that has loaded no snapshot holds nothing that could be wrong.
LEMMA NoStateIsOK ==
    ASSUME NEW j, NEW t
    PROVE  StateOK(j, t, NoState)
  BY DEF StateOK, NoState, State, OneEach

\* The idle thread is well typed.
LEMMA IdleIsProcess == Idle \in Process
  BY DEF Idle, Process, PCs, NoState, State

\* A process between two calls holds nothing but its live state.
LEMMA RestingIsOK ==
    ASSUME NEW j, NEW t, NEW live, StateOK(j, t, live),
           NEW outcome \in {"idle", "ok", "error"},
           NEW q, q = [Idle EXCEPT !.pc = outcome, !.live = live]
    PROVE  ProcOK(j, t, q)
<1>1. live \in State /\ outcome \in PCs
  BY DEF StateOK, PCs
<1>2. q \in Process
  BY <1>1, IdleIsProcess, Zenon DEF Process
<1>3. q.pc = outcome
  BY IdleIsProcess DEF Process
<1>4. q.live = live
  BY IdleIsProcess DEF Process
<1> QED
  BY <1>2, <1>3, <1>4 DEF ProcOK

\* An idle thread holds nothing that could be wrong.
LEMMA IdleIsOK ==
    ASSUME NEW j, NEW t
    PROVE  ProcOK(j, t, Idle)
<1>1. Idle \in Process /\ Idle.pc = "idle" /\ StateOK(j, t, Idle.live)
  BY IdleIsProcess, NoStateIsOK DEF Idle
<1> QED
  BY <1>1 DEF ProcOK

\* Staging keeps one installation per app: with the target of an install, or without a target.
LEMMA StageInstallOK ==
    ASSUME NEW j, NEW t, NEW live, StateOK(j, t, live), NEW id, NEW op,
           NEW i \in Installations, i = t[id], op.kind = "Install", op.phase = "Applying",
           NEW staged \in StageInstallTarget(live, i)
    PROVE  StagedOK(j, t, id, op, staged)
<1>1. live \in State /\ OneEach(live) /\ \A d \in live.apps : AppliedIn(j, t, d)
  BY DEF StateOK
<1>2. ~ Conflicts(live, i) /\ staged = [live EXCEPT !.apps = @ \cup {i}]
  BY DEF StageInstallTarget
<1>3. staged \in State /\ staged.apps = live.apps \cup {i}
  BY <1>1, <1>2 DEF State
<1>4. OneEach(staged)
  BY <1>1, <1>2, <1>3 DEF OneEach, Conflicts
<1> QED
  BY <1>1, <1>3, <1>4 DEF StagedOK

\* A snapshot from which an app was taken advertises no more than before.
LEMMA StageWithoutOK ==
    ASSUME NEW j, NEW t, NEW live, StateOK(j, t, live), NEW i \in Installations,
           NEW staged \in StageWithoutTarget(live, i)
    PROVE  StateOK(j, t, staged)
<1>1. live \in State /\ OneEach(live) /\ \A d \in live.apps : AppliedIn(j, t, d)
  BY DEF StateOK
<1>2. staged = [live EXCEPT !.apps = @ \ {i}]
  BY DEF StageWithoutTarget
<1>3. staged \in State /\ staged.apps = live.apps \ {i}
  BY <1>1, <1>2 DEF State
<1> QED
  BY <1>1, <1>3 DEF StateOK, OneEach

-----------------------------------------------------------------------------
RunnerInv ==
    /\ JournalOK(journal, target)
    /\ StateOK(journal, target, snapshot)
    /\ proc \in [Processes -> Process]
    /\ \A p \in Processes : ProcOK(journal, target, proc[p])

(***************************************************************************)
(* What a step of process p may do: the journal moves, p is left with      *)
(* something it may hold, and so is the snapshot.                          *)
(***************************************************************************)
StepOK(p) ==
    /\ Moves(journal, target, journal', target')
    /\ StateOK(journal', target', snapshot')
    /\ \E q : ProcOK(journal', target', q) /\ proc' = [proc EXCEPT ![p] = q]

\* A step of one thread that moves the journal, stores only a fitting snapshot and
\* leaves the thread in a fitting state keeps the invariant of all threads.
LEMMA StepKeepsInv ==
    ASSUME RunnerInv, NEW p \in Processes, StepOK(p)
    PROVE  RunnerInv'
<1>1. PICK q : ProcOK(journal', target', q) /\ proc' = [proc EXCEPT ![p] = q]
  BY Zenon DEF StepOK
<1>2. JournalOK(journal', target')
  BY MovesKeepJournal DEF StepOK, RunnerInv
<1>3. q \in Process
  BY <1>1 DEF ProcOK
<1>4. proc' \in [Processes -> Process]
  BY <1>1, <1>3 DEF RunnerInv
<1>5. ASSUME NEW r \in Processes
      PROVE  ProcOK(journal', target', proc'[r])
  <2>1. CASE r = p
    BY <1>1, <2>1 DEF RunnerInv
  <2>2. CASE r # p
    <3>1. proc'[r] = proc[r] /\ ProcOK(journal, target, proc[r])
      BY <1>1, <2>2 DEF RunnerInv
    <3> QED
      BY <3>1, MovesKeepProc DEF StepOK, RunnerInv
  <2> QED
    BY <2>1, <2>2
<1> QED
  BY <1>2, <1>4, <1>5 DEF StepOK, RunnerInv

\* The invariant speaks of the journal, the snapshot and the threads only.
LEMMA QuietKeepsInv ==
    ASSUME RunnerInv, UNCHANGED <<journal, target, snapshot, proc>>
    PROVE  RunnerInv'
  BY DEF RunnerInv

\* Nothing but process p changes.
LEMMA ProcStep ==
    ASSUME RunnerInv, NEW p \in Processes, UNCHANGED <<journal, target, snapshot>>,
           NEW q, ProcOK(journal, target, q), proc' = [proc EXCEPT ![p] = q]
    PROVE  StepOK(p)
  BY Zenon DEF StepOK, RunnerInv, Moves

\* A call that returns keeps what its process may hold.
LEMMA ReturnStep ==
    ASSUME RunnerInv, NEW p \in Processes, UNCHANGED <<journal, target, snapshot>>,
           NEW outcome \in {"ok", "error"}, Return(p, outcome)
    PROVE  StepOK(p)
<1>1. proc[p] \in Process /\ StateOK(journal, target, proc[p].live)
  BY DEF RunnerInv, ProcOK
<1> DEFINE live == proc[p].live
<1>2. Returned(proc[p], outcome) = [Idle EXCEPT !.pc = outcome, !.live = live]
  BY DEF Returned
<1>3. proc' = [proc EXCEPT ![p] = Returned(proc[p], outcome)]
  BY DEF Return
<1>4. StateOK(journal, target, live)
  BY <1>1
<1> HIDE DEF live
<1> QED
  BY <1>2, <1>3, <1>4, RestingIsOK, ProcStep, Zenon

(***************************************************************************)
(* store_transition: it succeeds only for the holder of the current        *)
(* version, whose next version then is a progress of the stored operation. *)
(***************************************************************************)
LEMMA TransitionMoves ==
    ASSUME NEW j, NEW t, JournalOK(j, t), NEW id, NEW op, CopyOf(j, id, op),
           NEW next, Progress(op, next), j[id].revision + 1 = next.revision,
           NEW j2, j2 = [j EXCEPT ![id] = next]
    PROVE  Moves(j, t, j2, t) /\ CopyOf(j2, id, next)
<1>1. id \in In(j) /\ id \in OperationIds /\ id \in DOMAIN j /\ j[id] \in Operation
  BY DEF CopyOf, JournalOK, In
<1>2. op.revision \in Nat /\ j[id].revision \in Nat /\ next.revision = op.revision + 1
      /\ next \in Operation /\ Ordered(next)
  BY <1>1, OperationFacts DEF Progress, CopyOf
<1>3. op = j[id]
  BY <1>2 DEF CopyOf
<1>4. Moves(j, t, j2, t)
  BY <1>1, <1>2, <1>3, Zenon DEF Moves
<1>5. j2[id] = next /\ next # NoOperation
  BY <1>1, <1>2, RunnerAssumption
<1> QED
  BY <1>1, <1>2, <1>4, <1>5, OperationFacts DEF CopyOf, In

\* store_transition: the compare-and-swap stores the next operation or reports that
\* another thread was faster.
LEMMA StoreTransitionStep ==
    ASSUME RunnerInv, NEW p \in Processes, UNCHANGED <<target, snapshot>>,
           proc[p].pc \in {"running", "found"},
           NEW next, Progress(proc[p].op, next), NEW after,
           StoreTransition(p, next, after),
           \A j2 : /\ Moves(journal, target, j2, target)
                   /\ CopyOf(j2, proc[p].id, next) /\ j2[proc[p].id] = next
                   => ProcOK(j2, target, after)
    PROVE  StepOK(p)
<1> DEFINE id == proc[p].id
<1>1. CopyOf(journal, id, proc[p].op) /\ JournalOK(journal, target)
  BY DEF RunnerInv, ProcOK
<1>2. CASE journal[id].revision + 1 = next.revision
  <2>1. journal' = [journal EXCEPT ![id] = next] /\ proc' = [proc EXCEPT ![p] = after]
    BY <1>2 DEF StoreTransition
  <2> HIDE DEF id
  <2>2. Moves(journal, target, journal', target) /\ CopyOf(journal', id, next)
    BY <1>1, <1>2, <2>1, TransitionMoves, Zenon
  <2>3. ProcOK(journal', target, after)
    <3>1. /\ Moves(journal, target, journal', target)
          /\ CopyOf(journal', proc[p].id, next) /\ journal'[proc[p].id] = next
      <4>1. id \in DOMAIN journal
        BY <1>1 DEF CopyOf, JournalOK, In
      <4> QED
        BY <2>1, <2>2, <4>1 DEF id
    <3> QED
      BY <3>1
  <2>4. StateOK(journal', target, snapshot)
    BY <2>2, MovesKeepState DEF RunnerInv
  <2> QED
    BY <2>1, <2>2, <2>3, <2>4, Zenon DEF StepOK
<1>3. CASE journal[id].revision + 1 # next.revision
  <2>1. Return(p, "error") /\ UNCHANGED journal
    BY <1>3 DEF StoreTransition
  <2> QED
    BY <2>1, ReturnStep
<1> QED
  BY <1>2, <1>3

-----------------------------------------------------------------------------
\* One lemma per action of a process.
LEMMA CreateOperationStep ==
    ASSUME RunnerInv, NEW p \in Processes, NEW i \in Installations,
           NEW kind \in RunnerKinds, NEW live, StateOK(journal, target, live), NEW staged,
           \/ kind = "Install" /\ staged \in StageInstallTarget(live, i)
           \/ staged \in StageWithoutTarget(live, i),
           CreateOperation(p, kind, i, live, staged), UNCHANGED snapshot
    PROVE  StepOK(p)
<1>1. PICK id \in OperationIds \ Stored, at \in Times :
         LET op == NewOperation(kind, PlanForApp(App(i), kind), at)
         IN  /\ journal' = [journal EXCEPT ![id] = op]
             /\ target' = [target EXCEPT ![id] = i]
             /\ proc' = [proc EXCEPT ![p] = Working(live, id, op, staged, <<>>)]
  BY Zenon DEF CreateOperation
<1> DEFINE op == NewOperation(kind, PlanForApp(App(i), kind), at)
           q == Working(live, id, op, staged, <<>>)
<1>2. op \in Operation /\ Ordered(op) /\ op.kind = kind /\ op.phase = "Applying"
      /\ op.revision = 0
  BY NewOperationFields
<1>3. Moves(journal, target, journal', target')
  BY <1>1, Zenon DEF Moves, Stored, In
<1> HIDE DEF op
<1>4. journal'[id] = op /\ target'[id] = i /\ id \in In(journal') /\ id \in Nat
  <2>1. id \in DOMAIN journal /\ id \in DOMAIN target
    BY DEF RunnerInv, JournalOK
  <2>2. journal' = [journal EXCEPT ![id] = op] /\ target' = [target EXCEPT ![id] = i]
    BY <1>1 DEF op
  <2>3. id \in Nat
    BY DEF OperationIds
  <2> QED
    BY <1>2, <2>1, <2>2, <2>3, RunnerAssumption DEF In
<1>5. CopyOf(journal', id, op)
  BY <1>2, <1>4, SMTT(30) DEF CopyOf
<1>6. StateOK(journal', target', live) /\ StateOK(journal', target', snapshot')
  BY <1>3, MovesKeepState DEF RunnerInv
<1>7. StagedOK(journal', target', id, op, staged)
  <2>1. CASE kind = "Install" /\ staged \in StageInstallTarget(live, i)
    BY <1>2, <1>4, <1>6, <2>1, StageInstallOK
  <2>2. CASE staged \in StageWithoutTarget(live, i)
    <3>1. StateOK(journal', target', staged)
      BY <1>6, <2>2, StageWithoutOK
    <3> QED
      BY <3>1 DEF StateOK, StagedOK
  <2> QED
    BY <2>1, <2>2
<1>8. q \in Process
  <2>1. staged \in State /\ live \in State /\ <<>> \in Seq(Entry)
    BY <1>6, <1>7 DEF StagedOK, StateOK
  <2> QED
    BY <1>2, <1>4, <2>1, SMTT(30) DEF Working, Process, PCs
<1>9. ProcOK(journal', target', q)
  <2>1. /\ q.pc = "running" /\ q.live = live /\ q.id = id /\ q.op = op
        /\ q.staged = staged /\ q.todo = <<>>
    BY DEF Working
  <2>2. TodoOK(journal', q.todo)
    BY <2>1, SMTT(30) DEF TodoOK
  <2> QED
    BY <1>5, <1>6, <1>7, <1>8, <2>1, <2>2, Zenon DEF ProcOK
<1>10. proc' = [proc EXCEPT ![p] = q]
  BY <1>1 DEF op
<1> QED
  BY <1>3, <1>6, <1>9, <1>10, Zenon DEF StepOK

\* install: one transaction starts the operation, after the snapshot was staged.
LEMMA InstallStep ==
    ASSUME RunnerInv, NEW p \in Processes, NEW i \in Installations,
           NEW live, StateOK(journal, target, live), Install(p, i, live)
    PROVE  StepOK(p)
<1>1. CASE Conflicts(live, i)
  <2>1. /\ proc' = [proc EXCEPT ![p] = [Idle EXCEPT !.pc = "error", !.live = live]]
        /\ UNCHANGED <<journal, target, snapshot>>
    BY <1>1 DEF Install
  <2> QED
    BY <2>1, RestingIsOK, ProcStep, Zenon
<1>2. CASE ~ Conflicts(live, i)
  <2>1. UNCHANGED snapshot /\ \E staged \in StageInstallTarget(live, i) :
                                 CreateOperation(p, "Install", i, live, staged)
    BY <1>2 DEF Install
  <2> QED
    BY <2>1, CreateOperationStep DEF RunnerKinds
<1> QED
  BY <1>1, <1>2

\* uninstall starts its operation in the same way.
LEMMA UninstallStep ==
    ASSUME RunnerInv, NEW p \in Processes, NEW i \in Installations,
           NEW live, StateOK(journal, target, live), Uninstall(p, i, live)
    PROVE  StepOK(p)
  BY CreateOperationStep DEF Uninstall, RunnerKinds

\* find_install, the first half of compensate_install, takes a copy of the operation.
LEMMA FindInstallStep ==
    ASSUME RunnerInv, NEW p \in Processes, NEW id \in OperationIds,
           NEW live, StateOK(journal, target, live), FindInstall(p, id, live)
    PROVE  StepOK(p)
<1>1. id \in In(journal) /\ UNCHANGED <<journal, target, snapshot>>
  BY DEF FindInstall, Stored, In, durable
<1>2. CASE journal[id].kind = "Install" /\ ~ IsTerminal(journal[id])
  <2> DEFINE q == [Idle EXCEPT !.pc = "found", !.live = live, !.id = id, !.op = journal[id]]
  <2>1. proc' = [proc EXCEPT ![p] = q]
    BY <1>2 DEF FindInstall
  <2>2. CopyOf(journal, id, journal[id])
    <3>1. journal[id] \in Operation /\ Ordered(journal[id])
      BY <1>1 DEF RunnerInv, JournalOK, In
    <3> QED
      BY <1>1, <3>1, OperationFacts DEF CopyOf
  <2>3. id \in Nat /\ live \in State /\ journal[id] \in Operation /\ "found" \in PCs
    BY <2>2, SMTT(30) DEF CopyOf, OperationIds, StateOK, PCs
  <2>4. q \in Process
    BY <2>3, IdleIsProcess, Zenon DEF Process
  <2>5. q.pc = "found" /\ q.id = id
    BY IdleIsProcess DEF Process
  <2>6. q.live = live /\ q.op = journal[id]
    BY IdleIsProcess DEF Process
  <2>7. ProcOK(journal, target, q)
    BY <2>2, <2>4, <2>5, <2>6 DEF ProcOK
  <2> QED
    BY <1>1, <2>1, <2>7, ProcStep, Zenon
<1>3. CASE ~ (journal[id].kind = "Install" /\ ~ IsTerminal(journal[id]))
  <2>1. proc' = [proc EXCEPT ![p] = [Idle EXCEPT !.pc = "error", !.live = live]]
    BY <1>3, Zenon DEF FindInstall
  <2> QED
    BY <1>1, <2>1, RestingIsOK, ProcStep, Zenon
<1> QED
  BY <1>2, <1>3

\* Starting to work on a copy of a stored operation.
LEMMA WorkingIsOK ==
    ASSUME NEW j, NEW t, NEW live, StateOK(j, t, live), NEW id, NEW op, CopyOf(j, id, op),
           NEW staged, StagedOK(j, t, id, op, staged),
           NEW todo \in Seq(Entry), TodoOK(j, todo),
           NEW q, q = Working(live, id, op, staged, todo)
    PROVE  ProcOK(j, t, q)
<1>1. /\ live \in State /\ staged \in State /\ op \in Operation /\ "running" \in PCs
      /\ id \in Nat
  BY DEF StateOK, StagedOK, CopyOf, In, PCs, OperationIds
<1>2. q \in Process
  BY <1>1 DEF Working, Process
<1>3. /\ q.pc = "running" /\ q.live = live /\ q.id = id /\ q.op = op
      /\ q.staged = staged /\ q.todo = todo
  BY DEF Working
<1> QED
  BY <1>2, <1>3 DEF ProcOK

\* compensate_install: the found operation is turned round and stored.
LEMMA CompensateInstallStep ==
    ASSUME RunnerInv, NEW p \in Processes, CompensateInstall(p)
    PROVE  StepOK(p)
<1> DEFINE self == proc[p]
           found == self.op
           id == self.id
           live == self.live
           op == IF found.phase = "Applying"
                 THEN BeginCompensation(found, found.updatedAt) ELSE found
           staging == StageWithoutTarget(live, target[id])
           after == IF staging = {} THEN {Returned(self, "error")}
                    ELSE {Working(live, id, op, staged, <<>>) : staged \in staging}
<1>1. /\ self.pc = "found" /\ UNCHANGED <<target, snapshot>>
      /\ \E next \in after :
            IF found.phase = "Applying" THEN StoreTransition(p, op, next)
            ELSE proc' = [proc EXCEPT ![p] = next] /\ UNCHANGED journal
  BY DEF CompensateInstall
<1>2. PICK next \in after :
            IF found.phase = "Applying" THEN StoreTransition(p, op, next)
            ELSE proc' = [proc EXCEPT ![p] = next] /\ UNCHANGED journal
  BY <1>1, Zenon
<1>3. CopyOf(journal, id, found) /\ StateOK(journal, target, live)
      /\ JournalOK(journal, target)
  BY <1>1, Zenon DEF RunnerInv, ProcOK
<1>4. target[id] \in Installations
  BY <1>3 DEF CopyOf, JournalOK
<1> HIDE DEF found, id, live, staging, after
<1>5. ASSUME NEW j2, Moves(journal, target, j2, target), CopyOf(j2, id, op)
      PROVE  ProcOK(j2, target, next)
  <2>1. StateOK(j2, target, live)
    BY <1>3, <1>5, MovesKeepState
  <2>2. CASE staging = {}
    <3>1. next = [Idle EXCEPT !.pc = "error", !.live = live]
      BY <2>2 DEF after, Returned, live
    <3> QED
      BY <2>1, <3>1, RestingIsOK, Zenon
  <2>3. CASE staging # {}
    <3>1. PICK staged \in staging : next = Working(live, id, op, staged, <<>>)
      BY <2>3 DEF after
    <3>2. StateOK(j2, target, staged)
      BY <1>4, <2>1, StageWithoutOK DEF staging
    <3>3. StagedOK(j2, target, id, op, staged)
      BY <3>2 DEF StateOK, StagedOK
    <3>4. <<>> \in Seq(Entry) /\ TodoOK(j2, <<>>)
      BY DEF TodoOK
    <3> HIDE DEF op
    <3> QED
      BY <1>5, <2>1, <3>1, <3>3, <3>4, WorkingIsOK, Zenon
  <2> QED
    BY <2>2, <2>3
<1>6. CASE found.phase = "Applying"
  <2>1. op = BeginCompensation(found, found.updatedAt)
    BY <1>6
  <2>2. Progress(found, op)
    BY <1>3, <1>6, <2>1, BeginCompensationProgress DEF CopyOf
  <2>3. StoreTransition(p, op, next)
    BY <1>2, <1>6
  <2> HIDE DEF op
  <2> QED
    BY <1>1, <1>5, <2>2, <2>3, StoreTransitionStep DEF found, id
<1>7. CASE found.phase # "Applying"
  <2>1. op = found /\ proc' = [proc EXCEPT ![p] = next] /\ UNCHANGED journal
    BY <1>2, <1>7
  <2>2. ProcOK(journal, target, next)
    BY <1>3, <1>5, <2>1 DEF Moves
  <2> QED
    BY <1>1, <2>1, <2>2, ProcStep, Zenon
<1> QED
  BY <1>6, <1>7

\* list_incomplete: the operations to recover, in the order they were started.
LEMMA ListIncompleteStep ==
    ASSUME RunnerInv, NEW p \in Processes, NEW live, StateOK(journal, target, live),
           ListIncomplete(p, live)
    PROVE  StepOK(p)
<1> DEFINE Todo(n, order) == [k \in 1 .. n |-> [id |-> order[k], op |-> NoOperation]]
           Q(n, order) == [Idle EXCEPT !.pc = "listing", !.live = live, !.todo = Todo(n, order)]
<1>1. PICK size \in 0 .. MaxOperations : \E order \in [1 .. size -> Incomplete] :
         proc' = [proc EXCEPT ![p] = Q(size, order)]
  BY Zenon DEF ListIncomplete
<1>2. PICK order \in [1 .. size -> Incomplete] : proc' = [proc EXCEPT ![p] = Q(size, order)]
  BY <1>1, Zenon
<1>3. \A k \in 1 .. size : order[k] \in OperationIds /\ order[k] \in In(journal)
  BY DEF Incomplete, Stored, In
<1>4. Todo(size, order) \in Seq(Entry) /\ DOMAIN Todo(size, order) = 1 .. size
      /\ \A k \in 1 .. size : Todo(size, order)[k].id \in In(journal)
  <2>1. \A k \in 1 .. size : [id |-> order[k], op |-> NoOperation] \in Entry
    BY <1>3 DEF Entry
  <2>2. Todo(size, order) = [k \in 1 .. size |-> [id |-> order[k], op |-> NoOperation]]
    OBVIOUS
  <2>3. Todo(size, order) \in Seq(Entry)
    BY <1>1, <2>1, <2>2
  <2> QED
    BY <1>3, <2>2, <2>3
<1> DEFINE todo == Todo(size, order)
           q == Q(size, order)
<1> HIDE DEF Todo
<1>5. live \in State /\ "listing" \in PCs
  BY DEF StateOK, PCs
<1>6. q \in Process
  BY <1>4, <1>5, IdleIsProcess, Zenon DEF Process
<1>7. q.pc = "listing" /\ q.live = live /\ q.todo = todo
  BY IdleIsProcess DEF Process
<1>8. ProcOK(journal, target, q)
  BY <1>4, <1>6, <1>7 DEF ProcOK
<1>9. UNCHANGED <<journal, target, snapshot>>
  BY DEF ListIncomplete, durable
<1> QED
  BY <1>2, <1>8, <1>9, ProcStep, Zenon

\* A journal entry is a copy of itself.
LEMMA OwnCopy ==
    ASSUME NEW j, NEW t, JournalOK(j, t), NEW id \in In(j)
    PROVE  CopyOf(j, id, j[id])
<1>1. j[id] \in Operation /\ Ordered(j[id])
  BY DEF JournalOK, In
<1> QED
  BY <1>1, OperationFacts DEF CopyOf

\* recover_incomplete reads the next operation of its list.
LEMMA LoadIncompleteStep ==
    ASSUME RunnerInv, NEW p \in Processes, LoadIncomplete(p)
    PROVE  StepOK(p)
<1> DEFINE self == proc[p]
           listed == self.todo
           todo == [k \in DOMAIN listed |-> [listed[k] EXCEPT !.op = journal[listed[k].id]]]
           q == [self EXCEPT !.pc = "recovering", !.todo = todo]
<1>1. ProcOK(journal, target, self) /\ self.pc = "listing" /\ JournalOK(journal, target)
  BY DEF LoadIncomplete, RunnerInv
<1>2. proc' = [proc EXCEPT ![p] = q] /\ UNCHANGED <<journal, target, snapshot>>
  BY Zenon DEF LoadIncomplete, durable, RunnerInv
<1>3. self \in Process /\ listed \in Seq(Entry) /\ StateOK(journal, target, self.live)
      /\ \A k \in DOMAIN listed : listed[k].id \in In(journal)
  BY <1>1 DEF ProcOK, Process
<1> HIDE DEF self, listed
<1>4. Len(listed) \in Nat /\ DOMAIN listed = 1 .. Len(listed)
      /\ \A k \in 1 .. Len(listed) : listed[k] \in Entry
  BY <1>3
<1>5. ASSUME NEW k \in DOMAIN listed
      PROVE  /\ todo[k] \in Entry
             /\ CopyOf(journal, todo[k].id, todo[k].op)
  <2>1. listed[k] \in Entry /\ listed[k].id \in In(journal)
    BY <1>3, <1>4
  <2>2. todo[k] = [listed[k] EXCEPT !.op = journal[listed[k].id]]
    OBVIOUS
  <2>3. CopyOf(journal, listed[k].id, journal[listed[k].id])
    BY <1>1, <2>1, OwnCopy
  <2>4. todo[k].id = listed[k].id /\ todo[k].op = journal[listed[k].id]
    BY <2>1, <2>2 DEF Entry
  <2>5. todo[k] \in Entry
    BY <2>1, <2>2, <2>3 DEF Entry, CopyOf
  <2> QED
    BY <2>3, <2>4, <2>5
<1>6. todo \in Seq(Entry) /\ DOMAIN todo = DOMAIN listed
  <2> DEFINE E(k) == [listed[k] EXCEPT !.op = journal[listed[k].id]]
  <2>1. todo = [k \in 1 .. Len(listed) |-> E(k)] /\ \A k \in 1 .. Len(listed) : E(k) \in Entry
    BY <1>4, <1>5, Zenon
  <2> HIDE DEF E, todo
  <2> QED
    BY <1>4, <2>1
<1>7. TodoOK(journal, todo)
  BY <1>5, <1>6 DEF TodoOK
<1> HIDE DEF todo
<1>8. q \in Process
  BY <1>3, <1>6, Zenon DEF Process, PCs
<1>9. q.pc = "recovering" /\ q.todo = todo /\ q.live = self.live
  BY <1>3 DEF Process
<1>10. ProcOK(journal, target, q)
  BY <1>3, <1>7, <1>8, <1>9 DEF ProcOK
<1> QED
  BY <1>2, <1>10, ProcStep, Zenon

\* recover_incomplete stages the snapshot of the operation it read and resumes it.
LEMMA ResumeNextStep ==
    ASSUME RunnerInv, NEW p \in Processes, ResumeNext(p)
    PROVE  StepOK(p)
<1> DEFINE self == proc[p]
           live == self.live
           todo == self.todo
           rest == Tail(todo)
           id == Head(todo).id
           op == Head(todo).op
           staging == IF IsTerminal(op) THEN {}
                      ELSE IF op.kind = "Install" /\ op.phase = "Applying"
                      THEN StageInstallTarget(live, target[id])
                      ELSE StageWithoutTarget(live, target[id])
<1>1. /\ ProcOK(journal, target, self) /\ self.pc = "recovering" /\ JournalOK(journal, target)
      /\ UNCHANGED <<journal, target, snapshot>>
  BY DEF ResumeNext, RunnerInv, durable
<1>2. IF todo = <<>> THEN Return(p, "ok")
      ELSE \/ \E staged \in staging :
                 proc' = [proc EXCEPT ![p] = Working(live, id, op, staged, rest)]
           \/ staging = {} /\ Return(p, "error")
  BY Zenon DEF ResumeNext
<1>3. todo \in Seq(Entry) /\ StateOK(journal, target, live) /\ TodoOK(journal, todo)
  BY <1>1 DEF ProcOK, Process
<1> HIDE DEF self, live, todo
<1>4. CASE todo = <<>>
  BY <1>1, <1>2, <1>4, ReturnStep, Zenon
<1>5. CASE todo # <<>> /\ staging = {} /\ Return(p, "error")
  BY <1>1, <1>5, ReturnStep
<1>6. ASSUME todo # <<>>, NEW staged \in staging,
             proc' = [proc EXCEPT ![p] = Working(live, id, op, staged, rest)]
      PROVE  StepOK(p)
  <2>1. /\ 1 \in DOMAIN todo /\ Head(todo) = todo[1] /\ rest \in Seq(Entry)
        /\ \A k \in DOMAIN rest : k + 1 \in DOMAIN todo /\ rest[k] = todo[k + 1]
    BY <1>3, <1>6
  <2>2. CopyOf(journal, id, op)
    BY <1>3, <2>1 DEF TodoOK
  <2>3. TodoOK(journal, rest)
    BY <1>3, <2>1 DEF TodoOK
  <2>4. target[id] \in Installations
    BY <1>1, <2>2 DEF CopyOf, JournalOK
  <2> HIDE DEF id, op, rest
  <2>5. StagedOK(journal, target, id, op, staged)
    <3>1. CASE op.kind = "Install" /\ op.phase = "Applying"
      <4>1. staged \in StageInstallTarget(live, target[id])
        BY <1>6, <3>1
      <4> QED
        BY <1>3, <2>4, <3>1, <4>1, StageInstallOK, Zenon
    <3>2. CASE ~ (op.kind = "Install" /\ op.phase = "Applying")
      <4>1. staged \in StageWithoutTarget(live, target[id])
        BY <1>6, <3>2
      <4>2. StateOK(journal, target, staged)
        BY <1>3, <2>4, <4>1, StageWithoutOK
      <4> QED
        BY <4>2 DEF StateOK, StagedOK
    <3> QED
      BY <3>1, <3>2
  <2>6. ProcOK(journal, target, Working(live, id, op, staged, rest))
    BY <1>3, <2>1, <2>2, <2>3, <2>5, WorkingIsOK
  <2> QED
    BY <1>1, <1>6, <2>6, ProcStep, Zenon
<1> QED
  BY <1>2, <1>4, <1>5, <1>6

\* A transition of a running operation that stays in its phase.
LEMMA RunningTransitionStep ==
    ASSUME RunnerInv, NEW p \in Processes, Running(p), UNCHANGED <<target, snapshot>>,
           NEW next, Progress(proc[p].op, next), next.phase = proc[p].op.phase,
           NEW called \in BOOLEAN, NEW after,
           after = [proc[p] EXCEPT !.op = next, !.called = called],
           StoreTransition(p, next, after)
    PROVE  StepOK(p)
<1> DEFINE self == proc[p]
           op == self.op
<1>1. /\ ProcOK(journal, target, self) /\ self.pc = "running" /\ JournalOK(journal, target)
      /\ self \in Process /\ next \in Operation /\ next.kind = op.kind
  BY DEF Running, RunnerInv, ProcOK, Progress
<1> HIDE DEF self
<1>2. after \in Process
  BY <1>1, Zenon DEF Process, self
<1>3. /\ after.pc = "running" /\ after.live = self.live /\ after.id = self.id
      /\ after.op = next
  BY <1>1 DEF Process, self
<1>4. after.staged = self.staged /\ after.todo = self.todo
  BY <1>1 DEF Process, self
<1>5. ASSUME NEW j2, Moves(journal, target, j2, target), CopyOf(j2, self.id, next)
      PROVE  ProcOK(j2, target, after)
  <2>1. ProcOK(j2, target, self)
    BY <1>1, <1>5, MovesKeepProc
  <2>2. /\ StateOK(j2, target, after.live) /\ CopyOf(j2, after.id, after.op)
        /\ TodoOK(j2, after.todo)
    BY <1>1, <1>3, <1>4, <1>5, <2>1 DEF ProcOK
  <2>3. StagedOK(j2, target, after.id, after.op, after.staged)
    <3>1. StagedOK(j2, target, self.id, op, self.staged)
      BY <1>1, <2>1 DEF ProcOK
    <3>2. next.phase = op.phase
      BY DEF self
    <3> QED
      BY <1>1, <1>3, <1>4, <3>1, <3>2 DEF StagedOK
  <2> QED
    BY <1>2, <1>3, <2>2, <2>3 DEF ProcOK
<1> QED
  BY <1>1, <1>5, StoreTransitionStep DEF self

\* The copy that a running process holds.
LEMMA RunningFacts ==
    ASSUME RunnerInv, NEW p \in Processes, Running(p)
    PROVE  /\ proc[p] \in Process /\ proc[p].op \in Operation /\ Ordered(proc[p].op)
           /\ CopyOf(journal, proc[p].id, proc[p].op)
           /\ StagedOK(journal, target, proc[p].id, proc[p].op, proc[p].staged)
           /\ StateOK(journal, target, proc[p].live)
           /\ TodoOK(journal, proc[p].todo)
           /\ JournalOK(journal, target)
<1>1. ProcOK(journal, target, proc[p]) /\ proc[p].pc = "running" /\ JournalOK(journal, target)
  BY DEF RunnerInv, Running
<1> QED
  BY <1>1, Zenon DEF ProcOK, CopyOf

\* A step is marked as begun, forwards or backwards.
LEMMA BeginStepStep ==
    ASSUME RunnerInv, NEW p \in Processes, BeginStep(p)
    PROVE  StepOK(p)
<1> DEFINE self == proc[p]
           op == self.op
<1>1. Running(p) /\ UNCHANGED <<target, snapshot>>
  BY DEF BeginStep
<1>2. PICK next :
         /\ StoreTransition(p, next, [self EXCEPT !.op = next])
         /\ \E k \in DOMAIN op.steps :
               \/ CanBeginResource(op, k) /\ next = BeginResource(op, k, op.updatedAt)
               \/ /\ CanBeginResourceCompensation(op, k)
                  /\ next = BeginResourceCompensation(op, k, op.updatedAt)
  BY DEF BeginStep
<1>3. self \in Process /\ op \in Operation /\ Ordered(op)
  BY <1>1, RunningFacts
<1>4. Progress(op, next) /\ next.phase = op.phase
  BY <1>2, <1>3, BeginResourceProgress, BeginCompensationStepProgress
<1>5. self.called \in BOOLEAN
      /\ [self EXCEPT !.op = next] = [self EXCEPT !.op = next, !.called = self.called]
  BY <1>3, Zenon DEF Process
<1> QED
  BY <1>1, <1>2, <1>4, <1>5, RunningTransitionStep, Zenon

\* A step is marked as done, forwards or backwards.
LEMMA CompleteStepStep ==
    ASSUME RunnerInv, NEW p \in Processes, CompleteStep(p)
    PROVE  StepOK(p)
<1> DEFINE self == proc[p]
           op == self.op
           Next1(k) == IF op.phase = "Applying" THEN CompleteResource(op, k, op.updatedAt)
                       ELSE CompleteResourceCompensation(op, k, op.updatedAt)
<1>1. Running(p) /\ UNCHANGED <<target, snapshot>>
  BY DEF CompleteStep
<1>2. PICK k \in InProgress(op) :
         StoreTransition(p, Next1(k), [self EXCEPT !.op = Next1(k), !.called = FALSE])
  BY Zenon DEF CompleteStep
<1>3. self \in Process /\ op \in Operation /\ Ordered(op)
  BY <1>1, RunningFacts
<1>4. op.phase \in {"Applying", "Compensating"}
  <2>1. k \in DOMAIN op.steps /\ op.steps[k] \in {"Applying", "Compensating"}
    BY DEF InProgress
  <2>2. op.phase \in Phases
    BY <1>3, OperationFacts
  <2> QED
    BY <1>3, <2>1, <2>2 DEF Ordered, Phases
<1>5. Progress(op, Next1(k)) /\ Next1(k).phase = op.phase
  BY <1>2, <1>3, <1>4, CompleteResourceProgress, CompleteCompensationStepProgress
<1> HIDE DEF Next1
<1> QED
  BY <1>1, <1>2, <1>5, RunningTransitionStep, Zenon

\* A participant is called; the journal and the snapshot are left alone.
LEMMA CallParticipantStep ==
    ASSUME RunnerInv, NEW p \in Processes, CallParticipant(p)
    PROVE  StepOK(p)
<1>1. /\ Running(p) /\ UNCHANGED <<journal, target, snapshot>>
      /\ proc' = [proc EXCEPT ![p].called = TRUE] \/ Return(p, "error")
  BY DEF CallParticipant
<1> DEFINE q == [proc[p] EXCEPT !.called = TRUE]
<1>2. ProcOK(journal, target, q)
  <2>1. ProcOK(journal, target, proc[p]) /\ proc[p] \in Process
    BY DEF RunnerInv, ProcOK
  <2>2. q \in Process
    BY <2>1, Zenon DEF Process
  <2>3. q.pc = proc[p].pc /\ q.live = proc[p].live /\ q.id = proc[p].id
        /\ q.op = proc[p].op
    BY <2>1 DEF Process
  <2>4. q.staged = proc[p].staged /\ q.todo = proc[p].todo
    BY <2>1 DEF Process
  <2> HIDE DEF q
  <2> QED
    BY <2>1, <2>2, <2>3, <2>4 DEF ProcOK
<1>3. CASE proc' = [proc EXCEPT ![p].called = TRUE]
  <2>1. proc' = [proc EXCEPT ![p] = q]
    BY <1>3
  <2> QED
    BY <1>1, <1>2, <2>1, ProcStep, Zenon
<1>4. CASE Return(p, "error")
  BY <1>1, <1>4, ReturnStep
<1> QED
  BY <1>1, <1>3, <1>4

\* The snapshot step: the staged snapshot is stored, or its store is refused.
LEMMA StoreSnapshotStep ==
    ASSUME RunnerInv, NEW p \in Processes, StoreSnapshot(p)
    PROVE  StepOK(p)
<1> DEFINE self == proc[p]
           op == self.op
           id == self.id
           q == [self EXCEPT !.called = TRUE]
<1>1. Running(p) /\ UNCHANGED <<journal, target>>
  BY DEF StoreSnapshot
<1>2. /\ self \in Process /\ op \in Operation /\ Ordered(op) /\ CopyOf(journal, id, op)
      /\ StagedOK(journal, target, id, op, self.staged) /\ JournalOK(journal, target)
  BY <1>1, RunningFacts
<1>3. PICK k \in InProgress(op) : op.plan[k] = "PlatformSnapshot"
  BY DEF StoreSnapshot
<1>4. CASE Return(p, "error") /\ UNCHANGED snapshot
  BY <1>1, <1>4, ReturnStep
<1>5. CASE snapshot' = self.staged /\ proc' = [proc EXCEPT ![p].called = TRUE]
  <2>1. ProcOK(journal, target, q)
    <3>1. q \in Process
      BY <1>2, Zenon DEF Process
    <3>2. q.pc = self.pc /\ q.live = self.live /\ q.id = self.id /\ q.op = self.op
      BY <1>2 DEF Process
    <3>3. q.staged = self.staged /\ q.todo = self.todo
      BY <1>2 DEF Process
    <3>4. ProcOK(journal, target, self)
      BY DEF RunnerInv
    <3> HIDE DEF self, q
    <3> QED
      BY <3>1, <3>2, <3>3, <3>4 DEF ProcOK
  <2>2. ASSUME op.kind = "Install", op.phase = "Applying"
        PROVE  AppliedIn(journal, target, target[id])
    <3>1. /\ id \in In(journal) /\ journal[id].kind = "Install" /\ op.plan = journal[id].plan
          /\ \A d \in DOMAIN op.steps : op.steps[d] # "Pending" => journal[id].steps[d] # "Pending"
      BY <1>2, <2>2, Zenon DEF CopyOf
    <3>2. k \in DOMAIN op.steps /\ DOMAIN op.steps = 1 .. Len(op.plan) /\ Len(op.plan) \in Nat
          /\ k = Len(op.plan) /\ op.steps[k] # "Pending"
      BY <1>2, <1>3, OperationFacts DEF InProgress
    <3>3. \A d \in DOMAIN op.steps : op.steps[d] # "Pending"
      <4>1. \A d \in 1 .. k - 1 : op.steps[d] = "Applied"
        BY <1>2, <2>2, <3>2 DEF Ordered
      <4> QED
        BY <3>2, <4>1
    <3>4. DOMAIN journal[id].steps = DOMAIN op.steps
      BY <1>2, <3>1, <3>2, OperationFacts DEF JournalOK, In
    <3> QED
      BY <3>1, <3>3, <3>4 DEF AppliedIn
  <2>3. StateOK(journal, target, self.staged)
    BY <1>2, <2>2 DEF StagedOK, StateOK
  <2>4. proc' = [proc EXCEPT ![p] = q]
    BY <1>5
  <2>5. Moves(journal, target, journal', target')
    BY <1>1 DEF Moves
  <2>6. StateOK(journal', target', snapshot') /\ ProcOK(journal', target', q)
    BY <1>1, <1>5, <2>1, <2>3
  <2> QED
    BY <2>4, <2>5, <2>6, Zenon DEF StepOK
<1> QED
  BY <1>4, <1>5 DEF StoreSnapshot

\* commit and finish_compensation: the staged state becomes the live one.
LEMMA FinishStep ==
    ASSUME RunnerInv, NEW p \in Processes, Finish(p)
    PROVE  StepOK(p)
<1> DEFINE self == proc[p]
           op == self.op
           id == self.id
           todo == self.todo
           pc == IF todo = <<>> THEN "ok" ELSE "recovering"
           next == IF op.phase = "Applying" THEN Commit(op, op.updatedAt)
                   ELSE FinishCompensation(op, op.updatedAt)
           done == [Idle EXCEPT !.live = self.staged, !.todo = todo, !.pc = pc]
<1>1. /\ Running(p) /\ UNCHANGED <<target, snapshot>>
      /\ CanCommit(op) \/ CanFinishCompensation(op)
      /\ StoreTransition(p, next, done)
  BY DEF Finish
<1>2. /\ self \in Process /\ op \in Operation /\ Ordered(op) /\ CopyOf(journal, id, op)
      /\ StagedOK(journal, target, id, op, self.staged) /\ JournalOK(journal, target)
      /\ TodoOK(journal, todo)
  BY <1>1, RunningFacts
<1>3. Progress(op, next) /\ next.phase # "Applying" /\ next.steps = op.steps
  <2>1. CASE CanCommit(op)
    BY <1>2, <2>1, CommitProgress, Zenon DEF CanCommit
  <2>2. CASE CanFinishCompensation(op)
    BY <1>2, <2>2, FinishCompensationProgress, Zenon DEF CanFinishCompensation
  <2> QED
    BY <1>1, <2>1, <2>2
<1>4. todo \in Seq(Entry) /\ pc \in PCs /\ self.staged \in State
  BY <1>2 DEF Process, PCs
<1> HIDE DEF next
<1>5. done \in Process
  BY <1>4, IdleIsProcess, Zenon DEF Process
<1>6. done.pc = pc /\ done.live = self.staged /\ done.todo = todo
  BY IdleIsProcess DEF Process
<1>7. ASSUME NEW j2, Moves(journal, target, j2, target), CopyOf(j2, id, next), j2[id] = next
      PROVE  ProcOK(j2, target, done)
  <2>1. TodoOK(j2, todo)
    BY <1>2, <1>7, MovesKeepCopies DEF TodoOK
  <2>2. ASSUME NEW i \in self.staged.apps
        PROVE  AppliedIn(j2, target, i)
    <3>1. CASE AppliedIn(journal, target, i)
      BY <1>2, <1>7, <3>1, MovesKeepApplied
    <3>2. CASE i = target[id] /\ op.kind = "Install" /\ op.phase = "Applying"
      <4>1. id \in In(j2) /\ j2[id].kind = "Install" /\ j2[id].steps = op.steps
        BY <1>3, <1>7, <3>2, Zenon DEF CopyOf, Progress
      <4>2. \A k \in DOMAIN op.steps : op.steps[k] = "Applied"
        BY <1>1, <3>2 DEF CanCommit, CanFinishCompensation
      <4> QED
        BY <3>2, <4>1, <4>2 DEF AppliedIn
    <3> QED
      BY <1>2, <3>1, <3>2 DEF StagedOK
  <2>3. StateOK(j2, target, self.staged)
    BY <1>2, <2>2 DEF StagedOK, StateOK
  <2> QED
    BY <1>5, <1>6, <2>1, <2>3 DEF ProcOK
<1> HIDE DEF done
<1> QED
  BY <1>1, <1>3, <1>7, StoreTransitionStep DEF Running

\* A crash leaves the journal and the snapshot and loses what the thread held.
LEMMA CrashStep ==
    ASSUME RunnerInv, NEW p \in Processes, Crash(p)
    PROVE  StepOK(p)
  BY IdleIsOK, ProcStep, Zenon DEF Crash

\* Every step of a running call keeps to what a thread may do.
LEMMA RunnerStepOK ==
    ASSUME RunnerInv, NEW p \in Processes, RunnerStep(p)
    PROVE  StepOK(p)
  BY CompensateInstallStep, LoadIncompleteStep, ResumeNextStep, BeginStepStep,
     CallParticipantStep, StoreSnapshotStep, CompleteStepStep, FinishStep DEF RunnerStep

\* The invariant holds before anything was installed.
LEMMA InitRunnerInv == Init => RunnerInv
<1> SUFFICES ASSUME Init PROVE RunnerInv
  OBVIOUS
<1>1. JournalOK(journal, target)
  BY DEF Init, JournalOK, In, SomeInstallation
<1>2. StateOK(journal, target, snapshot)
  BY NoStateIsOK DEF Init
<1>3. proc \in [Processes -> Process] /\ \A p \in Processes : proc[p] = Idle
  BY IdleIsProcess DEF Init
<1> QED
  BY <1>1, <1>2, <1>3, IdleIsOK DEF RunnerInv

\* Every step of every thread keeps the invariant.
LEMMA NextKeepsRunnerInv ==
    ASSUME RunnerInv, [Next]_vars
    PROVE  RunnerInv'
<1>1. ASSUME NEW p \in Processes, Request(p)
      PROVE  StepOK(p)
  <2>1. StateOK(journal, target, snapshot)
    BY DEF RunnerInv
  <2> QED
    BY <1>1, <2>1, InstallStep, UninstallStep, FindInstallStep DEF Request
<1>2. ASSUME NEW p \in Processes, Recover(p)
      PROVE  StepOK(p)
  <2>1. StateOK(journal, target, snapshot)
    BY DEF RunnerInv
  <2> QED
    BY <1>2, <2>1, ListIncompleteStep DEF Recover
<1>3. ASSUME NEW p \in Processes, Close(p)
      PROVE  StepOK(p)
  BY <1>3, IdleIsOK, ProcStep, Zenon DEF Close, durable
<1>4. ASSUME NEW i \in Installations, StageImage(i)
      PROVE  RunnerInv'
  BY <1>4, QuietKeepsInv DEF StageImage
<1>5. CASE UNCHANGED vars
  BY <1>5, QuietKeepsInv DEF vars, durable
<1> QED
  BY <1>1, <1>2, <1>3, <1>4, <1>5, RunnerStepOK, CrashStep, StepKeepsInv DEF Next

(***************************************************************************)
(* Whatever the processes do to each other, every copy of an operation is  *)
(* the stored one or an older version of it, and every platform state that *)
(* is stored or held names applied installs only, one for each app.        *)
(***************************************************************************)
THEOREM RunnerInvariant == Spec => []RunnerInv
<1>1. RunnerInv /\ [Next]_vars => RunnerInv'
  BY NextKeepsRunnerInv
<1> QED
  BY InitRunnerInv, <1>1, PTL DEF Spec

\* What the invariant says of the stored snapshot, with the order of the plan: the
\* install that began every step has its provider steps applied unless it was turned
\* round.
LEMMA RunnerInvAdvertises == RunnerInv => AdvertisedWasApplied
<1> SUFFICES ASSUME RunnerInv, NEW i \in snapshot.apps
             PROVE  \E id \in OperationsOf(i) :
                       /\ journal[id].kind = "Install"
                       /\ \A k \in DOMAIN journal[id].steps : journal[id].steps[k] # "Pending"
                       /\ journal[id].phase \in {"Applying", "Committed"} =>
                             \A k \in 1 .. Len(journal[id].plan) - 1 :
                                journal[id].steps[k] = "Applied"
  BY DEF AdvertisedWasApplied
<1>1. PICK id \in In(journal) :
         /\ target[id] = i /\ journal[id].kind = "Install"
         /\ \A k \in DOMAIN journal[id].steps : journal[id].steps[k] # "Pending"
  BY DEF RunnerInv, StateOK, AppliedIn
<1>2. journal[id] \in Operation /\ Ordered(journal[id]) /\ id \in OperationsOf(i)
  BY <1>1 DEF RunnerInv, JournalOK, In, OperationsOf, Stored
<1>3. DOMAIN journal[id].steps = 1 .. Len(journal[id].plan) /\ Len(journal[id].plan) \in Nat \ {0}
  BY <1>2, OperationFacts
<1>4. journal[id].phase \in {"Applying", "Committed"} =>
         \A k \in 1 .. Len(journal[id].plan) - 1 : journal[id].steps[k] = "Applied"
  BY <1>1, <1>2, <1>3, SMTT(30) DEF Ordered
<1> QED
  BY <1>1, <1>2, <1>4

(***************************************************************************)
(* store_transition and the order of the plan: the snapshot advertises no  *)
(* app before an install of it has all its provider steps completed.       *)
(***************************************************************************)
THEOREM AdvertisedApplied == Spec => []AdvertisedWasApplied
<1>1. RunnerInv => AdvertisedWasApplied
  BY RunnerInvAdvertises
<1> QED
  BY <1>1, RunnerInvariant, PTL

(***************************************************************************)
(* stage_install_target and stage_without_target: the snapshot never has   *)
(* two installations of one app.                                           *)
(***************************************************************************)
THEOREM OneInstallation == Spec => []OneInstallationPerApp
<1>1. RunnerInv => OneInstallationPerApp
  BY DEF RunnerInv, StateOK, OneEach, OneInstallationPerApp
<1> QED
  BY <1>1, RunnerInvariant, PTL
=============================================================================
