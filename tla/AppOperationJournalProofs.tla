---------------------- MODULE AppOperationJournalProofs ----------------------
(***************************************************************************)
(* Proofs about the operation journal for every set of identifiers,        *)
(* processes, plans and clock values.                                      *)
(***************************************************************************)
EXTENDS AppOperationJournal, TLAPS

(***************************************************************************)
(* A new operation is well typed and decodes.                              *)
(***************************************************************************)
LEMMA NewOperationIsRestorable ==
    ASSUME NEW kind \in Kinds, NEW plan \in Plans, NEW at \in Times
    PROVE  /\ NewOperation(kind, plan, at) \in Operation
           /\ Restorable(NewOperation(kind, plan, at))
           /\ NewOperation(kind, plan, at).revision = 0
  <1> DEFINE op == NewOperation(kind, plan, at)
  <1>1. plan \in Seq(Resources) /\ ValidatePlan(plan)
    BY PlansAssumption
  <1>2. Len(plan) \in Nat /\ at \in Nat
    BY <1>1, TimesAssumption
  <1>3. /\ op.steps \in Seq(StepStates) /\ Len(op.steps) = Len(plan)
        /\ DOMAIN op.steps = 1 .. Len(plan)
    BY <1>2 DEF NewOperation, StepStates
  <1>4. op \in Operation
    BY <1>3 DEF NewOperation, Operation, Phases
  <1>5. ApplyingStepsAreOrdered(op.steps)
    BY <1>2 DEF NewOperation, ApplyingStepsAreOrdered, NonDecreasing,
                AtMostOne, ApplyingRank
  <1> QED
    BY <1>1, <1>2, <1>4, <1>5 DEF NewOperation, Restorable, PhaseMatchesSteps

(***************************************************************************)
(* What an operation looks like after its state of step i was replaced.    *)
(***************************************************************************)
LEMMA SetStepFields ==
    ASSUME NEW op \in Operation, NEW i \in DOMAIN op.steps,
           NEW s \in StepStates, NEW at \in Times,
           NEW next, next = SetStep(op, i, s, at)
    PROVE  /\ next \in Operation
           /\ DOMAIN next.steps = DOMAIN op.steps
           /\ \A j \in DOMAIN op.steps :
                 next.steps[j] = IF j = i THEN s ELSE op.steps[j]
           /\ next.phase = op.phase
           /\ next.plan = op.plan
           /\ next.startedAt = op.startedAt
           /\ next.updatedAt = at
           /\ next.revision = op.revision + 1
  <1>1. /\ op.steps \in Seq(StepStates) /\ Len(op.steps) = Len(op.plan)
        /\ op.revision \in Nat
    BY DEF Operation
  <1>2. /\ [op.steps EXCEPT ![i] = s] \in Seq(StepStates)
        /\ Len([op.steps EXCEPT ![i] = s]) = Len(op.steps)
    BY <1>1
  <1>3. next =
          [op EXCEPT !.revision = op.revision + 1, !.updatedAt = at,
                     !.steps = [op.steps EXCEPT ![i] = s]]
    BY <1>1 DEF SetStep, Advance, Operation
  <1>4. next =
          [kind |-> op.kind, plan |-> op.plan, startedAt |-> op.startedAt,
           phase |-> op.phase, steps |-> [op.steps EXCEPT ![i] = s],
           revision |-> op.revision + 1, updatedAt |-> at]
    BY <1>3 DEF Operation
  <1> QED
    BY <1>1, <1>2, <1>4 DEF Operation

(***************************************************************************)
(* Steps around the one being worked on: what precedes it is applied, what *)
(* follows is untouched.                                                   *)
(***************************************************************************)
LEMMA ApplyingPivot ==
    ASSUME NEW n \in Nat, NEW steps, DOMAIN steps = 1 .. n, NEW i \in 1 .. n,
           steps[i] \in {"Applying", "Applied"},
           \A j \in 1 .. n : /\ j < i => steps[j] = "Applied"
                             /\ j > i => steps[j] = "Pending"
    PROVE  ApplyingStepsAreOrdered(steps)
  <1>1. \A j \in 1 .. n : steps[j] \in {"Applying", "Applied", "Pending"}
    OBVIOUS
  <1>2. AtMostOne(steps, "Applying")
    BY DEF AtMostOne
  <1>3. \A j, k \in 1 .. n : j < k =>
           ApplyingRank[steps[j]] <= ApplyingRank[steps[k]]
    BY DEF ApplyingRank
  <1> QED
    BY <1>1, <1>2, <1>3 DEF ApplyingStepsAreOrdered, NonDecreasing, ApplyingRank

(***************************************************************************)
(* What the order of an applying operation says of two steps of its plan.  *)
(***************************************************************************)
LEMMA ApplyingShape ==
    ASSUME NEW n \in Nat, NEW steps, DOMAIN steps = 1 .. n,
           ApplyingStepsAreOrdered(steps),
           NEW j \in 1 .. n, NEW k \in 1 .. n, j < k
    PROVE  /\ steps[j] \in {"Applying", "Pending"} => steps[k] = "Pending"
           /\ steps[k] = "Applying" => steps[j] = "Applied"
  <1> DEFINE allowed == {"Applied", "Applying", "Pending"}
  <1>1. steps[j] \in allowed /\ steps[k] \in allowed
    BY DEF ApplyingStepsAreOrdered, NonDecreasing, ApplyingRank
  <1>2. ApplyingRank[steps[j]] <= ApplyingRank[steps[k]]
    BY DEF ApplyingStepsAreOrdered, NonDecreasing
  <1>3. ~ (steps[j] = "Applying" /\ steps[k] = "Applying")
    BY DEF ApplyingStepsAreOrdered, AtMostOne
  <1> QED
    BY <1>1, <1>2, <1>3 DEF ApplyingRank

(***************************************************************************)
(* The mirror image during compensation: what precedes is still to be      *)
(* undone, what follows is undone or was never touched.                    *)
(***************************************************************************)
LEMMA CompensatingPivot ==
    ASSUME NEW n \in Nat, NEW steps, DOMAIN steps = 1 .. n, NEW i \in 1 .. n,
           steps[i] \in {"Compensating", "Compensated"},
           \A j \in 1 .. n : /\ j < i => steps[j] = "CompensationPending"
                             /\ j > i => steps[j] \in {"Compensated", "Pending"},
           \A j, k \in 1 .. n : i < j /\ j < k /\ steps[j] = "Pending"
                                  => steps[k] = "Pending"
    PROVE  CompensatingStepsAreOrdered(steps)
  <1>1. \A j \in 1 .. n : steps[j] \in {"CompensationPending", "Compensating",
                                     "Compensated", "Pending"}
    OBVIOUS
  <1>2. AtMostOne(steps, "Compensating")
    BY DEF AtMostOne
  <1>3. \A j, k \in 1 .. n : j < k =>
           CompensatingRank[steps[j]] <= CompensatingRank[steps[k]]
    BY DEF CompensatingRank
  <1> QED
    BY <1>1, <1>2, <1>3 DEF CompensatingStepsAreOrdered, NonDecreasing, CompensatingRank

(***************************************************************************)
(* What the compensation order says of two steps of a plan.                *)
(***************************************************************************)
LEMMA CompensatingShape ==
    ASSUME NEW n \in Nat, NEW steps, DOMAIN steps = 1 .. n,
           CompensatingStepsAreOrdered(steps),
           NEW j \in 1 .. n, NEW k \in 1 .. n, j < k
    PROVE  /\ steps[j] = "Pending" => steps[k] = "Pending"
           /\ steps[j] = "Compensating" => steps[k] \in {"Compensated", "Pending"}
           /\ steps[k] \in {"CompensationPending", "Compensating"}
                => steps[j] = "CompensationPending"
  <1> DEFINE allowed == {"CompensationPending", "Compensating",
                         "Compensated", "Pending"}
  <1>1. steps[j] \in allowed /\ steps[k] \in allowed
    BY DEF CompensatingStepsAreOrdered, NonDecreasing, CompensatingRank
  <1>2. CompensatingRank[steps[j]] <= CompensatingRank[steps[k]]
    BY DEF CompensatingStepsAreOrdered, NonDecreasing
  <1>3. ~ (steps[j] = "Compensating" /\ steps[k] = "Compensating")
    BY DEF CompensatingStepsAreOrdered, AtMostOne
  <1> QED
    BY <1>1, <1>2, <1>3 DEF CompensatingRank

(***************************************************************************)
(* Every method leaves an operation that decodes again, with the next      *)
(* revision and the same plan.                                             *)
(***************************************************************************)
LEMMA SuccessorsAreRestorable ==
    ASSUME NEW op \in Operation, Restorable(op),
           NEW at \in Times, NEW next \in Successors(op, at)
    PROVE  /\ next \in Operation
           /\ Restorable(next)
           /\ next.plan = op.plan
           /\ next.revision = op.revision + 1
  <1>1. /\ at \in Nat /\ op.updatedAt \in Nat /\ op.startedAt \in Nat
        /\ op.revision \in Nat /\ Len(op.plan) \in Nat
        /\ op.steps \in Seq(StepStates) /\ Len(op.steps) = Len(op.plan)
        /\ DOMAIN op.steps = 1 .. Len(op.plan)
    <2>1. /\ op.steps \in Seq(StepStates) /\ Len(op.steps) = Len(op.plan)
          /\ op.revision \in Nat /\ op.updatedAt \in Times /\ op.startedAt \in Times
      BY DEF Operation
    <2> QED BY <2>1, TimesAssumption
  <1>2. at >= op.updatedAt /\ op.updatedAt >= op.startedAt
    BY <1>1 DEF Successors, Restorable
  <1>3. ValidatePlan(op.plan) /\ PhaseMatchesSteps(op.phase, op.steps)
    BY DEF Restorable
  <1>4. \/ \E i \in DOMAIN op.steps :
              \/ CanBeginResource(op, i) /\ next = BeginResource(op, i, at)
              \/ CanCompleteResource(op, i) /\ next = CompleteResource(op, i, at)
              \/ /\ CanBeginResourceCompensation(op, i)
                 /\ next = BeginResourceCompensation(op, i, at)
              \/ /\ CanCompleteResourceCompensation(op, i)
                 /\ next = CompleteResourceCompensation(op, i, at)
        \/ CanCommit(op) /\ next = Commit(op, at)
        \/ CanBeginCompensation(op) /\ next = BeginCompensation(op, at)
        \/ CanFinishCompensation(op) /\ next = FinishCompensation(op, at)
    BY <1>1, <1>2 DEF Successors
  <1> DEFINE Shape == next \in Operation /\ next.plan = op.plan
                        /\ next.revision = op.revision + 1
                        /\ next.startedAt = op.startedAt /\ next.updatedAt = at
  <1>5. SUFFICES Shape /\ PhaseMatchesSteps(next.phase, next.steps)
    BY <1>1, <1>2, <1>3 DEF Restorable
  <1>6. ASSUME NEW i \in DOMAIN op.steps, CanBeginResource(op, i),
               next = BeginResource(op, i, at)
        PROVE  Shape /\ PhaseMatchesSteps(next.phase, next.steps)
    <2>1. next = SetStep(op, i, "Applying", at) /\ "Applying" \in StepStates
      BY <1>6 DEF BeginResource, StepStates
    <2>2. op.phase = "Applying" /\ op.steps[i] = "Pending"
      BY <1>6 DEF CanBeginResource
    <2>3. Shape /\ next.phase = "Applying"
      BY <2>1, <2>2, SetStepFields
    <2>4. /\ DOMAIN next.steps = 1 .. Len(op.plan)
          /\ \A j \in 1 .. Len(op.plan) :
                next.steps[j] = IF j = i THEN "Applying" ELSE op.steps[j]
      <3>1. /\ DOMAIN next.steps = DOMAIN op.steps
            /\ \A j \in DOMAIN op.steps :
                  next.steps[j] = IF j = i THEN "Applying" ELSE op.steps[j]
        BY <2>1, SetStepFields
      <3> QED BY <1>1, <3>1
    <2>5. ApplyingStepsAreOrdered(op.steps)
      BY <1>3, <2>2 DEF PhaseMatchesSteps
    <2>6. \A j \in 1 .. Len(op.plan) : /\ j < i => op.steps[j] = "Applied"
                                       /\ j > i => op.steps[j] = "Pending"
      <3>1. ASSUME NEW j \in 1 .. Len(op.plan), j < i
            PROVE  op.steps[j] = "Applied"
        <4>1. j \in 1 .. i - 1
          BY <1>1, <3>1
        <4>2. \A k \in 1 .. i - 1 : op.steps[k] = "Applied"
          BY <1>6 DEF CanBeginResource
        <4> QED BY <4>1, <4>2
      <3>2. ASSUME NEW j \in 1 .. Len(op.plan), j > i
            PROVE  op.steps[j] = "Pending"
        <4>1. i \in 1 .. Len(op.plan) /\ i < j
          BY <1>1, <3>2
        <4>2. op.steps[i] \in {"Applying", "Pending"} => op.steps[j] = "Pending"
          BY <1>1, <2>5, <4>1, ApplyingShape
        <4> QED BY <2>2, <4>2
      <3> QED BY <3>1, <3>2
    <2>7. ApplyingStepsAreOrdered(next.steps)
      <3>1. i \in 1 .. Len(op.plan) /\ Len(op.plan) \in Nat
        BY <1>1
      <3>2. next.steps[i] = "Applying"
        BY <2>4, <3>1
      <3>3. \A j \in 1 .. Len(op.plan) : /\ j < i => next.steps[j] = "Applied"
                                         /\ j > i => next.steps[j] = "Pending"
        BY <2>4, <2>6, <3>1
      <3> QED BY <2>4, <3>1, <3>2, <3>3, ApplyingPivot
    <2> QED BY <2>3, <2>7 DEF PhaseMatchesSteps
  <1>7. ASSUME NEW i \in DOMAIN op.steps, CanCompleteResource(op, i),
               next = CompleteResource(op, i, at)
        PROVE  Shape /\ PhaseMatchesSteps(next.phase, next.steps)
    <2>1. next = SetStep(op, i, "Applied", at) /\ "Applied" \in StepStates
      BY <1>7 DEF CompleteResource, StepStates
    <2>2. op.phase = "Applying" /\ op.steps[i] = "Applying"
      BY <1>7 DEF CanCompleteResource
    <2>3. Shape /\ next.phase = "Applying"
      BY <2>1, <2>2, SetStepFields
    <2>4. /\ DOMAIN next.steps = 1 .. Len(op.plan)
          /\ \A j \in 1 .. Len(op.plan) :
                next.steps[j] = IF j = i THEN "Applied" ELSE op.steps[j]
      <3>1. /\ DOMAIN next.steps = DOMAIN op.steps
            /\ \A j \in DOMAIN op.steps :
                  next.steps[j] = IF j = i THEN "Applied" ELSE op.steps[j]
        BY <2>1, SetStepFields
      <3> QED BY <1>1, <3>1
    <2>5. ApplyingStepsAreOrdered(op.steps)
      BY <1>3, <2>2 DEF PhaseMatchesSteps
    <2>6. \A j \in 1 .. Len(op.plan) : /\ j < i => op.steps[j] = "Applied"
                                       /\ j > i => op.steps[j] = "Pending"
      <3>1. ASSUME NEW j \in 1 .. Len(op.plan), j < i
            PROVE  op.steps[j] = "Applied"
        <4>1. i \in 1 .. Len(op.plan) /\ Len(op.plan) \in Nat
          BY <1>1
        <4>2. op.steps[i] = "Applying" => op.steps[j] = "Applied"
          BY <1>1, <2>5, <3>1, <4>1, ApplyingShape
        <4> QED BY <2>2, <4>2
      <3>2. ASSUME NEW j \in 1 .. Len(op.plan), j > i
            PROVE  op.steps[j] = "Pending"
        <4>1. i \in 1 .. Len(op.plan) /\ i < j
          BY <1>1, <3>2
        <4>2. op.steps[i] \in {"Applying", "Pending"} => op.steps[j] = "Pending"
          BY <1>1, <2>5, <4>1, ApplyingShape
        <4> QED BY <2>2, <4>2
      <3> QED BY <3>1, <3>2
    <2>7. ApplyingStepsAreOrdered(next.steps)
      <3>1. i \in 1 .. Len(op.plan) /\ Len(op.plan) \in Nat
        BY <1>1
      <3>2. next.steps[i] = "Applied"
        BY <2>4, <3>1
      <3>3. \A j \in 1 .. Len(op.plan) : /\ j < i => next.steps[j] = "Applied"
                                         /\ j > i => next.steps[j] = "Pending"
        BY <2>4, <2>6, <3>1
      <3> QED BY <2>4, <3>1, <3>2, <3>3, ApplyingPivot
    <2> QED BY <2>3, <2>7 DEF PhaseMatchesSteps
  <1>8. ASSUME NEW i \in DOMAIN op.steps, CanBeginResourceCompensation(op, i),
               next = BeginResourceCompensation(op, i, at)
        PROVE  Shape /\ PhaseMatchesSteps(next.phase, next.steps)
    <2>1. next = SetStep(op, i, "Compensating", at) /\ "Compensating" \in StepStates
      BY <1>8 DEF BeginResourceCompensation, StepStates
    <2>2. op.phase = "Compensating" /\ op.steps[i] = "CompensationPending"
      BY <1>8 DEF CanBeginResourceCompensation
    <2>3. Shape /\ next.phase = "Compensating"
      BY <2>1, <2>2, SetStepFields
    <2>4. /\ DOMAIN next.steps = 1 .. Len(op.plan)
          /\ \A j \in 1 .. Len(op.plan) :
                next.steps[j] = IF j = i THEN "Compensating" ELSE op.steps[j]
      <3>1. /\ DOMAIN next.steps = DOMAIN op.steps
            /\ \A j \in DOMAIN op.steps :
                  next.steps[j] = IF j = i THEN "Compensating" ELSE op.steps[j]
        BY <2>1, SetStepFields
      <3> QED BY <1>1, <3>1
    <2>5. CompensatingStepsAreOrdered(op.steps)
      BY <1>3, <2>2 DEF PhaseMatchesSteps
    <2>6. \A j \in 1 .. Len(op.plan) :
             /\ j < i => op.steps[j] = "CompensationPending"
             /\ j > i => op.steps[j] \in {"Compensated", "Pending"}
      <3>1. \A j \in 1 .. Len(op.plan) :
               j < i => op.steps[j] = "CompensationPending"
        BY <1>1, <2>2, <2>5, CompensatingShape
      <3>2. \A j \in 1 .. Len(op.plan) :
               j > i => op.steps[j] \in {"Compensated", "Pending"}
        <4>1. \A j \in 1 .. Len(op.plan) :
                 op.steps[j] \in {"CompensationPending", "Compensating",
                                  "Compensated", "Pending"}
          BY <1>1, <2>5 DEF CompensatingStepsAreOrdered, NonDecreasing,
             CompensatingRank
        <4>2. \A j \in 1 .. Len(op.plan) : j > i => j \in i + 1 .. Len(op.plan)
          BY <1>1
        <4> QED BY <1>8, <4>1, <4>2 DEF CanBeginResourceCompensation
      <3> QED BY <3>1, <3>2
    <2>7. \A j, k \in 1 .. Len(op.plan) :
             i < j /\ j < k /\ op.steps[j] = "Pending" => op.steps[k] = "Pending"
      BY <1>1, <2>5, CompensatingShape
    <2>8. CompensatingStepsAreOrdered(next.steps)
      <3>1. next.steps[i] = "Compensating"
        BY <1>1, <2>4
      <3>2. \A j \in 1 .. Len(op.plan) :
               /\ j < i => next.steps[j] = "CompensationPending"
               /\ j > i => next.steps[j] \in {"Compensated", "Pending"}
        BY <1>1, <2>4, <2>6
      <3>3. \A j, k \in 1 .. Len(op.plan) :
               i < j /\ j < k /\ next.steps[j] = "Pending"
                  => next.steps[k] = "Pending"
        <4>1. \A j \in 1 .. Len(op.plan) : i < j => next.steps[j] = op.steps[j]
          BY <1>1, <2>4
        <4>2. \A j, k \in 1 .. Len(op.plan) : i < j /\ j < k => i < k
          BY <1>1
        <4> QED BY <2>7, <4>1, <4>2
      <3>4. i \in 1 .. Len(op.plan)
        BY <1>1
      <3> QED BY <1>1, <2>4, <3>1, <3>2, <3>3, <3>4, CompensatingPivot
    <2> QED BY <2>3, <2>8 DEF PhaseMatchesSteps
  <1>9. ASSUME NEW i \in DOMAIN op.steps, CanCompleteResourceCompensation(op, i),
               next = CompleteResourceCompensation(op, i, at)
        PROVE  Shape /\ PhaseMatchesSteps(next.phase, next.steps)
    <2>1. next = SetStep(op, i, "Compensated", at) /\ "Compensated" \in StepStates
      BY <1>9 DEF CompleteResourceCompensation, StepStates
    <2>2. op.phase = "Compensating" /\ op.steps[i] = "Compensating"
      BY <1>9 DEF CanCompleteResourceCompensation
    <2>3. Shape /\ next.phase = "Compensating"
      BY <2>1, <2>2, SetStepFields
    <2>4. /\ DOMAIN next.steps = 1 .. Len(op.plan)
          /\ \A j \in 1 .. Len(op.plan) :
                next.steps[j] = IF j = i THEN "Compensated" ELSE op.steps[j]
      <3>1. /\ DOMAIN next.steps = DOMAIN op.steps
            /\ \A j \in DOMAIN op.steps :
                  next.steps[j] = IF j = i THEN "Compensated" ELSE op.steps[j]
        BY <2>1, SetStepFields
      <3> QED BY <1>1, <3>1
    <2>5. CompensatingStepsAreOrdered(op.steps)
      BY <1>3, <2>2 DEF PhaseMatchesSteps
    <2>6. \A j \in 1 .. Len(op.plan) :
             /\ j < i => op.steps[j] = "CompensationPending"
             /\ j > i => op.steps[j] \in {"Compensated", "Pending"}
      <3>1. \A j \in 1 .. Len(op.plan) :
               j < i => op.steps[j] = "CompensationPending"
        BY <1>1, <2>2, <2>5, CompensatingShape
      <3>2. \A j \in 1 .. Len(op.plan) :
               j > i => op.steps[j] \in {"Compensated", "Pending"}
        BY <1>1, <2>2, <2>5, CompensatingShape
      <3> QED BY <3>1, <3>2
    <2>7. \A j, k \in 1 .. Len(op.plan) :
             i < j /\ j < k /\ op.steps[j] = "Pending" => op.steps[k] = "Pending"
      BY <1>1, <2>5, CompensatingShape
    <2>8. CompensatingStepsAreOrdered(next.steps)
      <3>1. next.steps[i] = "Compensated"
        BY <1>1, <2>4
      <3>2. \A j \in 1 .. Len(op.plan) :
               /\ j < i => next.steps[j] = "CompensationPending"
               /\ j > i => next.steps[j] \in {"Compensated", "Pending"}
        BY <1>1, <2>4, <2>6
      <3>3. \A j, k \in 1 .. Len(op.plan) :
               i < j /\ j < k /\ next.steps[j] = "Pending"
                  => next.steps[k] = "Pending"
        <4>1. \A j \in 1 .. Len(op.plan) : i < j => next.steps[j] = op.steps[j]
          BY <1>1, <2>4
        <4>2. \A j, k \in 1 .. Len(op.plan) : i < j /\ j < k => i < k
          BY <1>1
        <4> QED BY <2>7, <4>1, <4>2
      <3>4. i \in 1 .. Len(op.plan)
        BY <1>1
      <3> QED BY <1>1, <2>4, <3>1, <3>2, <3>3, <3>4, CompensatingPivot
    <2> QED BY <2>3, <2>8 DEF PhaseMatchesSteps
  <1>10. CASE CanCommit(op) /\ next = Commit(op, at)
    <2>1. next = [kind |-> op.kind, plan |-> op.plan, startedAt |-> op.startedAt,
                  phase |-> "Committed", steps |-> op.steps,
                  revision |-> op.revision + 1, updatedAt |-> at]
      BY <1>1, <1>10 DEF Commit, Advance, Operation
    <2>2. Shape
      BY <1>1, <2>1 DEF Operation, Phases
    <2> QED BY <1>10, <2>1, <2>2 DEF CanCommit, PhaseMatchesSteps
  <1>11. CASE CanBeginCompensation(op) /\ next = BeginCompensation(op, at)
    <2> DEFINE undone == [i \in DOMAIN op.steps |->
                            IF op.steps[i] \in {"Applying", "Applied"}
                            THEN "CompensationPending" ELSE op.steps[i]]
    <2>1. next = [kind |-> op.kind, plan |-> op.plan, startedAt |-> op.startedAt,
                  phase |-> "Compensating", steps |-> undone,
                  revision |-> op.revision + 1, updatedAt |-> at]
      BY <1>1, <1>11 DEF BeginCompensation, Advance, Operation
    <2>2. undone \in Seq(StepStates) /\ Len(undone) = Len(op.plan)
      BY <1>1 DEF StepStates
    <2>3. Shape
      <3> HIDE DEF undone
      <3> QED BY <1>1, <2>1, <2>2 DEF Operation, Phases
    <2>4. ApplyingStepsAreOrdered(op.steps)
      BY <1>3, <1>11 DEF PhaseMatchesSteps, CanBeginCompensation
    <2>5. CompensatingStepsAreOrdered(undone)
      BY <1>1, <2>4 DEF ApplyingStepsAreOrdered, CompensatingStepsAreOrdered,
         NonDecreasing, AtMostOne, ApplyingRank, CompensatingRank
    <2> QED BY <2>1, <2>3, <2>5 DEF PhaseMatchesSteps
  <1>12. CASE CanFinishCompensation(op) /\ next = FinishCompensation(op, at)
    <2>1. next = [kind |-> op.kind, plan |-> op.plan, startedAt |-> op.startedAt,
                  phase |-> "Compensated", steps |-> op.steps,
                  revision |-> op.revision + 1, updatedAt |-> at]
      BY <1>1, <1>12 DEF FinishCompensation, Advance, Operation
    <2>2. Shape
      BY <1>1, <2>1 DEF Operation, Phases
    <2>3. CompensatingStepsAreOrdered(op.steps)
      BY <1>3, <1>12 DEF PhaseMatchesSteps, CanFinishCompensation
    <2>4. CompensatedStepsAreOrdered(op.steps)
      BY <1>1, <1>12, <2>3 DEF CanFinishCompensation,
         CompensatingStepsAreOrdered, CompensatedStepsAreOrdered,
         NonDecreasing, CompensatingRank
    <2> QED BY <2>1, <2>2, <2>4 DEF PhaseMatchesSteps
  <1> QED
    BY <1>4, <1>6, <1>7, <1>8, <1>9, <1>10, <1>11, <1>12

-----------------------------------------------------------------------------
(***************************************************************************)
(* The inductive invariant.  A copy that a process works on decodes too,   *)
(* because decode refuses a torn read that does not.                       *)
(***************************************************************************)
HeldOperationsDecode ==
    \A p \in Processes : held[p].op # NoOperation => Restorable(held[p].op)

IInv == /\ TypeOK
        /\ StoredOperationsDecode
        /\ CopyIsStoredOrStale
        /\ HeldOperationsDecode

(***************************************************************************)
(* A process that holds no operation holds a well-formed empty copy.       *)
(***************************************************************************)
LEMMA NothingIsCopy ==
    Nothing \in Copy /\ Nothing.op = NoOperation /\ IsCopy(Nothing)
  BY OperationIdsAssumption DEF Nothing, Copy, IsCopy

(***************************************************************************)
(* The journal starts empty and no process holds anything.                 *)
(***************************************************************************)
LEMMA InitIInv ==
    Init => IInv
  BY NothingIsCopy DEF Init, IInv, TypeOK, StoredOperationsDecode,
     CopyIsStoredOrStale, HeldOperationsDecode

(***************************************************************************)
(* Replacing the stored operation by one with the next revision and the    *)
(* same plan turns current copies into stale ones.                         *)
(***************************************************************************)
LEMMA CopiesSurviveTransition ==
    ASSUME TypeOK, NEW id \in OperationIds, journal[id] # NoOperation,
           NEW next \in Operation, next.plan = journal[id].plan,
           next.revision = journal[id].revision + 1,
           journal' = [journal EXCEPT ![id] = next],
           NEW copy \in Copy, IsCopy(copy)
    PROVE  copy.op # NoOperation =>
               /\ journal'[copy.id] # NoOperation
               /\ copy.op.plan = journal'[copy.id].plan
               /\ copy.op.revision <= journal'[copy.id].revision
               /\ copy.op.revision = journal'[copy.id].revision
                     => copy.op = journal'[copy.id]
  <1>1. SUFFICES ASSUME copy.op # NoOperation
                 PROVE  /\ journal'[copy.id] # NoOperation
                        /\ copy.op.plan = journal'[copy.id].plan
                        /\ copy.op.revision <= journal'[copy.id].revision
                        /\ copy.op.revision = journal'[copy.id].revision
                              => copy.op = journal'[copy.id]
    OBVIOUS
  <1>2. copy.id \in OperationIds /\ copy.op \in Operation
    BY <1>1 DEF Copy
  <1>3. CASE copy.id = id
    <2>1. journal'[copy.id] = next
      BY <1>3 DEF TypeOK
    <2>2. next # NoOperation
      BY NoOperationAssumption
    <2>3. journal[id].revision \in Nat /\ copy.op.revision \in Nat
      BY <1>2 DEF TypeOK, Operation
    <2>4. copy.op.plan = journal[id].plan /\ copy.op.revision <= journal[id].revision
      BY <1>1, <1>3 DEF IsCopy
    <2> QED BY <2>1, <2>2, <2>3, <2>4
  <1>4. CASE copy.id # id
    <2>1. journal'[copy.id] = journal[copy.id]
      BY <1>2, <1>4 DEF TypeOK
    <2> QED BY <1>1, <2>1 DEF IsCopy
  <1> QED BY <1>3, <1>4

(***************************************************************************)
(* Every step of the journal preserves the invariant.                      *)
(***************************************************************************)
LEMMA NextIInv ==
    IInv /\ [Next]_vars => IInv'
  <1> SUFFICES ASSUME IInv, [Next]_vars PROVE IInv'
    OBVIOUS
  <1> USE DEF IInv
  <1>1. ASSUME NEW p \in Processes, NEW id \in OperationIds, Create(p, id)
        PROVE  IInv'
    <2>1. PICK kind \in Kinds, plan \in Plans, at \in Times :
             /\ journal' = [journal EXCEPT ![id] = NewOperation(kind, plan, at)]
             /\ held' = [held EXCEPT ![p] =
                           [id |-> id, op |-> NewOperation(kind, plan, at)]]
      BY <1>1 DEF Create
    <2> DEFINE op == NewOperation(kind, plan, at)
    <2>2. op \in Operation /\ Restorable(op) /\ op # NoOperation
          /\ op.revision \in Nat
      BY NewOperationIsRestorable, NoOperationAssumption DEF Operation
    <2>3. journal[id] = NoOperation /\ UNCHANGED reading
      BY <1>1 DEF Create
    <2> HIDE DEF op
    <2>4. TypeOK'
      BY <2>1, <2>2, <2>3 DEF TypeOK, Copy, op
    <2>5. StoredOperationsDecode' /\ HeldOperationsDecode'
      BY <2>1, <2>2 DEF StoredOperationsDecode, HeldOperationsDecode, TypeOK, op
    <2>6. CopyIsStoredOrStale'
      <3>1. ASSUME NEW copy \in Copy, IsCopy(copy)
            PROVE  IsCopy(copy)'
        <4>1. copy.op # NoOperation => copy.id # id
          BY <2>3, <3>1 DEF IsCopy
        <4>2. copy.id \in OperationIds
          BY DEF Copy
        <4>3. copy.id # id => journal'[copy.id] = journal[copy.id]
          BY <2>1, <4>2 DEF TypeOK
        <4> QED BY <3>1, <4>1, <4>3 DEF IsCopy
      <3>2. ASSUME NEW q \in Processes
            PROVE  IsCopy(held[q])' /\ IsCopy(reading[q])'
        <4>1. /\ held[q] \in Copy /\ IsCopy(held[q])
              /\ reading[q] \in Copy /\ IsCopy(reading[q])
          BY DEF TypeOK, CopyIsStoredOrStale
        <4>2. IsCopy(reading[q])'
          BY <2>3, <3>1, <4>1 DEF IsCopy
        <4>3. CASE q = p
          <5>1. held'[q] = [id |-> id, op |-> op] /\ journal'[id] = op
            BY <2>1, <4>3 DEF TypeOK, op
          <5>2. held'[q].id = id /\ held'[q].op = op
            BY <5>1
          <5>3. op.revision <= op.revision
            BY <2>2
          <5> QED BY <2>2, <4>2, <5>1, <5>2, <5>3 DEF IsCopy
        <4>4. CASE q # p
          <5>1. held'[q] = held[q]
            BY <2>1, <4>4 DEF TypeOK
          <5> QED BY <3>1, <4>1, <4>2, <5>1 DEF IsCopy
        <4> QED BY <4>3, <4>4
      <3> QED BY <3>2 DEF CopyIsStoredOrStale
    <2> QED BY <2>4, <2>5, <2>6
  <1>2. ASSUME NEW p \in Processes, NEW id \in OperationIds, LoadRow(p, id)
        PROVE  IInv'
    <2>1. /\ reading' = [reading EXCEPT ![p] = [id |-> id, op |-> journal[id]]]
          /\ UNCHANGED <<journal, held>> /\ journal[id] # NoOperation
      BY <1>2 DEF LoadRow
    <2>2. TypeOK'
      BY <2>1 DEF TypeOK, Copy
    <2>3. StoredOperationsDecode' /\ HeldOperationsDecode'
      BY <2>1 DEF StoredOperationsDecode, HeldOperationsDecode
    <2>4. journal[id].revision \in Nat
      BY <2>1 DEF TypeOK, Operation
    <2>5. CopyIsStoredOrStale'
      <3>1. ASSUME NEW q \in Processes
            PROVE  IsCopy(held[q])' /\ IsCopy(reading[q])'
        <4>1. IsCopy(held[q]) /\ IsCopy(reading[q])
          BY DEF CopyIsStoredOrStale
        <4>2. IsCopy(held[q])'
          BY <2>1, <4>1 DEF IsCopy
        <4>3. reading'[q] = IF q = p THEN [id |-> id, op |-> journal[id]]
                            ELSE reading[q]
          BY <2>1 DEF TypeOK
        <4>4. CASE q = p
          <5>1. reading'[q].id = id /\ reading'[q].op = journal[id]
            BY <4>3, <4>4
          <5>2. journal[id].revision <= journal[id].revision
            BY <2>4
          <5> QED BY <2>1, <4>2, <5>1, <5>2 DEF IsCopy
        <4>5. CASE q # p
          BY <2>1, <4>1, <4>2, <4>3, <4>5 DEF IsCopy
        <4> QED BY <4>4, <4>5
      <3> QED BY <3>1 DEF CopyIsStoredOrStale
    <2> QED BY <2>2, <2>3, <2>5
  <1>3. ASSUME NEW p \in Processes, Decode(p)
        PROVE  IInv'
    <2> DEFINE row == reading[p]
               stored == journal[row.id]
               op == [row.op EXCEPT !.steps = stored.steps]
    <2>1. row \in Copy /\ row.op \in Operation /\ row.id \in OperationIds
      BY <1>3 DEF Decode, TypeOK, Copy
    <2>2. /\ stored # NoOperation /\ stored \in Operation
          /\ row.op.plan = stored.plan /\ row.op.revision <= stored.revision
          /\ row.op.revision = stored.revision => row.op = stored
      BY <1>3, <2>1 DEF Decode, CopyIsStoredOrStale, IsCopy, TypeOK
    <2>3. op = [kind |-> row.op.kind, plan |-> row.op.plan,
                startedAt |-> row.op.startedAt, phase |-> row.op.phase,
                steps |-> stored.steps, revision |-> row.op.revision,
                updatedAt |-> row.op.updatedAt]
      BY <2>1 DEF Operation
    <2>4. op \in Operation /\ op # NoOperation
      <3>1. /\ row.op.kind \in Kinds /\ row.op.plan \in Plans
            /\ row.op.startedAt \in Times /\ row.op.phase \in Phases
            /\ row.op.revision \in Nat /\ row.op.updatedAt \in Times
        BY <2>1 DEF Operation
      <3>2. stored.steps \in Seq(StepStates) /\ Len(stored.steps) = Len(row.op.plan)
        BY <2>2 DEF Operation
      <3> HIDE DEF row, stored, op
      <3>3. op \in Operation
        BY <2>3, <3>1, <3>2 DEF Operation
      <3> QED BY <3>3, NoOperationAssumption
    <2>5. /\ op.plan = stored.plan /\ op.revision <= stored.revision
          /\ op.revision = stored.revision => op = stored
      BY <2>1, <2>2, <2>3 DEF Operation
    <2>6. \/ /\ held' = [held EXCEPT ![p] = [id |-> row.id, op |-> op]]
             /\ Restorable(op)
          \/ held' = [held EXCEPT ![p] = Nothing]
      BY <1>3 DEF Decode
    <2>7. reading' = [reading EXCEPT ![p] = Nothing] /\ UNCHANGED journal
      BY <1>3 DEF Decode
    <2> HIDE DEF op
    <2>8. TypeOK'
      BY <2>1, <2>4, <2>6, <2>7, NothingIsCopy DEF TypeOK, Copy
    <2>9. StoredOperationsDecode' /\ HeldOperationsDecode'
      BY <2>6, <2>7, NothingIsCopy
      DEF StoredOperationsDecode, HeldOperationsDecode, TypeOK
    <2>10. CopyIsStoredOrStale'
      <3>1. ASSUME NEW q \in Processes
            PROVE  IsCopy(held[q])' /\ IsCopy(reading[q])'
        <4>1. IsCopy(held[q]) /\ IsCopy(reading[q])
          BY DEF CopyIsStoredOrStale
        <4>2. reading'[q] = IF q = p THEN Nothing ELSE reading[q]
          BY <2>7 DEF TypeOK
        <4>3. IsCopy(reading[q])'
          BY <2>7, <4>1, <4>2, NothingIsCopy DEF IsCopy
        <4>4. held'[q] \in {[id |-> row.id, op |-> op], Nothing, held[q]}
          BY <2>6 DEF TypeOK
        <4>5. IsCopy(held[q])'
          <5>1. CASE held'[q] = [id |-> row.id, op |-> op]
            <6>1. held'[q].id = row.id /\ held'[q].op = op
              BY <5>1
            <6> HIDE DEF row
            <6> QED BY <2>2, <2>5, <2>7, <6>1 DEF IsCopy
          <5>2. CASE held'[q] = Nothing
            BY <5>2, NothingIsCopy DEF IsCopy
          <5>3. CASE held'[q] = held[q]
            BY <2>7, <4>1, <5>3 DEF IsCopy
          <5> QED BY <4>4, <5>1, <5>2, <5>3
        <4> QED BY <4>3, <4>5
      <3> QED BY <3>1 DEF CopyIsStoredOrStale
    <2> QED BY <2>8, <2>9, <2>10
  <1>4. ASSUME NEW p \in Processes, Drop(p)
        PROVE  IInv'
    <2>1. /\ held' = [held EXCEPT ![p] = Nothing]
          /\ reading' = [reading EXCEPT ![p] = Nothing] /\ UNCHANGED journal
      BY <1>4 DEF Drop
    <2> QED
      BY <2>1, NothingIsCopy DEF TypeOK, StoredOperationsDecode,
         HeldOperationsDecode, CopyIsStoredOrStale, IsCopy
  <1>5. ASSUME NEW p \in Processes, StoreTransition(p)
        PROVE  IInv'
    <2> DEFINE id == held[p].id
               op == held[p].op
    <2>1. id \in OperationIds /\ op \in Operation /\ Restorable(op)
          /\ op # NoOperation /\ held[p] \in Copy
      BY <1>5 DEF StoreTransition, TypeOK, Copy, HeldOperationsDecode
    <2>2. PICK now \in Times :
          \E next \in Successors(op, TransitionTime(op, now)) :
             IF IsPreceding(journal[id], next)
             THEN /\ journal' = [journal EXCEPT ![id] = next]
                  /\ held' = [held EXCEPT ![p].op = next]
             ELSE /\ held' = [held EXCEPT ![p] = Nothing]
                  /\ UNCHANGED journal
      BY <1>5 DEF StoreTransition
    <2>3. TransitionTime(op, now) \in Times
      BY <2>1 DEF TransitionTime, Operation
    <2>4. PICK next \in Successors(op, TransitionTime(op, now)) :
             IF IsPreceding(journal[id], next)
             THEN /\ journal' = [journal EXCEPT ![id] = next]
                  /\ held' = [held EXCEPT ![p].op = next]
             ELSE /\ held' = [held EXCEPT ![p] = Nothing]
                  /\ UNCHANGED journal
      BY <2>2
    <2>5. /\ next \in Operation /\ Restorable(next) /\ next.plan = op.plan
          /\ next.revision = op.revision + 1 /\ next # NoOperation
      BY <2>1, <2>3, SuccessorsAreRestorable, NoOperationAssumption
    <2>6. UNCHANGED reading
      BY <1>5 DEF StoreTransition
    <2>7. CASE IsPreceding(journal[id], next)
      <3>1. /\ journal' = [journal EXCEPT ![id] = next]
            /\ held' = [held EXCEPT ![p] = [id |-> id, op |-> next]]
        BY <2>1, <2>4, <2>7 DEF Copy
      <3>2. /\ journal[id] # NoOperation /\ journal[id] \in Operation
            /\ next.revision = journal[id].revision + 1
            /\ next.plan = journal[id].plan
        BY <2>1, <2>5, <2>7 DEF IsPreceding, TypeOK, CopyIsStoredOrStale, IsCopy
      <3>3. TypeOK'
        BY <2>1, <2>5, <2>6, <3>1 DEF TypeOK, Copy
      <3>4. StoredOperationsDecode' /\ HeldOperationsDecode'
        BY <2>1, <2>5, <3>1
        DEF StoredOperationsDecode, HeldOperationsDecode, TypeOK
      <3>5. \A q \in Processes : IsCopy(reading[q])'
        <4>1. \A q \in Processes : reading[q] \in Copy /\ IsCopy(reading[q])
          BY DEF TypeOK, CopyIsStoredOrStale
        <4> QED
          BY <2>1, <2>5, <2>6, <3>1, <3>2, <4>1, CopiesSurviveTransition
          DEF IsCopy
      <3>6. \A q \in Processes : IsCopy(held[q])'
        <4>1. \A q \in Processes : held[q] \in Copy /\ IsCopy(held[q])
          BY DEF TypeOK, CopyIsStoredOrStale
        <4>2. \A q \in Processes : q # p => IsCopy(held[q])'
          <5> SUFFICES ASSUME NEW q \in Processes, q # p
                       PROVE  IsCopy(held[q])'
            OBVIOUS
          <5>1. held'[q] = held[q]
            BY <3>1 DEF TypeOK
          <5>2. held[q] \in Copy /\ IsCopy(held[q])
            BY <4>1
          <5> HIDE DEF id, op
          <5>3. held[q].op # NoOperation =>
                   /\ journal'[held[q].id] # NoOperation
                   /\ held[q].op.plan = journal'[held[q].id].plan
                   /\ held[q].op.revision <= journal'[held[q].id].revision
                   /\ held[q].op.revision = journal'[held[q].id].revision
                         => held[q].op = journal'[held[q].id]
            BY <2>1, <2>5, <3>1, <3>2, <5>2, CopiesSurviveTransition
          <5> QED BY <5>1, <5>3 DEF IsCopy
        <4>3. IsCopy(held[p])'
          <5>1. held'[p] = [id |-> id, op |-> next] /\ journal'[id] = next
            BY <2>1, <3>1 DEF TypeOK
          <5>2. next.revision \in Nat
            BY <2>5 DEF Operation
          <5> QED BY <2>5, <5>1, <5>2 DEF IsCopy
        <4> QED BY <4>2, <4>3
      <3> QED BY <3>3, <3>4, <3>5, <3>6 DEF CopyIsStoredOrStale
    <2>8. CASE ~ IsPreceding(journal[id], next)
      <3>1. held' = [held EXCEPT ![p] = Nothing] /\ UNCHANGED <<journal, reading>>
        BY <2>4, <2>6, <2>8
      <3> QED
        BY <3>1, NothingIsCopy DEF TypeOK, StoredOperationsDecode,
           HeldOperationsDecode, CopyIsStoredOrStale, IsCopy
    <2> QED BY <2>7, <2>8
  <1>6. CASE UNCHANGED vars
    BY <1>6 DEF vars, TypeOK, StoredOperationsDecode, HeldOperationsDecode,
       CopyIsStoredOrStale, IsCopy
  <1> QED
    BY <1>1, <1>2, <1>3, <1>4, <1>5, <1>6 DEF Next

(***************************************************************************)
(* The journal, every copy and every torn read stay well typed; what is    *)
(* stored decodes; a copy with the stored revision is the stored operation.*)
(***************************************************************************)
THEOREM JournalInvariant ==
    Spec => [](TypeOK /\ StoredOperationsDecode /\ CopyIsStoredOrStale)
  <1>1. IInv => TypeOK /\ StoredOperationsDecode /\ CopyIsStoredOrStale
    BY DEF IInv
  <1> QED BY <1>1, InitIInv, NextIInv, PTL DEF Spec

(***************************************************************************)
(* The platform snapshot is touched only after every provider step.        *)
(***************************************************************************)
THEOREM SnapshotIsLast ==
    Spec => []SnapshotAfterProviders
  <1>1. IInv => SnapshotAfterProviders
    <2> SUFFICES ASSUME IInv, NEW id \in OperationIds, journal[id] # NoOperation
                 PROVE  LET op   == journal[id]
                            last == Len(op.plan)
                        IN  /\ op.phase = "Applying" /\ op.steps[last] # "Pending" =>
                                 \A i \in 1 .. last - 1 : op.steps[i] = "Applied"
                            /\ op.phase = "Compensating"
                                 /\ op.steps[last] \in {"CompensationPending", "Compensating"} =>
                                 \A i \in 1 .. last - 1 : op.steps[i] = "CompensationPending"
      BY DEF SnapshotAfterProviders
    <2> DEFINE op   == journal[id]
               last == Len(op.plan)
    <2>1. op \in Operation /\ Restorable(op)
      BY DEF IInv, TypeOK, StoredOperationsDecode
    <2>2. /\ last \in Nat /\ last > 0
          /\ DOMAIN op.steps = 1 .. last
      <3>1. op.steps \in Seq(StepStates) /\ Len(op.steps) = last
        BY <2>1 DEF Operation
      <3> QED BY <2>1, <3>1 DEF Restorable, ValidatePlan
    <2>3. PhaseMatchesSteps(op.phase, op.steps)
      BY <2>1 DEF Restorable
    <2>4. ASSUME op.phase = "Applying", op.steps[last] # "Pending",
                 NEW i \in 1 .. last - 1
          PROVE  op.steps[i] = "Applied"
      <3>1. ApplyingStepsAreOrdered(op.steps)
        BY <2>3, <2>4 DEF PhaseMatchesSteps
      <3>2. i \in 1 .. last /\ last \in 1 .. last /\ i < last
        BY <2>2
      <3> HIDE DEF op, last
      <3>3. op.steps[last] \in {"Applied", "Applying", "Pending"}
        BY <2>2, <3>1, <3>2 DEF ApplyingStepsAreOrdered, NonDecreasing, ApplyingRank
      <3>4. ApplyingRank[op.steps[i]] <= ApplyingRank[op.steps[last]]
        BY <2>2, <3>1, <3>2 DEF ApplyingStepsAreOrdered, NonDecreasing
      <3>5. op.steps[i] \in {"Applied", "Applying", "Pending"}
        BY <2>2, <3>1, <3>2 DEF ApplyingStepsAreOrdered, NonDecreasing, ApplyingRank
      <3>6. op.steps[last] = "Applying" => op.steps[i] = "Applied"
        BY <2>2, <3>1, <3>2, ApplyingShape
      <3> QED BY <2>4, <3>3, <3>4, <3>5, <3>6 DEF ApplyingRank
    <2>5. ASSUME op.phase = "Compensating",
                 op.steps[last] \in {"CompensationPending", "Compensating"},
                 NEW i \in 1 .. last - 1
          PROVE  op.steps[i] = "CompensationPending"
      <3>1. CompensatingStepsAreOrdered(op.steps)
        BY <2>3, <2>5 DEF PhaseMatchesSteps
      <3>2. i \in 1 .. last /\ last \in 1 .. last /\ i < last
        BY <2>2
      <3> QED BY <2>2, <2>5, <3>1, <3>2, CompensatingShape
    <2> QED BY <2>4, <2>5
  <1> QED BY <1>1, InitIInv, NextIInv, PTL DEF Spec

-----------------------------------------------------------------------------
(***************************************************************************)
(* AtomicOperations uses the same operation type.                          *)
(***************************************************************************)
LEMMA AtomicOperators ==
    /\ Atomic!Kinds = Kinds
    /\ \A kind, plan, at :
          Atomic!NewOperation(kind, plan, at) = NewOperation(kind, plan, at)
    /\ \A op, at : Atomic!Successors(op, at) = Successors(op, at)
  <1>1. /\ Atomic!Kinds = Kinds
        /\ \A kind, plan, at :
              Atomic!NewOperation(kind, plan, at) = NewOperation(kind, plan, at)
    BY DEF Kinds, Atomic!Kinds, NewOperation, Atomic!NewOperation
  <1>2. ASSUME NEW op, NEW at
        PROVE  Atomic!Successors(op, at) = Successors(op, at)
    BY Zenon DEF Advance, Atomic!Advance, SetStep, Atomic!SetStep,
       Successors, Atomic!Successors,
       BeginResource, Atomic!BeginResource, CanBeginResource, Atomic!CanBeginResource,
       CompleteResource, Atomic!CompleteResource, CanCompleteResource, Atomic!CanCompleteResource,
       BeginResourceCompensation, Atomic!BeginResourceCompensation,
       CanBeginResourceCompensation, Atomic!CanBeginResourceCompensation,
       CompleteResourceCompensation, Atomic!CompleteResourceCompensation,
       CanCompleteResourceCompensation, Atomic!CanCompleteResourceCompensation,
       Commit, Atomic!Commit, CanCommit, Atomic!CanCommit,
       BeginCompensation, Atomic!BeginCompensation, CanBeginCompensation, Atomic!CanBeginCompensation,
       FinishCompensation, Atomic!FinishCompensation, CanFinishCompensation, Atomic!CanFinishCompensation
  <1> QED BY <1>1, <1>2

(***************************************************************************)
(* A step of the journal is a step of AtomicOperations or leaves the       *)
(* stored operations alone.                                                *)
(***************************************************************************)
LEMMA StepIsAtomic ==
    IInv /\ [Next]_vars => [Atomic!Next]_journal
  <1> SUFFICES ASSUME IInv, Next
               PROVE  Atomic!Next \/ UNCHANGED journal
    BY DEF vars
  <1>1. ASSUME NEW p \in Processes, NEW id \in OperationIds, Create(p, id)
        PROVE  Atomic!Next
    <2>1. /\ journal[id] = NoOperation
          /\ \E kind \in Kinds, plan \in Plans, at \in Times :
                journal' = [journal EXCEPT ![id] = NewOperation(kind, plan, at)]
      BY <1>1 DEF Create
    <2>2. Atomic!Create(id)
      BY <2>1, AtomicOperators, Zenon DEF Atomic!Create
    <2> QED BY <2>2 DEF Atomic!Next
  <1>2. ASSUME NEW p \in Processes, StoreTransition(p)
        PROVE  Atomic!Next \/ UNCHANGED journal
    <2> DEFINE id == held[p].id
               op == held[p].op
    <2>1. id \in OperationIds /\ op \in Operation /\ Restorable(op)
          /\ op # NoOperation
      BY <1>2 DEF StoreTransition, IInv, TypeOK, Copy, HeldOperationsDecode
    <2>2. PICK now \in Times :
          \E next \in Successors(op, TransitionTime(op, now)) :
             \/ /\ IsPreceding(journal[id], next)
                /\ journal' = [journal EXCEPT ![id] = next]
             \/ UNCHANGED journal
      BY <1>2 DEF StoreTransition
    <2>3. TransitionTime(op, now) \in Times
      BY <2>1 DEF TransitionTime, Operation
    <2>4. ASSUME NEW next \in Successors(op, TransitionTime(op, now)),
                 IsPreceding(journal[id], next),
                 journal' = [journal EXCEPT ![id] = next]
          PROVE  Atomic!Transition(id)
      <3>1. next.revision = op.revision + 1
        BY <2>1, <2>3, SuccessorsAreRestorable
      <3>2. /\ journal[id] # NoOperation /\ journal[id] \in Operation
            /\ journal[id].revision + 1 = next.revision
        BY <2>1, <2>4 DEF IsPreceding, IInv, TypeOK
      <3>3. op.revision = journal[id].revision
        <4>1. op.revision \in Nat /\ journal[id].revision \in Nat
          BY <2>1, <3>2 DEF Operation
        <4> QED BY <3>1, <3>2, <4>1
      <3>4. op = journal[id]
        BY <2>1, <3>3 DEF IInv, CopyIsStoredOrStale, IsCopy
      <3> QED BY <2>3, <2>4, <3>2, <3>4, AtomicOperators DEF Atomic!Transition
    <2> QED BY <2>1, <2>2, <2>4 DEF Atomic!Next
  <1>3. ASSUME NEW p \in Processes,
               \/ \E id \in OperationIds : LoadRow(p, id)
               \/ Decode(p)
               \/ Drop(p)
        PROVE  UNCHANGED journal
    BY <1>3 DEF LoadRow, Decode, Drop
  <1> QED BY <1>1, <1>2, <1>3 DEF Next

(***************************************************************************)
(* The journal with its stale copies and torn reads implements             *)
(* AtomicOperations: no transition of another process is overwritten.      *)
(***************************************************************************)
THEOREM JournalRefinesAtomic ==
    Spec => TransitionsAreAtomic
  <1>1. Init => Atomic!Init
    BY DEF Init, Atomic!Init
  <1> QED
    BY <1>1, InitIInv, NextIInv, StepIsAtomic, PTL
    DEF Spec, TransitionsAreAtomic, Atomic!Spec

(***************************************************************************)
(* A committed or compensated operation has no successor, and only its     *)
(* successors can replace it.                                              *)
(***************************************************************************)
THEOREM TerminalStaysTerminal ==
    Spec => TerminalIsFinal
  <1> DEFINE Kept == \A id \in OperationIds :
                        journal[id] # NoOperation /\ IsTerminal(journal[id])
                            => journal'[id] = journal[id]
  <1>1. IInv /\ [Atomic!Next]_journal => [Kept]_journal
    <2> SUFFICES ASSUME IInv, NEW id \in OperationIds,
                        Atomic!Create(id) \/ Atomic!Transition(id)
                 PROVE  Kept
      BY DEF Atomic!Next
    <2>1. CASE Atomic!Create(id)
      BY <2>1 DEF Atomic!Create, IInv, TypeOK
    <2>2. CASE Atomic!Transition(id)
      <3>1. \E at \in Times : Successors(journal[id], at) # {}
        BY <2>2, AtomicOperators DEF Atomic!Transition
      <3>2. ~ IsTerminal(journal[id])
        BY <3>1 DEF Successors, IsTerminal, CanBeginResource, CanCompleteResource,
           CanCommit, CanBeginCompensation, CanBeginResourceCompensation,
           CanCompleteResourceCompensation, CanFinishCompensation
      <3> QED BY <2>2, <3>2 DEF Atomic!Transition, IInv, TypeOK
    <2> QED BY <2>1, <2>2
  <1> QED
    BY <1>1, InitIInv, NextIInv, StepIsAtomic, PTL DEF Spec, TerminalIsFinal
=============================================================================
