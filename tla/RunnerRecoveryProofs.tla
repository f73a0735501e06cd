------------------------ MODULE RunnerRecoveryProofs ------------------------
(***************************************************************************)
(* The operation runner of a host that recovers at startup and then serves *)
(* one call at a time: what crashes, failures, compensations and repeated  *)
(* recoveries leave of the participants' resources and of the snapshot.    *)
(***************************************************************************)
EXTENDS AppResourcesProofs

(***************************************************************************)
(* What a step of the only process p may do.                               *)
(***************************************************************************)
LoneStep(p) ==
    /\ HistoryOK(journal', target')
    /\ ResourcesOK(journal', target', snapshot', resources')
    /\ \E q : /\ LoneOK(journal', target', snapshot', resources', q)
              /\ proc' = [proc EXCEPT ![p] = q]

\* A process between two calls holds nothing.
LEMMA LoneResting ==
    ASSUME NEW j, NEW t, NEW s, NEW R, NEW q, q.pc \in {"idle", "ok", "error"}
    PROVE  LoneOK(j, t, s, R, q)
  BY DEF LoneOK

\* A call that returns leaves the process with nothing to keep right.
LEMMA LoneReturn ==
    ASSUME NEW p, HistoryOK(journal', target'),
           ResourcesOK(journal', target', snapshot', resources'),
           NEW outcome \in {"ok", "error"}, Return(p, outcome)
    PROVE  LoneStep(p)
<1>1. Returned(proc[p], outcome).pc = outcome
  BY IdleIsProcess DEF Returned, Process
<1>2. proc' = [proc EXCEPT ![p] = Returned(proc[p], outcome)]
  BY DEF Return
<1>3. LoneOK(journal', target', snapshot', resources', Returned(proc[p], outcome))
  BY <1>1, LoneResting
<1> QED
  BY <1>2, <1>3, Zenon DEF LoneStep

\* Only the process changes.
LEMMA LoneProcStep ==
    ASSUME RecoveryInv, NEW p, UNCHANGED durable,
           NEW q, LoneOK(journal, target, snapshot, resources, q), proc' = [proc EXCEPT ![p] = q]
    PROVE  LoneStep(p)
  BY Zenon DEF LoneStep, RecoveryInv, durable

\* A call that takes up an operation which has not ended, with no step in progress.
LEMMA LoneWorking ==
    ASSUME NEW j, NEW t, NEW s, NEW R, NEW live, NEW id, NEW op, NEW staged,
           op = j[id], ~ IsTerminal(op), StagesOnly(op, t[id], staged, s),
           NEW q, q = Working(live, id, op, staged, <<>>)
    PROVE  LoneOK(j, t, s, R, q)
<1>1. /\ q.pc = "running" /\ q.id = id /\ q.op = op /\ q.staged = staged
      /\ q.called = FALSE /\ q.todo = <<>>
  BY DEF Working
<1> QED
  BY <1>1 DEF LoneOK

\* Staging changes the membership of the target only.
LEMMA StagesInstall ==
    ASSUME NEW s \in State, NEW i \in Installations, NEW op,
           op.kind = "Install", op.phase = "Applying", NEW staged \in StageInstallTarget(s, i)
    PROVE  StagesOnly(op, i, staged, s)
<1>1. staged = [s EXCEPT !.apps = @ \cup {i}]
  BY DEF StageInstallTarget
<1>2. staged.apps = s.apps \cup {i}
  BY <1>1 DEF State
<1> QED
  BY <1>2 DEF StagesOnly

\* A snapshot staged for an uninstall or a compensation takes only that app away.
LEMMA StagesWithout ==
    ASSUME NEW s \in State, NEW i \in Installations, NEW op,
           ~ (op.kind = "Install" /\ op.phase = "Applying"),
           NEW staged \in StageWithoutTarget(s, i)
    PROVE  StagesOnly(op, i, staged, s)
<1>1. staged = [s EXCEPT !.apps = @ \ {i}]
  BY DEF StageWithoutTarget
<1>2. staged.apps = s.apps \ {i}
  BY <1>1 DEF State
<1> QED
  BY <1>2 DEF StagesOnly

\* Requests: install, uninstall, and the first half of a compensation.
LEMMA LoneCreate ==
    ASSUME RecoveryInv, NEW p \in Processes, NEW i \in Installations, NEW kind \in RunnerKinds,
           \A a \in In(journal) : IsTerminal(journal[a]),
           NEW staged,
           \/ /\ kind = "Install" /\ \A a \in In(journal) : target[a] # i
              /\ staged \in StageInstallTarget(snapshot, i)
           \/ /\ kind = "Uninstall" /\ i \in snapshot.apps
              /\ staged \in StageWithoutTarget(snapshot, i),
           CreateOperation(p, kind, i, snapshot, staged), UNCHANGED <<snapshot, resources>>
    PROVE  LoneStep(p)
<1>1. PICK id \in OperationIds \ Stored, at \in Times :
         LET op == NewOperation(kind, PlanForApp(App(i), kind), at)
         IN  /\ journal' = [journal EXCEPT ![id] = op]
             /\ target' = [target EXCEPT ![id] = i]
             /\ proc' = [proc EXCEPT ![p] = Working(snapshot, id, op, staged, <<>>)]
  BY Zenon DEF CreateOperation
<1> DEFINE op == NewOperation(kind, PlanForApp(App(i), kind), at)
           q == Working(snapshot, id, op, staged, <<>>)
<1>2. /\ journal' = [journal EXCEPT ![id] = op] /\ target' = [target EXCEPT ![id] = i]
      /\ proc' = [proc EXCEPT ![p] = q] /\ id \in OperationIds \ In(journal)
  BY <1>1 DEF Stored, In
<1>3. /\ JournalOK(journal, target) /\ StateOK(journal, target, snapshot)
      /\ HistoryOK(journal, target) /\ ResourcesOK(journal, target, snapshot, resources)
  BY DEF RecoveryInv, RunnerInv
<1>4. Entered(journal, target, id, i, kind, op, journal', target')
  <2>1. Enters(journal, target, id, i, kind, op, journal', target')
    BY <1>2 DEF Enters
  <2> HIDE DEF op
  <2> QED
    BY <1>3, <2>1, NewEntry
<1> HIDE DEF op
<1>5. \/ kind = "Install" /\ \A a \in In(journal) : target[a] # i
      \/ /\ kind = "Uninstall"
         /\ \A a \in In(journal) : target[a] = i => journal[a].kind # "Uninstall"
         /\ \E a \in In(journal) : /\ target[a] = i /\ journal[a].kind = "Install"
                                   /\ journal[a].phase = "Committed"
  <2>1. CASE kind = "Install"
    BY <2>1
  <2>2. CASE kind = "Uninstall"
    <3>1. i \in snapshot.apps
      BY <2>2
    <3>2. AppliedIn(journal, target, i)
      BY <1>3, <3>1 DEF StateOK
    <3> QED
      BY <1>3, <2>2, <3>1, <3>2, CommittedInstall
  <2> QED
    BY <2>1, <2>2 DEF RunnerKinds
<1>6. HistoryOK(journal', target')
  BY <1>3, <1>4, <1>5, NewOperationKeepsHistory
<1>7. ResourcesOK(journal', target', snapshot, resources)
  BY <1>3, <1>4, <1>5, NewOperationKeepsResources
<1>8. StagesOnly(op, i, staged, snapshot)
  <2>1. snapshot \in State
    BY <1>3 DEF StateOK
  <2>2. CASE kind = "Install"
    BY <1>4, <2>1, <2>2, StagesInstall DEF Entered
  <2>3. CASE kind = "Uninstall"
    BY <1>4, <2>1, <2>3, StagesWithout DEF Entered
  <2> QED
    BY <2>2, <2>3 DEF RunnerKinds
<1>9. LoneOK(journal', target', snapshot, resources, q)
  <2>1. journal'[id] = op /\ target'[id] = i /\ ~ IsTerminal(op)
    BY <1>4 DEF Entered, IsTerminal
  <2> QED
    BY <1>8, <2>1, LoneWorking, Zenon
<1> QED
  BY <1>2, <1>6, <1>7, <1>9, Zenon DEF LoneStep

\* install, when every earlier operation has ended.
LEMMA LoneInstall ==
    ASSUME RecoveryInv, NEW p \in Processes, NEW i \in Installations,
           \A a \in In(journal) : IsTerminal(journal[a]), Install(p, i, snapshot)
    PROVE  LoneStep(p)
<1>1. (\A a \in In(journal) : target[a] # i) /\ UNCHANGED <<snapshot, resources>>
  BY DEF Install, Stored, In
<1>2. CASE Conflicts(snapshot, i)
  <2> DEFINE q == [Idle EXCEPT !.pc = "error", !.live = snapshot]
  <2>1. proc' = [proc EXCEPT ![p] = q] /\ UNCHANGED durable
    BY <1>1, <1>2 DEF Install, durable
  <2>2. q.pc = "error"
    BY IdleIsProcess DEF Process
  <2> HIDE DEF q
  <2>3. LoneOK(journal, target, snapshot, resources, q)
    BY <2>2, LoneResting
  <2> QED
    BY <2>1, <2>3, LoneProcStep, Zenon
<1>3. CASE ~ Conflicts(snapshot, i)
  <2>1. PICK staged \in StageInstallTarget(snapshot, i) :
           CreateOperation(p, "Install", i, snapshot, staged)
    BY <1>3 DEF Install
  <2>2. "Install" \in RunnerKinds
    BY DEF RunnerKinds
  <2> QED
    BY <1>1, <2>1, <2>2, LoneCreate
<1> QED
  BY <1>2, <1>3

\* uninstall, when every earlier operation has ended.
LEMMA LoneUninstall ==
    ASSUME RecoveryInv, NEW p \in Processes, NEW i \in Installations,
           \A a \in In(journal) : IsTerminal(journal[a]), Uninstall(p, i, snapshot)
    PROVE  LoneStep(p)
<1>1. i \in snapshot.apps /\ UNCHANGED <<snapshot, resources>>
  BY DEF Uninstall
<1>2. PICK staged \in StageWithoutTarget(snapshot, i) :
         CreateOperation(p, "Uninstall", i, snapshot, staged)
  BY DEF Uninstall
<1>3. "Uninstall" \in RunnerKinds
  BY DEF RunnerKinds
<1> QED
  BY <1>1, <1>2, <1>3, LoneCreate

\* find_install takes a copy of an operation and changes nothing.
LEMMA LoneFindInstall ==
    ASSUME RecoveryInv, NEW p \in Processes, NEW id \in OperationIds,
           FindInstall(p, id, snapshot)
    PROVE  LoneStep(p)
<1> DEFINE found == [Idle EXCEPT !.pc = "found", !.live = snapshot, !.id = id, !.op = journal[id]]
           failed == [Idle EXCEPT !.pc = "error", !.live = snapshot]
<1>0. UNCHANGED durable
  BY DEF FindInstall
<1>1. CASE journal[id].kind = "Install" /\ ~ IsTerminal(journal[id])
  <2>1. proc' = [proc EXCEPT ![p] = found]
    BY <1>1 DEF FindInstall
  <2>2. found.pc = "found" /\ found.id = id
    BY IdleIsProcess DEF Process
  <2>3. found.live = snapshot /\ found.op = journal[id]
    BY IdleIsProcess DEF Process
  <2> HIDE DEF found
  <2>4. LoneOK(journal, target, snapshot, resources, found)
    BY <1>1, <2>2, <2>3 DEF LoneOK
  <2> QED
    BY <1>0, <2>1, <2>4, LoneProcStep, Zenon
<1>2. CASE ~ (journal[id].kind = "Install" /\ ~ IsTerminal(journal[id]))
  <2>1. proc' = [proc EXCEPT ![p] = failed]
    BY <1>2, Zenon DEF FindInstall
  <2>2. failed.pc = "error"
    BY IdleIsProcess DEF Process
  <2> HIDE DEF failed
  <2>3. LoneOK(journal, target, snapshot, resources, failed)
    BY <2>2, LoneResting
  <2> QED
    BY <1>0, <2>1, <2>3, LoneProcStep, Zenon
<1> QED
  BY <1>1, <1>2

\* recover_incomplete: at most one operation is incomplete, so at most one is listed.
LEMMA LoneListIncomplete ==
    ASSUME RecoveryInv, NEW p \in Processes, ListIncomplete(p, snapshot)
    PROVE  LoneStep(p)
<1> DEFINE Todo(n, order) == [k \in 1 .. n |-> [id |-> order[k], op |-> NoOperation]]
           Q(n, order) == [Idle EXCEPT !.pc = "listing", !.live = snapshot,
                                       !.todo = Todo(n, order)]
<1>1. PICK size \in 0 .. MaxOperations : \E order \in [1 .. size -> Incomplete] :
         /\ \A a, b \in 1 .. size : a < b => StartOrder(order[a], order[b])
         /\ proc' = [proc EXCEPT ![p] = Q(size, order)]
  BY Zenon DEF ListIncomplete
<1>2. PICK order \in [1 .. size -> Incomplete] :
         /\ \A a, b \in 1 .. size : a < b => StartOrder(order[a], order[b])
         /\ proc' = [proc EXCEPT ![p] = Q(size, order)]
  BY <1>1, Zenon
<1>3. ASSUME NEW a \in Incomplete, NEW b \in Incomplete
      PROVE  a = b /\ ~ StartOrder(a, b)
  <2>1. a \in In(journal) /\ ~ IsTerminal(journal[a])
        /\ b \in In(journal) /\ ~ IsTerminal(journal[b])
    BY <1>3 DEF Incomplete, Stored, In
  <2>2. a = b
    BY <2>1 DEF RecoveryInv, HistoryOK
  <2>3. journal[a] \in Operation
    BY <2>1 DEF RecoveryInv, RunnerInv, JournalOK, In
  <2>4. journal[a].startedAt \in Nat /\ a \in Nat
    <3>1. journal[a].startedAt \in Times
      BY <2>3, OperationFacts
    <3>2. a \in OperationIds /\ OperationIds \subseteq Nat
      BY <2>1 DEF In, OperationIds
    <3> QED
      BY <3>1, <3>2, RunnerAssumption, Zenon
  <2> QED
    BY <2>2, <2>4 DEF StartOrder
<1>4. size <= 1
  <2> SUFFICES ASSUME 2 <= size PROVE FALSE
    BY <1>1
  <2>1. 1 \in 1 .. size /\ 2 \in 1 .. size /\ DOMAIN order = 1 .. size
    BY <1>1
  <2>2. order[1] \in Incomplete /\ order[2] \in Incomplete /\ StartOrder(order[1], order[2])
    BY <1>2, <2>1
  <2> QED
    BY <1>3, <2>2
<1> DEFINE todo == Todo(size, order)
           q == Q(size, order)
<1>5. /\ DOMAIN todo = 1 .. size /\ \A k \in 1 .. size : todo[k].id = order[k]
      /\ \A k \in 1 .. size : order[k] \in Incomplete
  OBVIOUS
<1>6. Len(todo) = size
  BY <1>1, <1>5
<1> HIDE DEF Todo
<1>7. q.pc = "listing" /\ q.live = snapshot /\ q.todo = todo
  BY IdleIsProcess DEF Process
<1>8. proc' = [proc EXCEPT ![p] = q]
  BY <1>2
<1> HIDE DEF q, todo
<1>9. LoneOK(journal, target, snapshot, resources, q)
  BY <1>4, <1>5, <1>6, <1>7 DEF LoneOK, Incomplete
<1>10. UNCHANGED durable
  BY DEF ListIncomplete
<1> QED
  BY <1>8, <1>9, <1>10, LoneProcStep, Zenon

\* recover_incomplete reads the next operation of its list.
LEMMA LoneLoadIncomplete ==
    ASSUME RecoveryInv, NEW p \in Processes, LoadIncomplete(p)
    PROVE  LoneStep(p)
<1> DEFINE self == proc[p]
           listed == self.todo
           todo == [k \in DOMAIN listed |-> [listed[k] EXCEPT !.op = journal[listed[k].id]]]
           q == [self EXCEPT !.pc = "recovering", !.todo = todo]
<1>1. /\ self \in Process /\ self.pc = "listing" /\ listed \in Seq(Entry)
      /\ LoneOK(journal, target, snapshot, resources, self)
  BY DEF LoadIncomplete, RecoveryInv, RunnerInv, Process
<1>2. proc' = [proc EXCEPT ![p] = q] /\ UNCHANGED durable
  BY Zenon DEF LoadIncomplete, RecoveryInv, RunnerInv
<1>3. /\ self.live = snapshot /\ Len(listed) <= 1
      /\ \A k \in DOMAIN listed : ~ IsTerminal(journal[listed[k].id])
  BY <1>1 DEF LoneOK
<1> HIDE DEF self, listed
<1>4. \A k \in DOMAIN listed : listed[k] \in Entry
  BY <1>1
<1>5. ASSUME NEW k \in DOMAIN listed
      PROVE  todo[k].id = listed[k].id /\ todo[k].op = journal[listed[k].id]
  BY <1>4 DEF Entry
<1>6. DOMAIN todo = DOMAIN listed /\ Len(todo) = Len(listed)
  <2>1. DOMAIN todo = 1 .. Len(listed) /\ Len(listed) \in Nat
    BY <1>1
  <2> QED
    BY <1>1, <2>1
<1> HIDE DEF todo
<1>7. q.pc = "recovering" /\ q.todo = todo /\ q.live = self.live
  BY <1>1 DEF Process
<1> HIDE DEF q
<1>8. LoneOK(journal, target, snapshot, resources, q)
  BY <1>3, <1>5, <1>6, <1>7 DEF LoneOK
<1> QED
  BY <1>2, <1>8, LoneProcStep, Zenon

\* The only operation to resume is resumed as it is stored, from the stored snapshot.
LEMMA LoneResumeNext ==
    ASSUME RecoveryInv, NEW p \in Processes, ResumeNext(p)
    PROVE  LoneStep(p)
<1> DEFINE self == proc[p]
           live == self.live
           todo == self.todo
           rest == Tail(todo)
           id == Head(todo).id
           op == Head(todo).op
           staging == IF IsTerminal(op) THEN {}
                      ELSE IF op.kind = "Install" /\ op.phase = "Applying"
                      THEN StageInstallTarget(live, target[id])
                      ELSE StageWithoutTarget(live, target[id])
<1>1. /\ ProcOK(journal, target, self) /\ self.pc = "recovering" /\ UNCHANGED durable
      /\ LoneOK(journal, target, snapshot, resources, self) /\ JournalOK(journal, target)
      /\ snapshot \in State /\ HistoryOK(journal, target)
      /\ ResourcesOK(journal, target, snapshot, resources)
  BY DEF ResumeNext, RecoveryInv, RunnerInv, StateOK
<1>2. IF todo = <<>> THEN Return(p, "ok")
      ELSE \/ \E staged \in staging :
                 proc' = [proc EXCEPT ![p] = Working(live, id, op, staged, rest)]
           \/ staging = {} /\ Return(p, "error")
  BY DEF ResumeNext
<1>3. /\ todo \in Seq(Entry) /\ TodoOK(journal, todo) /\ live = snapshot /\ Len(todo) <= 1
      /\ \A k \in DOMAIN todo : todo[k].op = journal[todo[k].id] /\ ~ IsTerminal(todo[k].op)
  BY <1>1 DEF ProcOK, Process, LoneOK
<1>4. HistoryOK(journal', target') /\ ResourcesOK(journal', target', snapshot', resources')
  BY <1>1 DEF durable
<1> HIDE DEF self, live, todo
<1>5. CASE todo = <<>> \/ Return(p, "error")
  BY <1>2, <1>4, <1>5, LoneReturn
<1>6. ASSUME todo # <<>>, NEW staged \in staging,
             proc' = [proc EXCEPT ![p] = Working(live, id, op, staged, rest)]
      PROVE  LoneStep(p)
  <2>1. 1 \in DOMAIN todo /\ Head(todo) = todo[1] /\ rest = <<>>
    BY <1>3, <1>6
  <2>2. op = journal[id] /\ ~ IsTerminal(op) /\ CopyOf(journal, id, op)
    BY <1>3, <2>1 DEF TodoOK
  <2>3. target[id] \in Installations
    BY <1>1, <2>2 DEF CopyOf, JournalOK
  <2> HIDE DEF id, op, rest
  <2>4. StagesOnly(op, target[id], staged, snapshot)
    <3>1. CASE op.kind = "Install" /\ op.phase = "Applying"
      <4>1. staged \in StageInstallTarget(snapshot, target[id])
        BY <1>3, <1>6, <2>2, <3>1
      <4> QED
        BY <1>1, <2>3, <3>1, <4>1, StagesInstall
    <3>2. CASE ~ (op.kind = "Install" /\ op.phase = "Applying")
      <4>1. staged \in StageWithoutTarget(snapshot, target[id])
        BY <1>3, <1>6, <2>2, <3>2
      <4> QED
        BY <1>1, <2>3, <3>2, <4>1, StagesWithout
    <3> QED
      BY <3>1, <3>2
  <2>5. LoneOK(journal, target, snapshot, resources, Working(live, id, op, staged, rest))
    BY <2>1, <2>2, <2>4, LoneWorking, Zenon
  <2> QED
    BY <1>1, <1>6, <2>5, LoneProcStep, Zenon
<1> QED
  BY <1>2, <1>5, <1>6

-----------------------------------------------------------------------------
\* The copy that the only process works on, or has found, is the stored one.
LEMMA LoneCopy ==
    ASSUME RecoveryInv, NEW p \in Processes, proc[p].pc \in {"running", "found"},
           NEW id, id = proc[p].id, NEW op, op = proc[p].op
    PROVE  /\ id \in In(journal) /\ op = journal[id] /\ ~ IsTerminal(op)
           /\ op \in Operation /\ Ordered(op) /\ target[id] \in Installations
           /\ JournalOK(journal, target) /\ HistoryOK(journal, target)
           /\ ResourcesOK(journal, target, snapshot, resources)
           /\ proc[p] \in Process /\ snapshot \in State
           /\ LoneOK(journal, target, snapshot, resources, proc[p])
<1>1. /\ ProcOK(journal, target, proc[p]) /\ JournalOK(journal, target)
      /\ HistoryOK(journal, target) /\ ResourcesOK(journal, target, snapshot, resources)
      /\ proc[p] \in Process /\ snapshot \in State
      /\ LoneOK(journal, target, snapshot, resources, proc[p])
  BY DEF RecoveryInv, RunnerInv, StateOK
<1>2. CopyOf(journal, id, op)
  BY <1>1 DEF ProcOK
<1>3. id \in In(journal) /\ op \in Operation /\ Ordered(op) /\ target[id] \in Installations
  BY <1>1, <1>2 DEF CopyOf, JournalOK
<1>4. op = journal[id] /\ ~ IsTerminal(op)
  BY <1>1 DEF LoneOK
<1> QED
  BY <1>1, <1>3, <1>4

\* store_transition, when the new version says of the resources what is the case.
LEMMA LoneStore ==
    ASSUME RecoveryInv, NEW p \in Processes, proc[p].pc \in {"running", "found"},
           UNCHANGED <<target, snapshot, resources>>,
           NEW id, id = proc[p].id, NEW op, op = proc[p].op, NEW i, i = target[id],
           NEW next, Progress(op, next),
           next.kind = "Uninstall" => next.phase \in {"Applying", "Committed"},
           \A k \in DOMAIN next.steps :
              /\ next.kind = "Install" /\ next.steps[k] \in {"Pending", "Compensated"} =>
                    \/ op.steps[k] \in {"Pending", "Compensated"}
                    \/ Gone(next.plan[k], i, resources[i], snapshot)
              /\ next.kind = "Install" /\ next.steps[k] = "Applied" =>
                    \/ op.steps[k] = "Applied"
                    \/ Made(next.plan[k], i, resources[i], snapshot)
              /\ next.kind = "Uninstall" /\ next.steps[k] = "Applied" =>
                    \/ op.steps[k] = "Applied"
                    \/ Gone(next.plan[k], i, resources[i], snapshot),
           NEW after, StoreTransition(p, next, after),
           \A j2 : j2[id] = next => LoneOK(j2, target, snapshot, resources, after)
    PROVE  LoneStep(p)
<1>1. /\ id \in In(journal) /\ op = journal[id] /\ ~ IsTerminal(op)
      /\ JournalOK(journal, target) /\ HistoryOK(journal, target)
      /\ ResourcesOK(journal, target, snapshot, resources)
  BY LoneCopy
<1>2. CASE journal' = [journal EXCEPT ![id] = next] /\ proc' = [proc EXCEPT ![p] = after]
  <2>1. HistoryOK(journal', target)
    BY <1>1, <1>2, TransitionKeepsHistory, Zenon
  <2>2. ResourcesOK(journal', target, snapshot, resources)
    BY <1>1, <1>2, TransitionKeepsResources, Zenon
  <2>3. journal'[id] = next
    <3>1. id \in DOMAIN journal
      BY <1>1, Zenon DEF JournalOK, In
    <3> QED
      BY <1>2, <3>1
  <2>4. LoneOK(journal', target, snapshot, resources, after)
    BY <2>3
  <2> QED
    BY <1>2, <2>1, <2>2, <2>4, Zenon DEF LoneStep
<1>3. CASE Return(p, "error") /\ UNCHANGED journal
  <2>1. HistoryOK(journal', target') /\ ResourcesOK(journal', target', snapshot', resources')
    BY <1>1, <1>3, Zenon
  <2> QED
    BY <1>3, <2>1, LoneReturn
<1> QED
  BY <1>2, <1>3 DEF StoreTransition

\* compensate_install turns the steps begun into steps to undo.
LEMMA LoneCompensateInstall ==
    ASSUME RecoveryInv, NEW p \in Processes, CompensateInstall(p)
    PROVE  LoneStep(p)
<1> DEFINE self == proc[p]
           found == self.op
           id == self.id
           live == self.live
           i == target[id]
           op == IF found.phase = "Applying"
                 THEN BeginCompensation(found, found.updatedAt) ELSE found
           staging == StageWithoutTarget(live, i)
           after == IF staging = {} THEN {Returned(self, "error")}
                    ELSE {Working(live, id, op, staged, <<>>) : staged \in staging}
<1>1. /\ self.pc = "found" /\ UNCHANGED <<target, snapshot, resources>>
      /\ \E next \in after :
            IF found.phase = "Applying" THEN StoreTransition(p, op, next)
            ELSE proc' = [proc EXCEPT ![p] = next] /\ UNCHANGED journal
  BY DEF CompensateInstall
<1>2. PICK next \in after :
            IF found.phase = "Applying" THEN StoreTransition(p, op, next)
            ELSE proc' = [proc EXCEPT ![p] = next] /\ UNCHANGED journal
  BY <1>1
<1>3. /\ id \in In(journal) /\ found = journal[id] /\ ~ IsTerminal(found)
      /\ found \in Operation /\ Ordered(found) /\ i \in Installations
      /\ LoneOK(journal, target, snapshot, resources, self) /\ snapshot \in State
  BY <1>1, LoneCopy, Zenon
<1>4. live = snapshot /\ found.kind = "Install"
  BY <1>1, <1>3, Zenon DEF LoneOK
<1>5. op.phase = "Compensating" /\ op.kind = "Install"
  <2>1. CASE found.phase = "Applying"
    BY <1>3, <1>4, <2>1, BeginCompensationProgress, ZenonT(60) DEF Progress
  <2>2. CASE found.phase # "Applying"
    <3>1. found.phase \in Phases
      BY <1>3, OperationFacts, Zenon
    <3> QED
      BY <1>3, <1>4, <2>2, <3>1 DEF Phases, IsTerminal
  <2> QED
    BY <2>1, <2>2
<1> HIDE DEF op, staging
<1>6. ASSUME NEW j2, j2[id] = op
      PROVE  LoneOK(j2, target, snapshot, resources, next)
  <2>1. CASE staging = {}
    <3>1. next = Returned(self, "error")
      BY <2>1
    <3>2. next.pc = "error"
      BY <3>1, IdleIsProcess DEF Returned, Process
    <3> QED
      BY <3>2, LoneResting
  <2>2. CASE staging # {}
    <3>1. PICK staged \in staging : next = Working(live, id, op, staged, <<>>)
      BY <2>2
    <3>2. StagesOnly(op, i, staged, snapshot)
      BY <1>3, <1>4, <1>5, StagesWithout DEF staging
    <3>3. ~ IsTerminal(op) /\ op = j2[id]
      BY <1>5, <1>6 DEF IsTerminal
    <3> HIDE DEF id, live
    <3> QED
      BY <3>1, <3>2, <3>3, LoneWorking, Zenon
  <2> QED
    BY <2>1, <2>2
<1> HIDE DEF after
<1>7. CASE found.phase = "Applying"
  <2>1. op = BeginCompensation(found, found.updatedAt)
    BY <1>7 DEF op
  <2>2. /\ Progress(found, op)
        /\ DOMAIN op.steps = DOMAIN found.steps
        /\ \A k \in DOMAIN found.steps :
              op.steps[k] = IF found.steps[k] = "Pending" THEN "Pending"
                            ELSE "CompensationPending"
    <3> HIDE DEF found
    <3>1. found \in Operation /\ Ordered(found)
      BY <1>3
    <3> QED
      BY <1>7, <2>1, <3>1, BeginCompensationProgress, ZenonT(60)
  <2>3. StoreTransition(p, op, next)
    BY <1>2, <1>7
  <2>4. \A k \in DOMAIN op.steps :
              /\ op.kind = "Install" /\ op.steps[k] \in {"Pending", "Compensated"} =>
                    \/ found.steps[k] \in {"Pending", "Compensated"}
                    \/ Gone(op.plan[k], i, resources[i], snapshot)
              /\ op.kind = "Install" /\ op.steps[k] = "Applied" =>
                    \/ found.steps[k] = "Applied"
                    \/ Made(op.plan[k], i, resources[i], snapshot)
              /\ op.kind = "Uninstall" /\ op.steps[k] = "Applied" =>
                    \/ found.steps[k] = "Applied"
                    \/ Gone(op.plan[k], i, resources[i], snapshot)
    BY <2>2
  <2>5. op.kind # "Uninstall" /\ self.pc \in {"running", "found"}
    BY <1>1, <1>5
  <2> QED
    BY <1>1, <1>6, <2>2, <2>3, <2>4, <2>5, LoneStore, Zenon
<1>8. CASE found.phase # "Applying"
  <2>1. op = found /\ proc' = [proc EXCEPT ![p] = next] /\ UNCHANGED journal
    BY <1>2, <1>8 DEF op
  <2>2. LoneOK(journal, target, snapshot, resources, next)
    BY <1>3, <1>6, <2>1
  <2>3. UNCHANGED durable
    BY <1>1, <2>1 DEF durable
  <2> QED
    BY <2>1, <2>2, <2>3, LoneProcStep, Zenon
<1> QED
  BY <1>7, <1>8

(***************************************************************************)
(* A transition of the running operation within its phase.                 *)
(***************************************************************************)
MovesStep(op, next, k, i, r, s) ==
    /\ Progress(op, next) /\ next.phase = op.phase /\ k \in DOMAIN op.steps
    /\ \A d \in DOMAIN op.steps : d # k => next.steps[d] = op.steps[d]
    /\ next.steps[k] \in {"Applying", "Compensating", "Applied", "Compensated"}
    /\ next.steps[k] \in {"Applied", "Compensated"} => Achieved(op, k, i, r, s)
    /\ next.steps[k] = "Applied" => op.phase = "Applying"

\* Storing a transition of one step, when the resources already are as the new state of
\* the step says.
LEMMA LoneRunningStore ==
    ASSUME RecoveryInv, NEW p \in Processes, Running(p),
           UNCHANGED <<target, snapshot, resources>>,
           NEW id, id = proc[p].id, NEW op, op = proc[p].op, NEW i, i = target[id],
           NEW next, NEW k, MovesStep(op, next, k, i, resources[i], snapshot),
           NEW after, after = [proc[p] EXCEPT !.op = next, !.called = FALSE],
           StoreTransition(p, next, after)
    PROVE  LoneStep(p)
<1>0. /\ Progress(op, next) /\ next.phase = op.phase /\ k \in DOMAIN op.steps
      /\ \A d \in DOMAIN op.steps : d # k => next.steps[d] = op.steps[d]
      /\ next.steps[k] \in {"Applying", "Compensating", "Applied", "Compensated"}
      /\ next.steps[k] \in {"Applied", "Compensated"} =>
            Achieved(op, k, i, resources[i], snapshot)
      /\ next.steps[k] = "Applied" => op.phase = "Applying"
  BY DEF MovesStep
<1> DEFINE self == proc[p]
<1>1. /\ id \in In(journal) /\ op = journal[id] /\ ~ IsTerminal(op)
      /\ op \in Operation /\ Ordered(op) /\ i \in Installations /\ self \in Process
      /\ HistoryOK(journal, target)
      /\ LoneOK(journal, target, snapshot, resources, self) /\ self.pc = "running"
  BY LoneCopy DEF Running
<1>2. /\ next \in Operation /\ next.kind = op.kind /\ next.plan = op.plan /\ Ordered(next)
      /\ DOMAIN next.steps = DOMAIN op.steps
  BY <1>0, <1>1, OperationFacts, Zenon DEF Progress
<1>3. next.kind = "Uninstall" => next.phase \in {"Applying", "Committed"}
  BY <1>0, <1>1, <1>2, Zenon DEF HistoryOK
<1>4. /\ after.pc = "running" /\ after.id = id /\ after.op = next
      /\ after.called = FALSE
  BY <1>1 DEF Process
<1>5. after.staged = self.staged /\ after.todo = self.todo
  BY <1>1 DEF Process
<1>6. /\ self.todo = <<>> /\ StagesOnly(op, i, self.staged, snapshot)
  BY <1>1 DEF LoneOK
<1> HIDE DEF self
<1>7. StagesOnly(next, i, after.staged, snapshot) /\ ~ IsTerminal(next)
  BY <1>0, <1>1, <1>2, <1>5, <1>6, Zenon DEF StagesOnly, IsTerminal
<1>8. ASSUME NEW j2, j2[id] = next
      PROVE  LoneOK(j2, target, snapshot, resources, after)
  BY <1>4, <1>5, <1>6, <1>7, <1>8 DEF LoneOK
<1>9. ASSUME NEW d \in DOMAIN next.steps
      PROVE   /\ next.kind = "Install" /\ next.steps[d] \in {"Pending", "Compensated"} =>
                    \/ op.steps[d] \in {"Pending", "Compensated"}
                    \/ Gone(next.plan[d], i, resources[i], snapshot)
              /\ next.kind = "Install" /\ next.steps[d] = "Applied" =>
                    \/ op.steps[d] = "Applied"
                    \/ Made(next.plan[d], i, resources[i], snapshot)
              /\ next.kind = "Uninstall" /\ next.steps[d] = "Applied" =>
                    \/ op.steps[d] = "Applied"
                    \/ Gone(next.plan[d], i, resources[i], snapshot)
  <2>1. CASE d # k
    BY <1>0, <1>2, <2>1
  <2>2. CASE d = k
    <3>1. next.steps[k] = "Compensated" => op.phase # "Applying"
      BY <1>0, <1>2 DEF Ordered
    <3> QED
      BY <1>0, <1>2, <2>2, <3>1 DEF Achieved
  <2> QED
    BY <2>1, <2>2
<1>10. proc[p].pc \in {"running", "found"}
  BY DEF Running
<1> QED
  BY <1>0, <1>3, <1>8, <1>9, <1>10, LoneStore, ZenonT(60)

\* A step begins only when none is in progress.
LEMMA BeginsAlone ==
    ASSUME NEW op \in Operation, Ordered(op), NEW k \in DOMAIN op.steps,
           CanBeginResource(op, k) \/ CanBeginResourceCompensation(op, k)
    PROVE  InProgress(op) = {}
<1> SUFFICES ASSUME NEW d \in InProgress(op) PROVE FALSE
  OBVIOUS
<1>1. /\ d \in DOMAIN op.steps /\ DOMAIN op.steps = 1 .. Len(op.plan)
      /\ \/ op.phase = "Applying" /\ op.steps[d] = "Applying"
         \/ op.phase = "Compensating" /\ op.steps[d] = "Compensating"
  BY StepInProgress
<1>2. Len(op.plan) \in Nat
  BY OperationFacts
<1>3. CASE CanBeginResource(op, k)
  <2>1. op.phase = "Applying" /\ op.steps[k] = "Pending" /\ \A m \in 1 .. k - 1 : op.steps[m] = "Applied"
    BY <1>3 DEF CanBeginResource
  <2>2. op.steps[d] = "Applying" /\ \A m \in 1 .. d - 1 : op.steps[m] = "Applied"
    BY <1>1, <2>1 DEF Ordered
  <2> QED
    BY <1>1, <1>2, <2>1, <2>2
<1>4. CASE CanBeginResourceCompensation(op, k)
  <2>1. /\ op.phase = "Compensating" /\ op.steps[k] = "CompensationPending"
        /\ \A m \in k + 1 .. Len(op.plan) : op.steps[m] \notin {"CompensationPending", "Compensating"}
    BY <1>4 DEF CanBeginResourceCompensation
  <2>2. op.steps[d] = "Compensating" /\ \A m \in 1 .. k - 1 : op.steps[m] = "CompensationPending"
    BY <1>1, <2>1 DEF Ordered
  <2> QED
    BY <1>1, <1>2, <2>1, <2>2
<1> QED
  BY <1>3, <1>4

\* A step is marked as begun before its participant is called.
LEMMA LoneBeginStep ==
    ASSUME RecoveryInv, NEW p \in Processes, BeginStep(p)
    PROVE  LoneStep(p)
<1> DEFINE self == proc[p]
           op == self.op
           id == self.id
           i == target[id]
<1>1. Running(p) /\ UNCHANGED <<target, snapshot, resources>> /\ self.pc = "running"
  BY DEF BeginStep, Running
<1>2. PICK next, k :
         /\ StoreTransition(p, next, [self EXCEPT !.op = next])
         /\ k \in DOMAIN op.steps
         /\ \/ CanBeginResource(op, k) /\ next = BeginResource(op, k, op.updatedAt)
            \/ /\ CanBeginResourceCompensation(op, k)
               /\ next = BeginResourceCompensation(op, k, op.updatedAt)
  BY DEF BeginStep
<1>3. self \in Process /\ op \in Operation /\ Ordered(op)
      /\ LoneOK(journal, target, snapshot, resources, self)
  BY <1>1, LoneCopy
<1>4. Progress(op, next) /\ next.phase = op.phase
  BY <1>2, <1>3, BeginResourceProgress, BeginCompensationStepProgress
<1>5. /\ next.steps[k] \in {"Applying", "Compensating"}
      /\ \A d \in DOMAIN op.steps : d # k => next.steps[d] = op.steps[d]
  <2>1. "Applying" \in StepStates /\ "Compensating" \in StepStates
    BY DEF StepStates
  <2>2. CASE next = BeginResource(op, k, op.updatedAt)
    BY <1>2, <1>3, <2>1, <2>2, SetStepFields DEF BeginResource
  <2>3. CASE next = BeginResourceCompensation(op, k, op.updatedAt)
    BY <1>2, <1>3, <2>1, <2>3, SetStepFields DEF BeginResourceCompensation
  <2> QED
    BY <1>2, <2>2, <2>3
<1>6. InProgress(op) = {}
  BY <1>2, <1>3, BeginsAlone
<1>7. self.called = FALSE
  BY <1>1, <1>3, <1>6 DEF LoneOK, Process
<1>8. [self EXCEPT !.op = next] = [self EXCEPT !.op = next, !.called = FALSE]
  BY <1>3, <1>7, Zenon DEF Process
<1>9. StoreTransition(p, next, [self EXCEPT !.op = next, !.called = FALSE])
  BY <1>2, <1>8
<1>10. k \in DOMAIN op.steps
  BY <1>2
<1>11. MovesStep(op, next, k, i, resources[i], snapshot)
  BY <1>4, <1>5, <1>10 DEF MovesStep
<1> DEFINE after == [self EXCEPT !.op = next, !.called = FALSE]
<1>12. /\ after = [proc[p] EXCEPT !.op = next, !.called = FALSE]
       /\ op = proc[p].op /\ id = proc[p].id /\ i = target[id]
       /\ StoreTransition(p, next, after)
  BY <1>9
<1> HIDE DEF self, op, id, i, after
<1> QED
  BY <1>1, <1>11, <1>12, LoneRunningStore, Zenon

\* A step is marked as done after its participant reported success.
LEMMA LoneCompleteStep ==
    ASSUME RecoveryInv, NEW p \in Processes, CompleteStep(p)
    PROVE  LoneStep(p)
<1> DEFINE self == proc[p]
           op == self.op
           id == self.id
           i == target[id]
           Next1(k) == IF op.phase = "Applying" THEN CompleteResource(op, k, op.updatedAt)
                       ELSE CompleteResourceCompensation(op, k, op.updatedAt)
<1>1. Running(p) /\ UNCHANGED <<target, snapshot, resources>> /\ self.pc = "running" /\ self.called
  BY DEF CompleteStep, Running
<1>2. PICK k \in InProgress(op) :
         StoreTransition(p, Next1(k), [self EXCEPT !.op = Next1(k), !.called = FALSE])
  BY Zenon DEF CompleteStep
<1>3. self \in Process /\ op \in Operation /\ Ordered(op)
      /\ LoneOK(journal, target, snapshot, resources, self)
  BY <1>1, LoneCopy
<1>4. /\ k \in DOMAIN op.steps
      /\ \/ op.phase = "Applying" /\ op.steps[k] = "Applying"
         \/ op.phase = "Compensating" /\ op.steps[k] = "Compensating"
      /\ \A d \in InProgress(op) : d = k
  BY <1>3, StepInProgress
<1>5. Achieved(op, k, i, resources[i], snapshot)
  BY <1>1, <1>3, <1>4 DEF LoneOK
<1> DEFINE next == Next1(k)
<1>6. /\ next.steps[k] = IF op.phase = "Applying" THEN "Applied" ELSE "Compensated"
      /\ \A d \in DOMAIN op.steps : d # k => next.steps[d] = op.steps[d]
  <2>1. "Applied" \in StepStates /\ "Compensated" \in StepStates
    BY DEF StepStates
  <2>0. op \in Operation /\ k \in DOMAIN op.steps
    BY <1>3, <1>4
  <2>2. CASE op.phase = "Applying"
    <3>1. next = SetStep(op, k, "Applied", op.updatedAt)
      BY <2>2 DEF CompleteResource
    <3> HIDE DEF next, op, self
    <3>2. \A d \in DOMAIN op.steps : next.steps[d] = IF d = k THEN "Applied" ELSE op.steps[d]
      BY <2>0, <2>1, <3>1, SetStepFields, SMTT(60)
    <3> QED
      BY <1>4, <2>2, <3>2
  <2>3. CASE op.phase # "Applying"
    <3>1. next = SetStep(op, k, "Compensated", op.updatedAt)
      BY <2>3 DEF CompleteResourceCompensation
    <3> HIDE DEF next, op, self
    <3>2. \A d \in DOMAIN op.steps : next.steps[d] = IF d = k THEN "Compensated" ELSE op.steps[d]
      BY <2>0, <2>1, <3>1, SetStepFields, SMTT(60)
    <3> QED
      BY <1>4, <2>3, <3>2
  <2> QED
    BY <2>2, <2>3, Zenon
<1>7. Progress(op, next) /\ next.phase = op.phase
  BY <1>2, <1>3, <1>4, CompleteResourceProgress, CompleteCompensationStepProgress
<1>8. StoreTransition(p, next, [self EXCEPT !.op = next, !.called = FALSE])
  BY <1>2
<1> HIDE DEF next
<1>9. MovesStep(op, next, k, i, resources[i], snapshot)
  BY <1>4, <1>5, <1>6, <1>7 DEF MovesStep
<1> DEFINE after == [self EXCEPT !.op = next, !.called = FALSE]
<1>10. /\ after = [proc[p] EXCEPT !.op = next, !.called = FALSE]
       /\ op = proc[p].op /\ id = proc[p].id /\ i = target[id]
       /\ StoreTransition(p, next, after)
  BY <1>8
<1> HIDE DEF self, op, id, i, after
<1> QED
  BY <1>1, <1>9, <1>10, LoneRunningStore, Zenon

\* The operation is committed, or its compensation finished.
LEMMA LoneFinish ==
    ASSUME RecoveryInv, NEW p \in Processes, Finish(p)
    PROVE  LoneStep(p)
<1> DEFINE self == proc[p]
           op == self.op
           id == self.id
           i == target[id]
           next == IF op.phase = "Applying" THEN Commit(op, op.updatedAt)
                   ELSE FinishCompensation(op, op.updatedAt)
           pc == IF self.todo = <<>> THEN "ok" ELSE "recovering"
           done == [Idle EXCEPT !.live = self.staged, !.todo = self.todo, !.pc = pc]
<1>1. /\ Running(p) /\ UNCHANGED <<target, snapshot, resources>> /\ self.pc = "running"
      /\ CanCommit(op) \/ CanFinishCompensation(op)
      /\ StoreTransition(p, next, done)
  BY DEF Finish, Running
<1>2. /\ self \in Process /\ op \in Operation /\ Ordered(op) /\ op = journal[id]
      /\ id \in In(journal) /\ HistoryOK(journal, target)
      /\ LoneOK(journal, target, snapshot, resources, self)
  BY <1>1, LoneCopy
<1>3. /\ Progress(op, next) /\ next.steps = op.steps
      /\ next.kind = "Uninstall" => next.phase \in {"Applying", "Committed"}
  <2>1. CASE CanCommit(op)
    BY <1>2, <2>1, CommitProgress, Zenon DEF CanCommit
  <2>2. CASE CanFinishCompensation(op)
    <3>1. Progress(op, next) /\ next.steps = op.steps /\ op.phase = "Compensating"
      BY <1>2, <2>2, FinishCompensationProgress DEF CanFinishCompensation
    <3>2. op.kind # "Uninstall" /\ next.kind = op.kind
      BY <1>2, <3>1, Zenon DEF HistoryOK, Progress
    <3> QED
      BY <3>1, <3>2
  <2> QED
    BY <1>1, <2>1, <2>2
<1>4. done.pc = "ok"
  <2>1. self.todo = <<>>
    BY <1>1, <1>2 DEF LoneOK
  <2> QED
    BY <2>1, IdleIsProcess DEF Process
<1> HIDE DEF done, next
<1>5. ASSUME NEW j2, j2[id] = next
      PROVE  LoneOK(j2, target, snapshot, resources, done)
  BY <1>4, LoneResting
<1>6. self.pc \in {"running", "found"}
  BY <1>1
<1>7. \A k \in DOMAIN next.steps :
         /\ next.kind = "Install" /\ next.steps[k] \in {"Pending", "Compensated"} =>
               \/ op.steps[k] \in {"Pending", "Compensated"}
               \/ Gone(next.plan[k], i, resources[i], snapshot)
         /\ next.kind = "Install" /\ next.steps[k] = "Applied" =>
               \/ op.steps[k] = "Applied"
               \/ Made(next.plan[k], i, resources[i], snapshot)
         /\ next.kind = "Uninstall" /\ next.steps[k] = "Applied" =>
               \/ op.steps[k] = "Applied"
               \/ Gone(next.plan[k], i, resources[i], snapshot)
  BY <1>3
<1>8. Progress(op, next) /\ (next.kind = "Uninstall" => next.phase \in {"Applying", "Committed"})
  BY <1>3
<1>9. StoreTransition(p, next, done) /\ UNCHANGED <<target, snapshot, resources>>
  BY <1>1
<1> QED
  BY <1>5, <1>6, <1>7, <1>8, <1>9, LoneStore, ZenonT(60)

(***************************************************************************)
(* What holds around a participant call: wherever it stops, the resources  *)
(* are as the journal says.                                                *)
(***************************************************************************)
LEMMA LoneCall ==
    ASSUME RecoveryInv, NEW p \in Processes, Running(p), NEW k \in InProgress(proc[p].op),
           proc[p].op.plan[k] # "PlatformSnapshot",
           NEW i, i = target[proc[p].id], NEW c, c = Participant(proc[p].op, k, i)
    PROVE  /\ c.ok => Achieved(proc[p].op, k, i, c.end, snapshot)
           /\ \A x \in Leaves(c) :
                 ResourcesOK(journal, target, snapshot, [resources EXCEPT ![i] = x])
<1> DEFINE op == proc[p].op
           id == proc[p].id
<1>1. /\ id \in In(journal) /\ op = journal[id]
      /\ JournalOK(journal, target) /\ HistoryOK(journal, target)
      /\ ResourcesOK(journal, target, snapshot, resources)
  <2>1. proc[p].pc \in {"running", "found"}
    BY DEF Running
  <2> QED
    BY <2>1, LoneCopy, ZenonT(60)
<1>2. c = IF op.kind = "Install" /\ op.phase = "Applying"
          THEN ApplyResource(op.plan[k], resources[i], App(i), op.startedAt)
          ELSE RemoveResource(op.plan[k], resources[i], op.startedAt)
  BY DEF Participant
<1>3. k \in InProgress(op) /\ op.plan[k] # "PlatformSnapshot" /\ i = target[id]
  OBVIOUS
<1>4. /\ c.ok => Achieved(op, k, i, c.end, snapshot)
      /\ \A x \in Leaves(c) :
            ResourcesOK(journal, target, snapshot, [resources EXCEPT ![i] = x])
  <2> HIDE DEF op, id
  <2> QED
    BY <1>1, <1>2, <1>3, ParticipantEffect, ZenonT(180)
<1> QED
  BY <1>4

\* A participant is called, and may fail or be cut short anywhere.
LEMMA LoneCallParticipant ==
    ASSUME RecoveryInv, NEW p \in Processes, CallParticipant(p)
    PROVE  LoneStep(p)
<1> DEFINE self == proc[p]
           op == self.op
           id == self.id
           i == target[id]
<1>1. Running(p) /\ self.pc = "running" /\ UNCHANGED <<journal, target, snapshot>>
  BY DEF CallParticipant, Running
<1>2. PICK k \in InProgress(op) :
         /\ op.plan[k] # "PlatformSnapshot"
         /\ \/ /\ resources' = [resources EXCEPT ![i] = Participant(op, k, i).end]
               /\ IF Participant(op, k, i).ok THEN proc' = [proc EXCEPT ![p].called = TRUE]
                  ELSE Return(p, "error")
            \/ /\ \E r \in Participant(op, k, i).through :
                     resources' = [resources EXCEPT ![i] = r]
               /\ Return(p, "error")
  BY Zenon DEF CallParticipant
<1> DEFINE c == Participant(op, k, i)
<1>3. /\ c.ok => Achieved(op, k, i, c.end, snapshot)
      /\ \A x \in Leaves(c) :
            ResourcesOK(journal, target, snapshot, [resources EXCEPT ![i] = x])
  BY <1>1, <1>2, LoneCall
<1>4. /\ HistoryOK(journal, target) /\ LoneOK(journal, target, snapshot, resources, self)
      /\ self \in Process /\ i \in Installations
      /\ ResourcesOK(journal, target, snapshot, resources)
  BY <1>1, LoneCopy
<1>5. \E x \in Leaves(c) : resources' = [resources EXCEPT ![i] = x]
  BY <1>2 DEF Leaves
<1>6. HistoryOK(journal', target') /\ ResourcesOK(journal', target', snapshot', resources')
  BY <1>1, <1>3, <1>4, <1>5, Zenon
<1>7. CASE Return(p, "error")
  BY <1>6, <1>7, LoneReturn
<1>8. CASE /\ resources' = [resources EXCEPT ![i] = c.end] /\ c.ok
           /\ proc' = [proc EXCEPT ![p].called = TRUE]
  <2> DEFINE q == [self EXCEPT !.called = TRUE]
  <2>1. /\ q.pc = "running" /\ q.id = id /\ q.op = op /\ q.todo = self.todo
        /\ q.staged = self.staged
    BY <1>1, <1>4 DEF Process
  <2>2. resources'[i] = c.end
    BY <1>4, <1>8 DEF ResourcesOK
  <2>3. Achieved(op, k, i, resources'[i], snapshot)
    BY <1>3, <1>8, <2>2
  <2>4. proc' = [proc EXCEPT ![p] = q]
    BY <1>8
  <2>5. LoneOK(journal, target, snapshot, resources', q)
    <3>1. /\ op = journal[id] /\ ~ IsTerminal(op) /\ self.todo = <<>>
          /\ StagesOnly(op, i, self.staged, snapshot)
      BY <1>1, <1>4, Zenon DEF LoneOK
    <3> HIDE DEF q, self, op, id, i, c
    <3>2. /\ q.op = journal[q.id] /\ ~ IsTerminal(q.op) /\ q.todo = <<>>
          /\ StagesOnly(q.op, target[q.id], q.staged, snapshot)
      BY <2>1, <3>1 DEF i
    <3>3. \E d \in InProgress(q.op) :
             Achieved(q.op, d, target[q.id], resources'[target[q.id]], snapshot)
      BY <1>2, <2>1, <2>3 DEF i
    <3> QED
      BY <2>1, <3>2, <3>3 DEF LoneOK
  <2> QED
    BY <1>1, <1>6, <2>4, <2>5, Zenon DEF LoneStep
<1> QED
  BY <1>2, <1>7, <1>8

\* The staged snapshot is stored, or its store is refused.
LEMMA LoneStoreSnapshot ==
    ASSUME RecoveryInv, NEW p \in Processes, StoreSnapshot(p)
    PROVE  LoneStep(p)
<1> DEFINE self == proc[p]
           op == self.op
           id == self.id
           i == target[id]
<1>1. Running(p) /\ self.pc = "running" /\ UNCHANGED <<journal, target, resources>>
  BY DEF StoreSnapshot, Running
<1>2. /\ id \in In(journal) /\ op = journal[id] /\ ~ IsTerminal(op) /\ self \in Process
      /\ JournalOK(journal, target) /\ HistoryOK(journal, target)
      /\ ResourcesOK(journal, target, snapshot, resources)
      /\ LoneOK(journal, target, snapshot, resources, self)
  BY <1>1, LoneCopy
<1>3. PICK k \in InProgress(op) : op.plan[k] = "PlatformSnapshot"
  BY DEF StoreSnapshot
<1>4. StagesOnly(op, i, self.staged, snapshot) /\ self.todo = <<>>
  BY <1>1, <1>2 DEF LoneOK
<1>5. CASE snapshot' = self.staged /\ proc' = [proc EXCEPT ![p].called = TRUE]
  <2> DEFINE q == [self EXCEPT !.called = TRUE]
  <2>1. /\ q.pc = "running" /\ q.id = id /\ q.op = op /\ q.todo = <<>>
        /\ q.staged = self.staged
    BY <1>1, <1>2, <1>4 DEF Process
  <2>2. proc' = [proc EXCEPT ![p] = q]
    BY <1>5
  <2>3. i = target[id]
    OBVIOUS
  <2> HIDE DEF q, self, op, id, i
  <2>4. Achieved(op, k, i, resources[i], snapshot') /\ ResourcesOK(journal, target, snapshot', resources)
    BY <1>2, <1>3, <1>4, <1>5, <2>3, SnapshotEffect
  <2>5. StagesOnly(op, i, q.staged, snapshot')
    BY <1>4, <1>5, <2>1 DEF StagesOnly
  <2>6. /\ q.op = journal[q.id] /\ ~ IsTerminal(q.op) /\ q.todo = <<>>
        /\ StagesOnly(q.op, target[q.id], q.staged, snapshot')
    BY <1>2, <2>1, <2>3, <2>5
  <2>7. \E d \in InProgress(q.op) :
           Achieved(q.op, d, target[q.id], resources[target[q.id]], snapshot')
    BY <1>3, <2>1, <2>3, <2>4
  <2>8. LoneOK(journal, target, snapshot', resources, q)
    BY <2>1, <2>6, <2>7 DEF LoneOK
  <2> QED
    BY <1>1, <1>2, <2>2, <2>4, <2>8, Zenon DEF LoneStep
<1>6. CASE Return(p, "error") /\ UNCHANGED snapshot
  BY <1>1, <1>2, <1>6, LoneReturn
<1> QED
  BY <1>5, <1>6 DEF StoreSnapshot

\* A process that is killed leaves what its participant call had reached.
LEMMA LoneCrash ==
    ASSUME RecoveryInv, NEW p \in Processes, Crash(p)
    PROVE  LoneStep(p)
<1>1. /\ UNCHANGED <<journal, target, snapshot>> /\ resources' \in CutShort(p)
      /\ proc' = [proc EXCEPT ![p] = Idle]
  BY DEF Crash
<1>2. /\ HistoryOK(journal, target) /\ ResourcesOK(journal, target, snapshot, resources)
  BY DEF RecoveryInv
<1>3. ResourcesOK(journal, target, snapshot, resources')
  <2>1. CASE resources' = resources
    BY <1>2, <2>1
  <2>2. CASE \E k \in InProgress(proc[p].op) :
                /\ Running(p) /\ proc[p].op.plan[k] # "PlatformSnapshot"
                /\ \E r \in Participant(proc[p].op, k, target[proc[p].id]).through :
                      resources' = [resources EXCEPT ![target[proc[p].id]] = r]
    <3>1. PICK k \in InProgress(proc[p].op) :
                /\ Running(p) /\ proc[p].op.plan[k] # "PlatformSnapshot"
                /\ \E r \in Participant(proc[p].op, k, target[proc[p].id]).through :
                      resources' = [resources EXCEPT ![target[proc[p].id]] = r]
      BY <2>2, Zenon
    <3> DEFINE i == target[proc[p].id]
               c == Participant(proc[p].op, k, i)
    <3>2. \A x \in Leaves(c) :
             ResourcesOK(journal, target, snapshot, [resources EXCEPT ![i] = x])
      BY <3>1, LoneCall, Zenon
    <3>3. \E x \in Leaves(c) : resources' = [resources EXCEPT ![i] = x]
      BY <3>1, Zenon DEF Leaves
    <3> QED
      BY <3>2, <3>3, Zenon
  <2> QED
    BY <1>1, <2>1, <2>2, SMTT(120) DEF CutShort
<1>4. LoneOK(journal', target', snapshot', resources', Idle)
  BY LoneResting DEF Idle
<1> QED
  BY <1>1, <1>2, <1>3, <1>4, Zenon DEF LoneStep

\* A finished call makes room for the next.
LEMMA LoneClose ==
    ASSUME RecoveryInv, NEW p \in Processes, Close(p)
    PROVE  LoneStep(p)
<1>1. LoneOK(journal, target, snapshot, resources, Idle)
  BY LoneResting DEF Idle
<1> QED
  BY <1>1, LoneProcStep, Zenon DEF Close

\* A staged image is neither made nor unmade by an operation.
LEMMA StageImageKeeps ==
    ASSUME RecoveryInv, NEW i \in Installations, StageImage(i)
    PROVE  /\ HistoryOK(journal', target')
           /\ ResourcesOK(journal', target', snapshot', resources')
           /\ \A p \in Processes : LoneOK(journal', target', snapshot', resources', proc'[p])
<1>1. /\ UNCHANGED <<journal, target, snapshot, proc>>
      /\ resources' = [resources EXCEPT ![i].image = TRUE]
  BY DEF StageImage
<1>2. /\ resources \in [Installations -> ResourceRecord] /\ HistoryOK(journal, target)
      /\ ResourcesOK(journal, target, snapshot, resources)
  BY DEF RecoveryInv, ResourcesOK
<1>3. ASSUME NEW d \in Installations
      PROVE  /\ resources'[d] \in ResourceRecord
             /\ resources'[d].databases = resources[d].databases
             /\ resources'[d].runtime = resources[d].runtime
             /\ resources'[d].delivered = resources[d].delivered
             /\ resources'[d].client = resources[d].client
             /\ resources'[d].secret = resources[d].secret
  <2>1. resources[d] \in ResourceRecord
    BY <1>2
  <2>2. resources'[d] = resources[d] \/ resources'[d] = [resources[d] EXCEPT !.image = TRUE]
    BY <1>1, <1>2, Zenon
  <2> QED
    BY <2>1, <2>2, Zenon DEF ResourceRecord
<1>4. resources' \in [Installations -> ResourceRecord]
  <2>1. DOMAIN resources' = Installations /\ resources' = [d \in DOMAIN resources' |-> resources'[d]]
    BY <1>1, <1>2, Zenon
  <2> QED
    BY <1>3, <2>1
<1>5. \A d \in Installations : \A res :
         /\ Gone(res, d, resources'[d], snapshot) <=> Gone(res, d, resources[d], snapshot)
         /\ Made(res, d, resources'[d], snapshot) <=> Made(res, d, resources[d], snapshot)
         /\ HasSecret(d, resources'[d]) <=> HasSecret(d, resources[d])
  <2> SUFFICES ASSUME NEW d \in Installations, NEW res
               PROVE  /\ Gone(res, d, resources'[d], snapshot) <=> Gone(res, d, resources[d], snapshot)
                      /\ Made(res, d, resources'[d], snapshot) <=> Made(res, d, resources[d], snapshot)
                      /\ HasSecret(d, resources'[d]) <=> HasSecret(d, resources[d])
    BY Zenon
  <2>1. /\ resources'[d].databases = resources[d].databases
        /\ resources'[d].runtime = resources[d].runtime
        /\ resources'[d].delivered = resources[d].delivered
        /\ resources'[d].client = resources[d].client
        /\ resources'[d].secret = resources[d].secret
    BY <1>3, Zenon
  <2>2. Gone(res, d, resources'[d], snapshot) <=> Gone(res, d, resources[d], snapshot)
    BY <2>1 DEF Gone
  <2>3. Made(res, d, resources'[d], snapshot) <=> Made(res, d, resources[d], snapshot)
    BY <2>1 DEF Made
  <2>4. HasSecret(d, resources'[d]) <=> HasSecret(d, resources[d])
    BY <2>1 DEF HasSecret
  <2> QED
    BY <2>2, <2>3, <2>4
<1>6. ResourcesOK(journal, target, snapshot, resources')
  BY <1>2, <1>4, <1>5 DEF ResourcesOK
<1>7. ASSUME NEW p \in Processes
      PROVE  LoneOK(journal, target, snapshot, resources', proc[p])
  <2> DEFINE q == proc[p]
  <2>1. LoneOK(journal, target, snapshot, resources, q)
    BY DEF RecoveryInv
  <2>2. ASSUME q.pc = "running", q.called
        PROVE  \E k \in InProgress(q.op) :
                  Achieved(q.op, k, target[q.id], resources'[target[q.id]], snapshot)
    <3>1. PICK k \in InProgress(q.op) :
                  Achieved(q.op, k, target[q.id], resources[target[q.id]], snapshot)
      BY <2>1, <2>2 DEF LoneOK
    <3>2. target[q.id] \in Installations
      BY <2>2, LoneCopy
    <3>3. Achieved(q.op, k, target[q.id], resources'[target[q.id]], snapshot)
      BY <1>5, <3>1, <3>2 DEF Achieved
    <3> QED
      BY <3>3
  <2> HIDE DEF q
  <2>3. LoneOK(journal, target, snapshot, resources', q)
    BY <2>1, <2>2 DEF LoneOK
  <2> QED
    BY <2>3 DEF q
<1> QED
  BY <1>1, <1>2, <1>6, <1>7, Zenon

-----------------------------------------------------------------------------
(***************************************************************************)
(* The host of MayStart with one runner: it recovers before it starts new  *)
(* work, and it makes its calls one after the other.                       *)
(***************************************************************************)
OneAtATime == StartupRecovery /\ \A p, q \in Processes : p = q

\* The model and the proofs name the same set of journal entries.
LEMMA StoredIsIn == Stored = In(journal)
  BY DEF Stored, In

\* The calls the host makes: recovery first, then installs, uninstalls and compensations.
LEMMA LoneRequest ==
    ASSUME OneAtATime, RecoveryInv, NEW p \in Processes, Request(p)
    PROVE  LoneStep(p)
<1>1. CASE \E id \in OperationIds : FindInstall(p, id, snapshot)
  BY <1>1, LoneFindInstall
<1>2. ASSUME MayStart PROVE \A a \in In(journal) : IsTerminal(journal[a])
  BY <1>2, StoredIsIn DEF MayStart, OneAtATime, Incomplete
<1>3. CASE MayStart /\ \E i \in Installations : Install(p, i, snapshot)
  BY <1>2, <1>3, LoneInstall
<1>4. CASE MayStart /\ \E i \in Installations : Uninstall(p, i, snapshot)
  BY <1>2, <1>4, LoneUninstall
<1> QED
  BY <1>1, <1>3, <1>4 DEF Request

\* Every step of a running call keeps resources and journal in agreement.
LEMMA LoneRunnerStep ==
    ASSUME RecoveryInv, NEW p \in Processes, RunnerStep(p)
    PROVE  LoneStep(p)
  BY LoneCompensateInstall, LoneLoadIncomplete, LoneResumeNext, LoneBeginStep,
     LoneCallParticipant, LoneStoreSnapshot, LoneCompleteStep, LoneFinish DEF RunnerStep


\* Before anything was installed, there is nothing to agree on.
LEMMA InitRecoveryInv == Init => RecoveryInv
<1> SUFFICES ASSUME Init PROVE RecoveryInv
  OBVIOUS
<1>1. In(journal) = {}
  BY DEF Init, In
<1>2. HistoryOK(journal, target)
  BY <1>1 DEF HistoryOK
<1>3. NoResources \in ResourceRecord
  BY DEF NoResources, NoClient, ResourceRecord
<1>4. /\ resources \in [Installations -> ResourceRecord]
      /\ \A i \in Installations : resources[i] = NoResources
      /\ snapshot.apps = {}
  BY <1>3 DEF Init, NoState
<1>5. \A i, res : ~ MadeBy(journal, target, i, res)
  BY <1>1 DEF MadeBy, Those
<1>6. \A i, res : HasSecret(i, NoResources) /\ Gone(res, i, NoResources, snapshot)
  BY <1>4 DEF HasSecret, Gone, NoResources, NoClient
<1>7. ResourcesOK(journal, target, snapshot, resources)
  BY <1>4, <1>5, <1>6 DEF ResourcesOK
<1>8. \A p \in Processes : proc[p] = Idle /\ Idle.pc = "idle"
  BY DEF Init, Idle
<1>9. \A p \in Processes : LoneOK(journal, target, snapshot, resources, proc[p])
  BY <1>8, LoneResting
<1> QED
  BY <1>2, <1>7, <1>9, InitRunnerInv DEF RecoveryInv

\* Every step of the host keeps resources, journal and snapshot in agreement.
LEMMA NextKeepsRecoveryInv ==
    ASSUME OneAtATime, RecoveryInv, [Next]_vars
    PROVE  RecoveryInv'
<1>1. RunnerInv'
  BY NextKeepsRunnerInv DEF RecoveryInv
<1>2. ASSUME NEW p \in Processes, LoneStep(p)
      PROVE  RecoveryInv'
  <2>1. PICK q : /\ LoneOK(journal', target', snapshot', resources', q)
                 /\ proc' = [proc EXCEPT ![p] = q]
    BY <1>2, Zenon DEF LoneStep
  <2>2. \A x \in Processes : x = p
    BY DEF OneAtATime
  <2>3. proc'[p] = q
    BY <2>1 DEF RecoveryInv, RunnerInv
  <2>4. \A x \in Processes : LoneOK(journal', target', snapshot', resources', proc'[x])
    BY <2>1, <2>2, <2>3
  <2>5. HistoryOK(journal', target') /\ ResourcesOK(journal', target', snapshot', resources')
    BY <1>2 DEF LoneStep
  <2> QED
    BY <1>1, <2>4, <2>5 DEF RecoveryInv
<1>3. ASSUME NEW p \in Processes, Recover(p) PROVE LoneStep(p)
  BY <1>3, LoneListIncomplete DEF Recover
<1>4. ASSUME NEW i \in Installations, StageImage(i) PROVE RecoveryInv'
  BY <1>1, <1>4, StageImageKeeps DEF RecoveryInv
<1>5. CASE UNCHANGED vars
  BY <1>1, <1>5 DEF vars, durable, RecoveryInv
<1> QED
  BY <1>2, <1>3, <1>4, <1>5, LoneRequest, LoneRunnerStep, LoneCrash, LoneClose DEF Next

(***************************************************************************)
(* Journal, resources and snapshot of a host that recovers at startup and  *)
(* works on one call at a time agree, whatever crashes and failures it     *)
(* goes through.                                                           *)
(***************************************************************************)
THEOREM RecoveryInvariant == ASSUME OneAtATime PROVE Spec => []RecoveryInv
<1>1. RecoveryInv /\ [Next]_vars => RecoveryInv'
  BY NextKeepsRecoveryInv
<1> QED
  BY InitRecoveryInv, <1>1, PTL DEF Spec

(***************************************************************************)
(* activate and remove_oidc_material: a container with OIDC credentials    *)
(* never runs without its secret.                                          *)
(***************************************************************************)
THEOREM SecretComesFirst == ASSUME OneAtATime PROVE Spec => []SecretBeforeActivation
<1>1. RecoveryInv => SecretBeforeActivation
  BY DEF RecoveryInv, ResourcesOK, HasSecret, SecretBeforeActivation
<1> QED
  BY <1>1, RecoveryInvariant, PTL

\* A planned resource is done when its step is applied; one that is not planned is undone.
LEMMA PlannedIsDone ==
    ASSUME NEW j, NEW t, JournalOK(j, t), NEW id \in In(j), NEW op, op = j[id],
           NEW i, i = t[id], NEW kind, kind = op.kind, NEW res \in Planned(App(i), kind),
           \A k \in 1 .. Len(op.plan) : op.plan[k] = res => op.steps[k] = "Applied"
    PROVE  Done(op, res)
<1>1. /\ op \in Operation
      /\ Lists(op.plan, Planned(App(t[id]), op.kind), Rank(op.kind))
  BY PlanOrder
<1>2. PICK k \in 1 .. Len(op.plan) : op.plan[k] = res
  BY <1>1, Zenon DEF Lists
<1>3. DOMAIN op.steps = 1 .. Len(op.plan)
  BY <1>1, OperationFacts
<1> QED
  BY <1>2, <1>3 DEF Done

\* A resource the plan does not name was never touched by the operation.
LEMMA UnplannedIsUndone ==
    ASSUME NEW j, NEW t, JournalOK(j, t), NEW id \in In(j), NEW op, op = j[id],
           NEW i, i = t[id], NEW kind, kind = op.kind, NEW res, res \notin Planned(App(i), kind)
    PROVE  Undone(op, res)
<1>1. /\ op \in Operation
      /\ Lists(op.plan, Planned(App(t[id]), op.kind), Rank(op.kind))
  BY PlanOrder
<1>2. DOMAIN op.steps = 1 .. Len(op.plan)
  BY <1>1, OperationFacts
<1> QED
  BY <1>1, <1>2 DEF Lists, Undone

\* What the end of an operation says of every resource.
LEMMA CompensatedIsGone ==
    ASSUME RecoveryInv, NEW id \in In(journal), journal[id].phase = "Compensated",
           NEW i, i = target[id], NEW res
    PROVE  journal[id].kind = "Install" /\ GoneBy(journal, target, i, res)
<1>1. /\ JournalOK(journal, target) /\ HistoryOK(journal, target)
  BY DEF RecoveryInv, RunnerInv
<1>2. Ordered(journal[id]) /\ journal[id].kind \in RunnerKinds
  BY <1>1, PlanOrder
<1>3. journal[id].kind = "Install"
  BY <1>1, <1>2 DEF HistoryOK, RunnerKinds
<1>4. Undone(journal[id], res)
  BY <1>2 DEF Ordered, Undone
<1>5. id \in Those(journal, target, i, "Install")
  BY <1>3 DEF Those
<1> QED
  BY <1>3, <1>4, <1>5 DEF GoneBy

\* A committed uninstall has removed every resource.
LEMMA UninstalledIsGone ==
    ASSUME RecoveryInv, NEW id \in In(journal), journal[id].kind = "Uninstall",
           journal[id].phase = "Committed", NEW i, i = target[id], NEW res \in Resources
    PROVE  GoneBy(journal, target, i, res)
<1>1. /\ JournalOK(journal, target) /\ HistoryOK(journal, target)
  BY DEF RecoveryInv, RunnerInv
<1>2. Ordered(journal[id]) /\ journal[id] \in Operation
  BY <1>1, PlanOrder
<1>3. DOMAIN journal[id].steps = 1 .. Len(journal[id].plan)
  BY <1>2, OperationFacts
<1>4. \A k \in 1 .. Len(journal[id].plan) : journal[id].steps[k] = "Applied"
  BY <1>2, <1>3 DEF Ordered
<1>5. CASE res \in Planned(App(i), "Uninstall")
  <2>1. Done(journal[id], res)
    BY <1>1, <1>4, <1>5, PlannedIsDone
  <2>2. id \in Those(journal, target, i, "Uninstall")
    BY DEF Those
  <2> QED
    BY <2>1, <2>2 DEF GoneBy
<1>6. CASE res \notin Planned(App(i), "Uninstall")
  <2>1. res \notin Planned(App(i), "Install")
    BY <1>6 DEF Planned
  <2>2. PICK a \in Those(journal, target, i, "Install") : journal[a].phase = "Committed"
    BY <1>1 DEF HistoryOK
  <2>3. a \in In(journal) /\ target[a] = i /\ journal[a].kind = "Install"
    BY <2>2, ThoseAreIn
  <2>4. Undone(journal[a], res)
    BY <1>1, <2>1, <2>3, UnplannedIsUndone
  <2> QED
    BY <2>2, <2>4 DEF GoneBy
<1> QED
  BY <1>5, <1>6

(***************************************************************************)
(* apply_uninstall and compensate_install_operation run to their end only  *)
(* over removed resources, and apply_install commits only what it stored:  *)
(* crashes, repeated calls and later operations take nothing of it back.   *)
(***************************************************************************)
THEOREM EndsStand == ASSUME OneAtATime PROVE Spec => []EndedOperationsStand
<1>1. ASSUME RecoveryInv PROVE RemovedLeavesNothing
  <2> SUFFICES ASSUME NEW id \in In(journal),
                      \/ journal[id].phase = "Compensated"
                      \/ journal[id].kind = "Uninstall" /\ journal[id].phase = "Committed"
               PROVE  IsRemoved(resources[target[id]]) /\ target[id] \notin snapshot.apps
    BY StoredIsIn DEF RemovedLeavesNothing
  <2> DEFINE i == target[id]
  <2>1. JournalOK(journal, target) /\ ResourcesOK(journal, target, snapshot, resources)
    BY <1>1 DEF RecoveryInv, RunnerInv
  <2>2. i \in Installations
    BY <2>1, PlanOrder
  <2>3. \A res \in Resources : GoneBy(journal, target, i, res)
    BY <1>1, CompensatedIsGone, UninstalledIsGone, Zenon
  <2>4. \A res \in Resources : Gone(res, i, resources[i], snapshot)
    BY <2>1, <2>2, <2>3 DEF ResourcesOK
  <2> QED
    BY <2>4 DEF Resources, Gone, IsRemoved
<1>2. ASSUME RecoveryInv PROVE InstalledStaysAdvertised
  <2> SUFFICES ASSUME NEW id \in In(journal), journal[id].kind = "Install",
                      journal[id].phase = "Committed",
                      \A other \in OperationsOf(target[id]) : journal[other].kind # "Uninstall"
               PROVE  target[id] \in snapshot.apps
    BY StoredIsIn DEF InstalledStaysAdvertised
  <2> DEFINE i == target[id]
  <2>1. JournalOK(journal, target) /\ ResourcesOK(journal, target, snapshot, resources)
    BY <1>2 DEF RecoveryInv, RunnerInv
  <2>2. i \in Installations /\ journal[id] \in Operation /\ Ordered(journal[id])
    BY <2>1, PlanOrder
  <2>3. \A k \in 1 .. Len(journal[id].plan) : journal[id].steps[k] = "Applied"
    BY <2>2, OperationFacts DEF Ordered
  <2>4. "PlatformSnapshot" \in Planned(App(i), "Install")
    BY DEF Planned
  <2>5. Done(journal[id], "PlatformSnapshot")
    BY <2>1, <2>3, <2>4, PlannedIsDone
  <2>6. Those(journal, target, i, "Uninstall") = {}
    BY StoredIsIn DEF Those, OperationsOf
  <2>7. id \in Those(journal, target, i, "Install")
    BY DEF Those
  <2>8. MadeBy(journal, target, i, "PlatformSnapshot")
    BY <2>5, <2>6, <2>7 DEF MadeBy
  <2>9. Made("PlatformSnapshot", i, resources[i], snapshot)
    BY <2>1, <2>2, <2>8 DEF ResourcesOK, Resources
  <2> QED
    BY <2>9 DEF Made
<1>3. RecoveryInv => EndedOperationsStand
  BY <1>1, <1>2 DEF EndedOperationsStand
<1> QED
  BY <1>3, RecoveryInvariant, PTL

(***************************************************************************)
(* apply_install stores the snapshot last and the removals start from it:  *)
(* an advertised app has all its resources unless its removal is under way. *)
(***************************************************************************)
THEOREM AdvertisedHasResources == ASSUME OneAtATime PROVE Spec => []AdvertisedIsProvisioned
<1>1. ASSUME RecoveryInv, NEW i \in snapshot.apps, ~ BeingRemoved(i)
      PROVE  IsProvisioned(resources[i], App(i), ActivatesAtInstall(App(i)))
  <2>1. /\ JournalOK(journal, target) /\ ResourcesOK(journal, target, snapshot, resources)
        /\ HistoryOK(journal, target) /\ StateOK(journal, target, snapshot)
    BY <1>1 DEF RecoveryInv, RunnerInv
  <2>2. i \in Installations /\ AppliedIn(journal, target, i)
    BY <1>1, <2>1 DEF StateOK, State
  <2>3. \A id \in In(journal) : target[id] = i =>
           /\ ~ (journal[id].kind = "Uninstall" /\ journal[id].phase = "Applying")
           /\ journal[id].phase # "Compensating"
    BY <1>1, StoredIsIn DEF BeingRemoved, OperationsOf
  <2>4. ~ GoneBy(journal, target, i, "PlatformSnapshot")
    BY <1>1, <2>1, <2>2 DEF ResourcesOK, Resources, Gone
  <2>5. Those(journal, target, i, "Uninstall") = {}
    <3> SUFFICES ASSUME NEW u \in Those(journal, target, i, "Uninstall") PROVE FALSE
      OBVIOUS
    <3>1. u \in In(journal) /\ target[u] = i /\ journal[u].kind = "Uninstall"
      BY ThoseAreIn
    <3>2. journal[u].phase = "Committed"
      BY <2>1, <2>3, <3>1 DEF HistoryOK
    <3>3. "PlatformSnapshot" \in Resources
      BY DEF Resources
    <3> QED
      BY <1>1, <2>4, <3>1, <3>2, <3>3, UninstalledIsGone
  <2>6. PICK a \in In(journal) :
           /\ target[a] = i /\ journal[a].kind = "Install"
           /\ \A k \in DOMAIN journal[a].steps : journal[a].steps[k] # "Pending"
    BY <2>2 DEF AppliedIn
  <2> DEFINE op == journal[a]
  <2>7. op \in Operation /\ Ordered(op) /\ op.phase \in Phases
    BY <2>1, <2>6, PlanOrder, OperationFacts
  <2>8. op.phase \in {"Applying", "Committed"}
    BY <1>1, <2>3, <2>4, <2>6, <2>7, CompensatedIsGone DEF Phases
  <2>9. /\ Len(op.plan) \in Nat /\ op.plan[Len(op.plan)] = "PlatformSnapshot"
        /\ DOMAIN op.steps = 1 .. Len(op.plan)
    BY <2>7, OperationFacts
  <2>10. \A k \in 1 .. Len(op.plan) : op.plan[k] # "PlatformSnapshot" => op.steps[k] = "Applied"
    <3>1. CASE op.phase = "Committed"
      BY <2>7, <2>9, <3>1 DEF Ordered
    <3>2. CASE op.phase = "Applying"
      <4>1. \/ Len(op.plan) = 0
            \/ Len(op.plan) \in DOMAIN op.steps /\ op.steps[Len(op.plan)] # "Pending"
        BY <2>6, <2>9
      <4>2. \A j \in 1 .. Len(op.plan) - 1 : op.steps[j] = "Applied"
        BY <2>7, <2>9, <3>2, <4>1 DEF Ordered
      <4> HIDE DEF op
      <4> QED
        BY <2>9, <4>2
    <3> QED
      BY <2>8, <3>1, <3>2
  <2>11. a \in Those(journal, target, i, "Install")
    BY <2>6 DEF Those
  <2>12. ASSUME NEW res \in Planned(App(i), "Install"), res # "PlatformSnapshot"
         PROVE  Made(res, i, resources[i], snapshot)
    <3>1. \A k \in 1 .. Len(op.plan) : op.plan[k] = res => op.steps[k] = "Applied"
      BY <2>10, <2>12
    <3>2. Done(journal[a], res)
      BY <2>1, <2>6, <3>1, PlannedIsDone, ZenonT(60)
    <3>3. MadeBy(journal, target, i, res)
      BY <2>5, <2>11, <3>2 DEF MadeBy
    <3>4. res \in Resources
      BY DEF Planned, Resources
    <3> QED
      BY <2>1, <2>2, <3>3, <3>4, Zenon DEF ResourcesOK
  <2>13. /\ "RuntimeInstance" \in Planned(App(i), "Install")
         /\ App(i).databases => "AppDatabases" \in Planned(App(i), "Install")
         /\ App(i).oidc # "none" => "OidcClient" \in Planned(App(i), "Install")
         /\ ActivatesAtInstall(App(i)) => "RuntimeActivation" \in Planned(App(i), "Install")
    BY DEF Planned
  <2>14. /\ App(i).databases => resources[i].databases = "Active"
         /\ App(i).runtime = "Container" => resources[i].runtime # "Absent"
    BY <2>12, <2>13 DEF Made
  <2>15. App(i).runtime = "Container" /\ ActivatesAtInstall(App(i))
           => resources[i].runtime = "Active"
    BY <2>12, <2>13 DEF Made
  <2>16. /\ App(i).oidc # "none" => resources[i].client.status = "Active"
         /\ App(i).oidc = "confidential" => resources[i].secret /\ resources[i].delivered
    BY <2>12, <2>13 DEF Made
  <2> QED
    BY <2>14, <2>15, <2>16 DEF IsProvisioned
<1>2. RecoveryInv => AdvertisedIsProvisioned
  BY <1>1 DEF AdvertisedIsProvisioned
<1> QED
  BY <1>2, RecoveryInvariant, PTL

\* What a step does to the resources.
LEMMA ResourceSteps ==
    ASSUME [Next]_vars
    PROVE  \/ resources' = resources
           \/ \E i \in Installations : resources' = [resources EXCEPT ![i].image = TRUE]
           \/ \E p \in Processes : /\ Running(p) /\ InProgress(proc[p].op) # {}
                                   /\ \E x : resources' = [resources EXCEPT ![target[proc[p].id]] = x]
<1>1. ASSUME NEW p \in Processes, Request(p) \/ Recover(p) \/ Close(p)
      PROVE  resources' = resources
  BY <1>1, Zenon DEF Request, Install, Uninstall, FindInstall, Recover, ListIncomplete, Close, durable
<1>2. ASSUME NEW p \in Processes, RunnerStep(p), ~ CallParticipant(p)
      PROVE  resources' = resources
  BY <1>2, Zenon DEF RunnerStep, CompensateInstall, LoadIncomplete, ResumeNext, BeginStep,
              StoreSnapshot, CompleteStep, Finish, durable
<1>3. ASSUME NEW p \in Processes, CallParticipant(p)
      PROVE  /\ Running(p) /\ InProgress(proc[p].op) # {}
             /\ \E x : resources' = [resources EXCEPT ![target[proc[p].id]] = x]
  BY <1>3 DEF CallParticipant
<1>4. ASSUME NEW p \in Processes, Crash(p), resources' # resources
      PROVE  /\ Running(p) /\ InProgress(proc[p].op) # {}
             /\ \E x : resources' = [resources EXCEPT ![target[proc[p].id]] = x]
  BY <1>4 DEF Crash, CutShort
<1>5. ASSUME NEW i \in Installations, StageImage(i)
      PROVE  resources' = [resources EXCEPT ![i].image = TRUE]
  BY <1>5 DEF StageImage
<1>6. CASE UNCHANGED vars
  BY <1>6 DEF vars, durable
<1> QED
  BY <1>1, <1>2, <1>3, <1>4, <1>5, <1>6, Zenon DEF Next

(***************************************************************************)
(* begin_resource is stored before the participant is called: resources    *)
(* change only while the journal shows a step in progress for them.        *)
(***************************************************************************)
THEOREM EffectsRecorded == ASSUME OneAtATime PROVE Spec => EffectsAreRecorded
<1> DEFINE Same(i) ==
             [resources[i] EXCEPT !.image = TRUE] = [resources'[i] EXCEPT !.image = TRUE]
           Recorded(i) == \E id \in OperationsOf(i) : InProgress(journal[id]) # {}
<1>1. ASSUME RecoveryInv, [Next]_vars, NEW i \in Installations, ~ Same(i)
      PROVE  Recorded(i)
  <2>1. resources \in [Installations -> ResourceRecord]
    BY <1>1 DEF RecoveryInv, ResourcesOK
  <2>2. resources' # resources
    BY <1>1, Zenon
  <2>3. ASSUME NEW d \in Installations, resources' = [resources EXCEPT ![d].image = TRUE]
        PROVE  Same(i)
    <3>1. resources[i] \in ResourceRecord
      BY <2>1
    <3>2. resources'[i] = resources[i] \/ resources'[i] = [resources[i] EXCEPT !.image = TRUE]
      BY <2>1, <2>3, Zenon
    <3> QED
      BY <3>1, <3>2, Zenon DEF ResourceRecord
  <2>4. PICK p \in Processes :
           /\ Running(p) /\ InProgress(proc[p].op) # {}
           /\ \E x : resources' = [resources EXCEPT ![target[proc[p].id]] = x]
    BY <1>1, <2>2, <2>3, ResourceSteps, Zenon
  <2>5. /\ proc[p].id \in In(journal) /\ proc[p].op = journal[proc[p].id]
        /\ target[proc[p].id] \in Installations
    BY <1>1, <2>4, LoneCopy DEF Running
  <2>6. i = target[proc[p].id]
    BY <1>1, <2>1, <2>4, Zenon
  <2>7. proc[p].id \in OperationsOf(i)
    BY <2>5, <2>6, StoredIsIn DEF OperationsOf
  <2> QED
    BY <2>4, <2>5, <2>7
<1>2. RecoveryInv /\ [Next]_vars =>
        [\A i \in Installations :
            [resources[i] EXCEPT !.image = TRUE] # [resources'[i] EXCEPT !.image = TRUE]
                => \E id \in OperationsOf(i) : InProgress(journal[id]) # {}]_vars
  BY <1>1
<1> QED
  BY <1>2, RecoveryInvariant, PTL DEF Spec, EffectsAreRecorded
=============================================================================
