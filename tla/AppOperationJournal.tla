------------------------ MODULE AppOperationJournal ------------------------
(***************************************************************************)
(* The SQLite operation journal (persistence-sqlite, behind the core trait *)
(* AppOperationRepository) as concurrent processes use it.  Every request  *)
(* opens its own connection, so a process works on a copy of an operation  *)
(* it read earlier, while others move the stored one.                      *)
(*                                                                         *)
(* create and store_transition are IMMEDIATE transactions and are atomic.  *)
(* Reading an operation back is not: load_by_id selects the row and decode *)
(* then selects the steps, two statements outside a transaction, so        *)
(* another process may store a transition in between.                      *)
(***************************************************************************)
EXTENDS AppOperation

CONSTANTS OperationIds,  \* identifiers of operations
          Processes,     \* threads that serve requests
          Plans,         \* resource plans of the operations created
          Times,         \* values of the wall clock; it may step back
          NoOperation    \* stands for a missing operation

VARIABLES journal,  \* the stored operation of every identifier
          held,     \* the copy of an operation a process has in memory
          reading   \* the row a process has read without its steps

vars == <<journal, held, reading>>

Operation ==
    {op \in [kind : Kinds, plan : Plans, startedAt : Times, phase : Phases,
             steps : Seq(StepStates), revision : Nat, updatedAt : Times] :
        Len(op.steps) = Len(op.plan)}

ASSUME OperationIdsAssumption == OperationIds # {}

ASSUME PlansAssumption ==
    \A plan \in Plans : plan \in Seq(Resources) /\ ValidatePlan(plan)

ASSUME TimesAssumption == Times \subseteq Nat

ASSUME NoOperationAssumption == NoOperation \notin Operation

(***************************************************************************)
(* A process without a copy holds [id |-> ..., op |-> NoOperation].        *)
(***************************************************************************)
Copy == [id : OperationIds, op : Operation \cup {NoOperation}]

TypeOK ==
    /\ journal \in [OperationIds -> Operation \cup {NoOperation}]
    /\ held \in [Processes -> Copy]
    /\ reading \in [Processes -> Copy]

Nothing == [id |-> CHOOSE id \in OperationIds : TRUE, op |-> NoOperation]

Init ==
    /\ journal = [id \in OperationIds |-> NoOperation]
    /\ held = [p \in Processes |-> Nothing]
    /\ reading = [p \in Processes |-> Nothing]

Idle(p) == held[p].op = NoOperation /\ reading[p].op = NoOperation

(* Mutant: create replaces an operation that is already there. *)
CreateOrReplace(p, id) ==
    /\ Idle(p)
    /\ \E kind \in Kinds, plan \in Plans, at \in Times :
          LET op == NewOperation(kind, plan, at)
          IN  /\ journal' = [journal EXCEPT ![id] = op]
              /\ held' = [held EXCEPT ![p] = [id |-> id, op |-> op]]
    /\ UNCHANGED reading

(***************************************************************************)
(* create: a new operation enters with revision 0 under an identifier that *)
(* is not in use, and its creator keeps working on it.                     *)
(***************************************************************************)
Create(p, id) ==
    /\ Idle(p)
    /\ journal[id] = NoOperation
    /\ \E kind \in Kinds, plan \in Plans, at \in Times :
          LET op == NewOperation(kind, plan, at)
          IN  /\ journal' = [journal EXCEPT ![id] = op]
              /\ held' = [held EXCEPT ![p] = [id |-> id, op |-> op]]
    /\ UNCHANGED reading

(***************************************************************************)
(* load_by_id: the SELECT on app_operation.                                *)
(***************************************************************************)
LoadRow(p, id) ==
    /\ Idle(p)
    /\ journal[id] # NoOperation
    /\ reading' = [reading EXCEPT ![p] = [id |-> id, op |-> journal[id]]]
    /\ UNCHANGED <<journal, held>>

(***************************************************************************)
(* decode: the SELECT on app_operation_step, now, and the checks of        *)
(* restore_with_target.  An operation that fails them is an error of the   *)
(* request; nothing is held then.                                          *)
(***************************************************************************)
Decode(p) ==
    /\ reading[p].op # NoOperation
    /\ LET row == reading[p]
           op  == [row.op EXCEPT !.steps = journal[row.id].steps]
       IN  held' = [held EXCEPT ![p] = IF Restorable(op)
                                       THEN [id |-> row.id, op |-> op]
                                       ELSE Nothing]
    /\ reading' = [reading EXCEPT ![p] = Nothing]
    /\ UNCHANGED journal

(***************************************************************************)
(* transition_time of the runner.                                          *)
(***************************************************************************)
TransitionTime(op, now) == IF now < op.updatedAt THEN op.updatedAt ELSE now

(***************************************************************************)
(* The compare-and-swap of store_transition.                               *)
(***************************************************************************)
IsPreceding(stored, next) ==
    /\ stored # NoOperation
    /\ stored.kind = next.kind
    /\ stored.startedAt = next.startedAt
    /\ stored.revision + 1 = next.revision

(***************************************************************************)
(* A method of the operation followed by store_transition: the row and the *)
(* steps are replaced in one transaction, or the transition is stale and   *)
(* the request fails.                                                      *)
(***************************************************************************)
StoreTransition(p) ==
    /\ held[p].op # NoOperation
    /\ LET id == held[p].id IN
       \E now \in Times :
       \E next \in Successors(held[p].op, TransitionTime(held[p].op, now)) :
          IF IsPreceding(journal[id], next)
          THEN /\ journal' = [journal EXCEPT ![id] = next]
               /\ held' = [held EXCEPT ![p].op = next]
          ELSE /\ held' = [held EXCEPT ![p] = Nothing]
               /\ UNCHANGED journal
    /\ UNCHANGED reading

(***************************************************************************)
(* A request ends or its process is killed: the copy is lost.              *)
(***************************************************************************)
Drop(p) ==
    /\ ~ Idle(p)
    /\ held' = [held EXCEPT ![p] = Nothing]
    /\ reading' = [reading EXCEPT ![p] = Nothing]
    /\ UNCHANGED journal

Next ==
    \E p \in Processes :
        \/ \E id \in OperationIds : Create(p, id) \/ LoadRow(p, id)
        \/ Decode(p)
        \/ StoreTransition(p)
        \/ Drop(p)

Spec == Init /\ [][Next]_vars

-----------------------------------------------------------------------------
(***************************************************************************)
(* Every operation in the journal passes the checks of                     *)
(* restore_with_target, so list_incomplete, which fails as a whole when    *)
(* one row does not decode, can always read what the code itself wrote.    *)
(***************************************************************************)
StoredOperationsDecode ==
    \A id \in OperationIds :
        journal[id] # NoOperation => Restorable(journal[id])

(***************************************************************************)
(* A copy is as old as its revision says: one with the stored revision is  *)
(* the stored operation.  It is what makes the compare-and-swap of         *)
(* store_transition on the revision sufficient, torn reads included.       *)
(***************************************************************************)
IsCopy(copy) ==
    copy.op # NoOperation =>
        LET stored == journal[copy.id] IN
        /\ stored # NoOperation
        /\ copy.op.plan = stored.plan
        /\ copy.op.revision <= stored.revision
        /\ copy.op.revision = stored.revision => copy.op = stored

CopyIsStoredOrStale ==
    \A p \in Processes : IsCopy(held[p]) /\ IsCopy(reading[p])

(***************************************************************************)
(* The plan order protects the final resource: the platform snapshot is    *)
(* touched only when every provider step before it is applied or, during   *)
(* compensation, still to be undone.                                       *)
(***************************************************************************)
SnapshotAfterProviders ==
    \A id \in OperationIds : journal[id] # NoOperation =>
        LET op   == journal[id]
            last == Len(op.plan)
        IN  /\ op.phase = "Applying" /\ op.steps[last] # "Pending" =>
                 \A i \in 1 .. last - 1 : op.steps[i] = "Applied"
            /\ op.phase = "Compensating"
                 /\ op.steps[last] \in {"CompensationPending", "Compensating"} =>
                 \A i \in 1 .. last - 1 : op.steps[i] = "CompensationPending"

(***************************************************************************)
(* A committed or compensated operation never changes again: a process     *)
(* with an old copy cannot reopen it.                                      *)
(***************************************************************************)
TerminalIsFinal ==
    [][\A id \in OperationIds :
          journal[id] # NoOperation /\ IsTerminal(journal[id])
              => journal'[id] = journal[id]]_journal

(***************************************************************************)
(* The journal implements AtomicOperations: "a stale process therefore     *)
(* cannot overwrite recovery progress made by another process".            *)
(***************************************************************************)
Atomic == INSTANCE AtomicOperations WITH ops <- journal

TransitionsAreAtomic == Atomic!Spec
=============================================================================
