-------------------------- MODULE AtomicOperations --------------------------
(***************************************************************************)
(* What the operation journal promises: every operation is created once    *)
(* and then changes only by one domain transition at a time, each applied  *)
(* to the value the previous one left, whoever performs it.  Nothing is    *)
(* lost, skipped or repeated.                                              *)
(***************************************************************************)
EXTENDS AppOperation

CONSTANTS OperationIds,  \* identifiers of operations
          Plans,         \* resource plans of the operations created
          Times,         \* values of the wall clock
          NoOperation    \* an identifier that is not in the journal

VARIABLE ops

Init == ops = [id \in OperationIds |-> NoOperation]

Create(id) ==
    /\ ops[id] = NoOperation
    /\ \E kind \in Kinds, plan \in Plans, at \in Times :
          ops' = [ops EXCEPT ![id] = NewOperation(kind, plan, at)]

Transition(id) ==
    /\ ops[id] # NoOperation
    /\ \E at \in Times : \E next \in Successors(ops[id], at) :
          ops' = [ops EXCEPT ![id] = next]

Next == \E id \in OperationIds : Create(id) \/ Transition(id)

Spec == Init /\ [][Next]_ops
=============================================================================
