CONSTANTS
    OperationIds = {o1}
    Processes = {p1, p2}
    Times = {0, 1}
    NoOperation = NoOperation
    Plans <- MCPlans
SPECIFICATION Spec
INVARIANT StoredOperationsDecode
PROPERTY TransitionsAreAtomic
