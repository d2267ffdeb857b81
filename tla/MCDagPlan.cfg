\* Every dependency relation on four nodes, cyclic ones included.
SPECIFICATION Spec
CONSTANTS
    Nodes <- FourNodes
INVARIANTS
    PlanIsTopological
    CyclesRejected
    PlanIsLeastOrder
    DescendantsAreReachable
