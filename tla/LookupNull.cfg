SPECIFICATION Spec
CONSTANTS
    n1 = n1
    n2 = n2
    n3 = n3
    Node = {n1, n2}
    Self = n1
    Obj <- Outer
    Query <- Queries
    Infinity = 9
    MaxCost = 2
SYMMETRY Symm
INVARIANTS
    LookupDefined
