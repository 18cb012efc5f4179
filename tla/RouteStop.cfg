SPECIFICATION Spec
CONSTANTS
    Node <- Nodes
    Self = 0
    Infinity = 100
    NoHop = 99
    MaxLinks = 2
INVARIANTS
    ShortestInTopology
