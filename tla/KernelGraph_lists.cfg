\* Every sequence of up to 3 add_vertex and 4 add_edge calls, self-loops and
\* parallel edges included: the linked lists always hold the right edges.
CONSTANTS
    MaxVertices = 3
    MaxEdges = 4
SPECIFICATION Spec
INVARIANTS TypeOK IteratorsFaithful
\* The graph stops growing at the bounds.
CHECK_DEADLOCK FALSE
