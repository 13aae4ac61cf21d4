\* Every repository of at most two edges over two vertices, with two
\* iterators open at once (the nested loops of feasible and edge_exists_1).
CONSTANTS
    NV = 2
    NI = 2
    MaxTableLen = 4
    RepoChoices <- MCRepos2
SPECIFICATION Spec
INVARIANTS TypeOK DenseTablesFaithful IteratorFaithful
PROPERTIES DenseIndexStable
