\* get_node_ref / get_relationship_ref after vertices or edges got dense
\* slots out of id order: add_node's and add_relationship's Vec::insert
\* shift the dense vectors.
CONSTANTS
    NV = 3
    NI = 1
    MaxTableLen = 4
    RepoChoices <- MCRepos2
SPECIFICATION Spec
INVARIANTS RefsCorrect
