-------------------------- MODULE MCBTreeNodeStore --------------------------
(* Inputs of BTreeNodeStore for TLC.  KEY_SIZE = 10 leaves room for one     *)
(* 8-byte pointer per list cell, so every posting-list entry is one        *)
(* fragment; ShortKey fits one cell and LongKey needs two (the second one  *)
(* NUL-terminated), ExactKey fills two cells with no terminator.           *)
EXTENDS BTreeNodeStore

ShortKey == <<"a">>
LongKey  == [i \in 1..12 |-> "b"]
ExactKey == [i \in 1..20 |-> "c"]
MCKeys == {ShortKey, LongKey}
MCShortKeys == {ShortKey}

\* One-cell leaf and interior nodes, as a leaf or interior split creates.
OneCellNodes ==
    {[leaf |-> TRUE, root |-> FALSE, next |-> 0, cells |-> <<c>>] : c \in LeafCells}
    \cup {[leaf |-> FALSE, root |-> FALSE, next |-> 0, cells |-> <<c>>] : c \in InteriorCells}

\* Leaf nodes only.
OneCellLeaves ==
    {[leaf |-> TRUE, root |-> FALSE, next |-> 0, cells |-> <<c>>] : c \in LeafCells}

\* Two-cell interior nodes, short keys: no cell needs an overflow record.
TwoCellInteriors ==
    {[leaf |-> FALSE, root |-> FALSE, next |-> 0, cells |-> <<c, d>>] :
        c \in InteriorCells, d \in InteriorCells}

\* Two-cell leaves.
TwoCellLeaves ==
    {[leaf |-> TRUE, root |-> FALSE, next |-> 0, cells |-> <<c, d>>] :
        c \in LeafCells, d \in LeafCells}
\* The inputs of the remove runs: one-cell nodes with either key, and
\* two-cell interior nodes.
RemoveNodes == OneCellNodes \cup TwoCellInteriors
=============================================================================
