\* Every WHERE clause of up to three comparisons n.p = literal, over three
\* distinct comparisons.
CONSTANTS
    AtomIds = {1, 2, 3}
    AtomForms <- PropEqLit
    MaxAtoms = 3
SPECIFICATION Spec
INVARIANT ParseFaithful
