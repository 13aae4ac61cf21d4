\* A path 1 -> 2 -> 3 against the transitive triangle 1 -> 2, 2 -> 3, 1 -> 3:
\* the rest-count cut of feasible() prunes the only embedding.
CONSTANTS
    PatternChoices <- PathPattern
    TargetChoices <- TriangleTarget
SPECIFICATION Spec
PROPERTIES EnumeratesAllMatches
CHECK_DEADLOCK FALSE
