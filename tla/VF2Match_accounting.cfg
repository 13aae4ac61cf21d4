\* The push/pop accounting invariants on two families of inputs: every
\* pattern with self-loops on 2 vertices against every target with self-loops
\* on 3 vertices, and every simple pattern on 3 vertices against every simple
\* target on 3 vertices (recursion three frames deep).
CONSTANTS
    PatternChoices <- MCAccountingPatterns
    TargetChoices <- MCLoopTargets3
INIT MCAccountingInit
NEXT Next
INVARIANTS TypeOK TerminalSetsExact CountersExact MatchesSound
\* match() returns: the final state has no successor.
CHECK_DEADLOCK FALSE
