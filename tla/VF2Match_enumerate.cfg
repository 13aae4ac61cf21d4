\* Complete enumeration on two families of inputs at once:
\* every pattern with self-loops on 2 vertices against every such target
\* (padded to 5 vertices), and spec.md 8, scenario 4, (a:Actor)-[:PLAYED_IN]->
\* (m:Movie) against three actors and two movies with every subset of the
\* six PLAYED_IN edges.
CONSTANTS
    PatternChoices <- MCEnumPatterns
    TargetChoices <- MCEnumTargets
SPECIFICATION Spec
PROPERTY EnumeratesAllMatches
CHECK_DEADLOCK FALSE
