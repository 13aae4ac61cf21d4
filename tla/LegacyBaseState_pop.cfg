\* One BaseState of the older matcher over every graph with self-loops on two
\* vertices: a push followed by its matching pop must restore the state.
CONSTANTS
    N = 2
    Targets = {1}
SPECIFICATION Spec
PROPERTY PopRestoresPush
