-------------------------- MODULE MatchEnumeration --------------------------
(***************************************************************************)
(* What a subgraph matcher promises its caller (spec.md 4.6): it hands     *)
(* every match to the callback exactly once, hands nothing else, and       *)
(* returns only when all matches have been handed over.  The set of        *)
(* matches is fixed by the inputs; it is a variable only so that a         *)
(* refinement mapping can compute it from the implementation's inputs.     *)
(***************************************************************************)
EXTENDS Sequences, Functions

VARIABLES
    matches,            \* the set of all embeddings of the pattern
    log,                \* the matches handed to the callback, in order
    finished            \* TRUE once the matcher has returned

Init ==
    /\ log = <<>>
    /\ finished = FALSE

(* A match not handed over yet is handed to the callback. *)
EmitMatch ==
    /\ ~finished
    /\ \E m \in matches \ Range(log) : log' = Append(log, m)
    /\ UNCHANGED <<matches, finished>>

(* The matcher returns once nothing is left to hand over. *)
Return ==
    /\ ~finished
    /\ Range(log) = matches
    /\ finished' = TRUE
    /\ UNCHANGED <<matches, log>>

Next == EmitMatch \/ Return

Spec == Init /\ [][Next]_<<matches, log, finished>>
=============================================================================
