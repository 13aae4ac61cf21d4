----------------------------- MODULE MCVF2Match -----------------------------
(***************************************************************************)
(* Inputs for checking VF2Match with TLC.                                  *)
(***************************************************************************)
EXTENDS VF2Match

(* Every simple directed graph (no self-loop) on 1..N, one vertex label.   *)
SimpleGraphs(N) ==
    [edges : SUBSET {p \in (1 .. N) \X (1 .. N) : p[1] # p[2]},
     label : {[x \in 1 .. N |-> "V"]}]

(* Every directed graph with self-loops on 1..N, one vertex label. *)
LoopGraphs(N) ==
    [edges : SUBSET ((1 .. N) \X (1 .. N)), label : {[x \in 1 .. N |-> "V"]}]

(* spec.md 8, scenario 4: a:Actor -[PLAYED_IN]-> m:Movie against three    *)
(* actors (1..3) and two movies (4, 5), with every subset of the six       *)
(* PLAYED_IN edges (the full set is the scenario itself).                  *)
ActorMoviePattern ==
    {[edges |-> {<<1, 2>>}, label |-> <<"Actor", "Movie">>]}
ActorMovieTargets ==
    [edges : SUBSET {<<a, m>> : a \in 1 .. 3, m \in 4 .. 5},
     label : {<<"Actor", "Actor", "Actor", "Movie", "Movie">>}]

(* A path of length two against a transitive triangle: the only embedding *)
(* is 1 -> 1, 2 -> 2, 3 -> 3, and the target edge 1 -> 3 is extra.        *)
PathPattern ==
    {[edges |-> {<<1, 2>>, <<2, 3>>}, label |-> <<"V", "V", "V">>]}
TriangleTarget ==
    {[edges |-> {<<1, 2>>, <<2, 3>>, <<1, 3>>}, label |-> <<"V", "V", "V">>]}

(* The graphs with self-loops on 2 vertices, placed in a target of five   *)
(* vertices whose last three carry a label no pattern uses: every frame    *)
(* also tries and rejects those candidates.                                *)
PaddedLoopTargets2 ==
    [edges : SUBSET ((1 .. 2) \X (1 .. 2)),
     label : {<<"V", "V", "Pad", "Pad", "Pad">>}]

MCSimplePatterns3 == SimpleGraphs(3)
MCSimpleTargets3  == SimpleGraphs(3)
MCLoopPatterns2   == LoopGraphs(2)
MCLoopTargets3    == LoopGraphs(3)
MCLoopTargets2    == LoopGraphs(2)
(* The accounting inputs: every 2-vertex pattern with self-loops against  *)
(* every 3-vertex target with self-loops, and every simple 3-vertex        *)
(* pattern against every simple 3-vertex target (three frames deep).       *)
MCAccountingPatterns == MCLoopPatterns2 \cup MCSimplePatterns3
MCAccountingInit == Init /\ (NP = 3 => tg \in MCSimpleTargets3)
MCEnumPatterns    == MCLoopPatterns2 \cup ActorMoviePattern
MCEnumTargets     == PaddedLoopTargets2 \cup ActorMovieTargets
=============================================================================
