---------------------------- MODULE MCGraphProxy ----------------------------
(***************************************************************************)
(* Inputs for checking GraphProxy with TLC.                                *)
(***************************************************************************)
EXTENDS GraphProxy

(* Every repository of at most MaxEdges edges over 1..NV, in every        *)
(* creation order.                                                         *)
Repos(maxEdges) ==
    UNION {[1 .. n -> VIds \X VIds] : n \in 0 .. maxEdges}

MCRepos2 == Repos(2)
MCRepos3 == Repos(3)
=============================================================================
