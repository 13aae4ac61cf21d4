--------------------------- MODULE MCWhereClause ---------------------------
(* The WHERE-clause parser over comparisons of the form n.p = literal.    *)
EXTENDS WhereClause

(* n.p = 1: the operand kinds whose both sides reach the tree. *)
PropEqLit == {[lhs |-> "prop", rhs |-> "lit"]}
=============================================================================
