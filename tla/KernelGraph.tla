----------------------------- MODULE KernelGraph -----------------------------
(***************************************************************************)
(* The in-memory graph of orange-db-kernel (src/graph/mod.rs): a vector of *)
(* vertices holding the heads of their outbound and inbound edge lists,    *)
(* and a vector of edges, each holding its endpoints and the next edge of  *)
(* both lists.  add_edge prepends the new edge to the source's out-list   *)
(* and the target's in-list, so the iterators yield the newest edge first. *)
(*                                                                         *)
(* Indices are 0-based as in the code: vertex i is nodes[i + 1] and edge  *)
(* i is edges[i + 1].  NoEdge stands for None.  The iterators borrow the  *)
(* graph, so no edge is added while one is open: they are operators over  *)
(* the current state, and the graph's operations are the actions.          *)
(***************************************************************************)
EXTENDS Integers, Sequences, SequencesExt

CONSTANTS
    MaxVertices,    \* bound on add_vertex calls
    MaxEdges        \* bound on add_edge calls

NoEdge == -1

ASSUME MaxVertices \in Nat \ {0} /\ MaxEdges \in Nat

VARIABLES
    nodes,          \* Vec<VertexData>: [first_outbound_edge, first_inbound_edge]
    edges           \* Vec<EdgeData>: [source, target, next_outbound_edge, next_inbound_edge]

vars == <<nodes, edges>>

VertexIds == 0 .. Len(nodes) - 1
EdgeIds == 0 .. Len(edges) - 1

-----------------------------------------------------------------------------
(* The edges of one list, from edge e on, following the next pointer      *)
(* "next" (next_outbound_edge or next_inbound_edge).  fuel bounds the walk *)
(* by the number of edges; a walk that runs out of fuel has met a cycle    *)
(* and ends with NoEdge, which no finite list yields.                      *)
RECURSIVE Walk(_, _, _)
Walk(e, next, fuel) ==
    IF e = NoEdge THEN <<>>
    ELSE IF fuel = 0 THEN <<NoEdge>>
    ELSE <<e>> \o Walk(edges[e + 1][next], next, fuel - 1)

(* Graph::out_edges / OutEdges::next *)
OutEdges(v) == Walk(nodes[v + 1].first_outbound_edge, "next_outbound_edge", Len(edges))

(* Graph::in_edges / InEdges::next *)
InEdges(v) == Walk(nodes[v + 1].first_inbound_edge, "next_inbound_edge", Len(edges))

(* Graph::successors / Successors::next: the targets of the out-list. *)
Successors(v) == [i \in DOMAIN OutEdges(v) |-> edges[OutEdges(v)[i] + 1].target]

(* Graph::ancestors / Ancestors::next: the sources of the in-list. *)
Ancestors(v) == [i \in DOMAIN InEdges(v) |-> edges[InEdges(v)[i] + 1].source]

-----------------------------------------------------------------------------
(* Graph::new *)
Init ==
    /\ nodes = <<>>
    /\ edges = <<>>

(* Graph::add_vertex: the new vertex has empty lists. *)
AddVertex ==
    /\ Len(nodes) < MaxVertices
    /\ nodes' = Append(nodes, [first_outbound_edge |-> NoEdge,
                               first_inbound_edge |-> NoEdge])
    /\ UNCHANGED edges

(* Mutant: the new edge's index is one past its position. *)
AddEdgeOffByOne(source, target) ==
    /\ Len(edges) < MaxEdges
    /\ LET index == Len(edges) + 1
       IN  /\ edges' = Append(edges,
                  [source |-> source, target |-> target,
                   next_inbound_edge |-> nodes[target + 1].first_inbound_edge,
                   next_outbound_edge |-> nodes[source + 1].first_outbound_edge])
           /\ nodes' = [nodes EXCEPT ![source + 1].first_outbound_edge = index,
                                     ![target + 1].first_inbound_edge = index]

(* Mutant: the heads are moved before the old heads are read. *)
AddEdgeHeadsFirst(source, target) ==
    /\ Len(edges) < MaxEdges
    /\ LET index == Len(edges)
           moved == [nodes EXCEPT ![source + 1].first_outbound_edge = index,
                                  ![target + 1].first_inbound_edge = index]
       IN  /\ edges' = Append(edges,
                  [source |-> source, target |-> target,
                   next_inbound_edge |-> moved[target + 1].first_inbound_edge,
                   next_outbound_edge |-> moved[source + 1].first_outbound_edge])
           /\ nodes' = moved

(* Graph::add_edge: the new edge points at the current heads of the       *)
(* source's out-list and the target's in-list, then becomes both heads    *)
(* (the out-head first; for a self-loop both are in the same vertex).     *)
AddEdge(source, target) ==
    /\ Len(edges) < MaxEdges
    /\ LET index == Len(edges)
       IN  /\ edges' = Append(edges,
                  [source |-> source, target |-> target,
                   next_inbound_edge |-> nodes[target + 1].first_inbound_edge,
                   next_outbound_edge |-> nodes[source + 1].first_outbound_edge])
           /\ nodes' = [nodes EXCEPT ![source + 1].first_outbound_edge = index,
                                     ![target + 1].first_inbound_edge = index]

(* The callers pass vertices that add_vertex returned: indexing a missing *)
(* vertex panics.                                                          *)
Next ==
    \/ AddVertex
    \/ \E s, t \in VertexIds : AddEdge(s, t)

Spec == Init /\ [][Next]_vars

-----------------------------------------------------------------------------
EdgeRef == {NoEdge} \cup EdgeIds

\* struct VertexData: the heads of the two lists, Option<EdgeIndex>.
VertexData == [first_outbound_edge : EdgeRef, first_inbound_edge : EdgeRef]

\* struct EdgeData: the endpoints and the next edge of both lists.
EdgeData == [source : VertexIds, target : VertexIds,
             next_outbound_edge : EdgeRef, next_inbound_edge : EdgeRef]

TypeOK ==
    /\ Len(nodes) <= MaxVertices /\ Len(edges) <= MaxEdges
    /\ \A v \in VertexIds : nodes[v + 1] \in VertexData
    /\ \A e \in EdgeIds : edges[e + 1] \in EdgeData

(* Reference: the edges added with the given endpoint, newest first, and *)
(* the given field of each.                                                *)
NewestFirst(P(_)) == SetToSortSeq({e \in EdgeIds : P(edges[e + 1])}, >)
FieldOf(es, f) == [i \in DOMAIN es |-> edges[es[i] + 1][f]]

(* Invariant: after any sequence of add_vertex and add_edge, including    *)
(* self-loops and parallel edges, out_edges(v) and in_edges(v) walk       *)
(* exactly the edges leaving and entering v, newest first, and end; and   *)
(* successors(v) and ancestors(v) yield their other endpoints in the same *)
(* order (the order test_small_graph_it asserts).                         *)
IteratorsFaithful ==
    \A v \in VertexIds :
       /\ OutEdges(v) = NewestFirst(LAMBDA r : r.source = v)
       /\ InEdges(v) = NewestFirst(LAMBDA r : r.target = v)
       /\ Successors(v) = FieldOf(NewestFirst(LAMBDA r : r.source = v), "target")
       /\ Ancestors(v) = FieldOf(NewestFirst(LAMBDA r : r.target = v), "source")
=============================================================================
