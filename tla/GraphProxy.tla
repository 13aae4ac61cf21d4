----------------------------- MODULE GraphProxy -----------------------------
(***************************************************************************)
(* The lazy graph proxy of zawgl-core (graph_engine/model.rs): the target *)
(* graph the VF2 matcher walks.  Vertices and edges of the repository are *)
(* materialised on demand into dense tables; a store id is mapped to its  *)
(* dense index by map_vertices / map_edges.                                *)
(*                                                                         *)
(* The repository is an input chosen at Init: a sequence of edges         *)
(* <<source, target>> whose store id is its position, over vertex store   *)
(* ids 1..NV.  Its adjacency lists are the singly linked lists of the      *)
(* store (first_outbound_edge / next_outbound_edge); a new edge is put at  *)
(* the head of its lists, so a list holds the edges newest first.          *)
(*                                                                         *)
(* "tables" holds the four structures the proxy shares with its           *)
(* iterators through Rc<RefCell<..>> handles: vertices, edges,            *)
(* map_vertices (mapV) and map_edges (mapE).  nodes and relationships are *)
(* owned by GraphProxy alone.  Dense indices are 0-based as in the code;  *)
(* an Option of an edge is its store id, 0 for None; a Node is its store  *)
(* id, 0 for the Node::new() placeholder.                                  *)
(***************************************************************************)
EXTENDS Naturals, Sequences, FiniteSets, SequencesExt, Functions, TLC

CONSTANTS
    NV,            \* number of vertices in the repository
    RepoChoices,   \* set of repositories: sequences of <<source, target>>
    NI,            \* number of iterators the matcher may hold at once
    MaxTableLen    \* bound on the length of nodes / relationships

ASSUME NV \in Nat \ {0} /\ NI \in Nat \ {0} /\ MaxTableLen \in Nat

VARIABLES
    repo,           \* the repository's edges (fixed)
    tables,         \* [vertices, edges, mapV, mapE]
    nodes,          \* GraphProxy.nodes
    relationships,  \* GraphProxy.relationships
    iters,          \* open InEdges / OutEdges iterators
    ret             \* the answer of the last get_node_ref / get_relationship_ref

vars == <<repo, tables, nodes, relationships, iters, ret>>

VIds == 1 .. NV
EIds == 1 .. Len(repo)

-----------------------------------------------------------------------------
(* The repository (external): DbVertexData and DbEdgeData of a store id. *)
Src(e) == repo[e][1]
Tgt(e) == repo[e][2]

Newest(S) == IF S = {} THEN 0 ELSE Max(S)

FirstOut(v) == Newest({e \in EIds : Src(e) = v})
FirstIn(v)  == Newest({e \in EIds : Tgt(e) = v})
NextOut(e)  == Newest({f \in EIds : f < e /\ Src(f) = Src(e)})
NextIn(e)   == Newest({f \in EIds : f < e /\ Tgt(f) = Tgt(e)})

(* Reference definition of an adjacency list: the edges of v, newest first. *)
AdjList(kind, v) ==
    SetToSortSeq({e \in EIds : IF kind = "out" THEN Src(e) = v ELSE Tgt(e) = v}, >)

-----------------------------------------------------------------------------
MapPut(f, k, x) == (k :> x) @@ f

(* add_vertex: push the vertex data; the dense index is the old length.   *)
(* The vertex record keeps the store id its data came from.              *)
VData(v) == [id |-> v, first_out |-> FirstOut(v), first_in |-> FirstIn(v)]

AddVertex(t, v) == [t EXCEPT !.vertices = Append(@, VData(v))]

(* Mutant: the map_vertices lookup is skipped and the vertex re-added. *)
GetOrRetrieveVertexDataNoLookup(t, v) ==
    [AddVertex(t, v) EXCEPT !.mapV = MapPut(@, v, Len(t.vertices))]

(* get_or_retrieve_vertex_data: a vertex seen before is left alone; an    *)
(* unseen one is fetched, added and entered in map_vertices.             *)
GetOrRetrieveVertexData(t, v) ==
    IF v \in DOMAIN t.mapV THEN t
    ELSE [AddVertex(t, v) EXCEPT !.mapV = MapPut(@, v, Len(t.vertices))]

ProxyNodeId(t, v) == [mem |-> t.mapV[v], store |-> v]

(* Mutant: the endpoints of the pushed edge swapped. *)
AddEdgeSwapped(t, e) ==
    LET t1 == GetOrRetrieveVertexData(GetOrRetrieveVertexData(t, Src(e)), Tgt(e))
    IN  [t1 EXCEPT !.edges = Append(@, [source |-> ProxyNodeId(t1, Tgt(e)),
                                        target |-> ProxyNodeId(t1, Src(e)),
                                        next_out |-> NextOut(e),
                                        next_in |-> NextIn(e)])]

(* The free function add_edge: both endpoints get dense slots, the edge   *)
(* is pushed at index len(edges), and an endpoint whose first edge of     *)
(* that direction is None gets the new edge.  map_edges is the caller's. *)
AddEdge(t, e) ==
    LET t1 == GetOrRetrieveVertexData(GetOrRetrieveVertexData(t, Src(e)), Tgt(e))
        s  == t1.mapV[Src(e)]
        g  == t1.mapV[Tgt(e)]
        t2 == [t1 EXCEPT !.edges = Append(@, [source |-> ProxyNodeId(t1, Src(e)),
                                              target |-> ProxyNodeId(t1, Tgt(e)),
                                              next_out |-> NextOut(e),
                                              next_in |-> NextIn(e)])]
        t3 == IF t2.vertices[s + 1].first_out = 0
              THEN [t2 EXCEPT !.vertices[s + 1].first_out = e] ELSE t2
    IN  IF t3.vertices[g + 1].first_in = 0
        THEN [t3 EXCEPT !.vertices[g + 1].first_in = e] ELSE t3

(* "while index > len { push(placeholder) }; insert(index, x)" of        *)
(* add_node and add_relationship.                                          *)
PadInsert(s, i, x) ==
    LET padded == IF i > Len(s) THEN s \o [k \in 1 .. (i - Len(s)) |-> 0] ELSE s
    IN  InsertAt(padded, i + 1, x)

(* The dense slot is in range and holds a materialised (non-placeholder) *)
(* value: the "retrieve = false" test of get_node_ref / get_relationship_ref. *)
Cached(map, vec, x) ==
    x \in DOMAIN map /\ map[x] < Len(vec) /\ vec[map[x] + 1] # 0

-----------------------------------------------------------------------------
IterIdle == [state |-> "idle", kind |-> "out", v |-> 1, cur |-> 0, yielded |-> <<>>]

(* GraphProxy::new with an empty pattern-dependent id list. *)
Init ==
    /\ repo \in RepoChoices
    /\ tables = [vertices |-> <<>>, edges |-> <<>>,
                 mapV |-> [x \in {} |-> 0], mapE |-> [x \in {} |-> 0]]
    /\ nodes = <<>>
    /\ relationships = <<>>
    /\ iters = [i \in 1 .. NI |-> IterIdle]
    /\ ret = [kind |-> "none", asked |-> 0, got |-> 0]

(* GraphProxy::add_node(node, retrieve_vertex): the node's dense index is *)
(* a new vertex slot (add_vertex) or the one map_vertices holds, and the   *)
(* node is pad-inserted at it.                                             *)
AddNode(t, id, retrieve_vertex) ==
    LET pidx == IF retrieve_vertex THEN Len(t.vertices) ELSE t.mapV[id]
    IN  [t |-> IF retrieve_vertex THEN AddVertex(t, id) ELSE t,
         pid |-> pidx, vec |-> PadInsert(nodes, pidx, id)]

(* GraphProxy::add_relationship(rel, retrieve_edge): as add_node, with    *)
(* add_edge for an edge map_edges does not know yet.                      *)
AddRelationship(t, id, retrieve_edge) ==
    LET pidx == IF retrieve_edge THEN Len(t.edges) ELSE t.mapE[id]
    IN  [t |-> IF retrieve_edge THEN AddEdge(t, id) ELSE t,
         pid |-> pidx, vec |-> PadInsert(relationships, pidx, id)]

(* get_node_ref(id): a cached node is returned from its dense slot;        *)
(* otherwise the node is fetched, add_node (adding the vertex data unless *)
(* map_vertices already has it) inserts it at the dense index, and        *)
(* map_vertices is (re)written.                                            *)
GetNodeRef(id) ==
    LET idx == tables.mapV[id] IN
    IF Cached(tables.mapV, nodes, id)
    THEN /\ ret' = [kind |-> "node", asked |-> id, got |-> nodes[idx + 1]]
         /\ UNCHANGED <<repo, tables, nodes, relationships, iters>>
    ELSE LET a == AddNode(tables, id, id \notin DOMAIN tables.mapV)
         IN  /\ Len(a.vec) <= MaxTableLen
             /\ nodes' = a.vec
             /\ tables' = [a.t EXCEPT !.mapV = MapPut(@, id, a.pid)]
             /\ ret' = [kind |-> "node", asked |-> id, got |-> a.vec[a.pid + 1]]
             /\ UNCHANGED <<repo, relationships, iters>>

(* get_relationship_ref(id): as get_node_ref; a fetch also gives both    *)
(* endpoints dense slots, and add_relationship runs add_edge for an edge  *)
(* map_edges does not know yet.                                           *)
GetRelationshipRef(id) ==
    LET idx == tables.mapE[id] IN
    IF Cached(tables.mapE, relationships, id)
    THEN /\ ret' = [kind |-> "rel", asked |-> id, got |-> relationships[idx + 1]]
         /\ UNCHANGED <<repo, tables, nodes, relationships, iters>>
    ELSE LET t1 == GetOrRetrieveVertexData(GetOrRetrieveVertexData(tables, Src(id)), Tgt(id))
             a  == AddRelationship(t1, id, id \notin DOMAIN tables.mapE)
         IN  /\ Len(a.vec) <= MaxTableLen
             /\ relationships' = a.vec
             /\ tables' = [a.t EXCEPT !.mapE = MapPut(@, id, a.pid)]
             /\ ret' = [kind |-> "rel", asked |-> id, got |-> a.vec[a.pid + 1]]
             /\ UNCHANGED <<repo, nodes, iters>>

(* out_edges(v) / in_edges(v): the iterator starts at the first edge of   *)
(* the vertex's dense record.  map_vertices is indexed directly, so the   *)
(* call panics for a vertex without a dense slot: the matcher only calls  *)
(* it on vertices it reached through the proxy.                           *)
OpenEdges(i, v, kind) ==
    /\ iters[i].state = "idle"
    /\ v \in DOMAIN tables.mapV
    /\ LET vd == tables.vertices[tables.mapV[v] + 1] IN
       iters' = [iters EXCEPT ![i] = [state |-> "open", kind |-> kind, v |-> v,
                     cur |-> IF kind = "out" THEN vd.first_out ELSE vd.first_in,
                     yielded |-> <<>>]]
    /\ UNCHANGED <<repo, tables, nodes, relationships, ret>>

(* Mutant: the in and out links confused. *)
NextLinkSwapped(ed, kind) == IF kind = "out" THEN ed.next_in ELSE ed.next_out

NextLink(ed, kind) == IF kind = "out" THEN ed.next_out ELSE ed.next_in

(* Mutant: the dense index of a fetched edge read after the push. *)
NextEdgeIndexAfterPush(i) ==
    LET it == iters[i] IN
    /\ it.state = "open"
    /\ it.cur # 0
    /\ IF it.cur \in DOMAIN tables.mapE
       THEN /\ iters' = [iters EXCEPT ![i].cur = NextLink(tables.edges[tables.mapE[it.cur] + 1], it.kind),
                                      ![i].yielded = Append(@, it.cur)]
            /\ UNCHANGED tables
       ELSE LET t1 == AddEdge(tables, it.cur)
            IN  /\ tables' = [t1 EXCEPT !.mapE = MapPut(@, it.cur, Len(t1.edges))]
                /\ iters' = [iters EXCEPT ![i].cur = NextLink(t1.edges[Len(t1.edges)], it.kind),
                                          ![i].yielded = Append(@, it.cur)]
    /\ UNCHANGED <<repo, nodes, relationships, ret>>

(* InEdges::next / OutEdges::next on a current edge: a known edge is read *)
(* from the dense table; an unknown one is fetched, added by add_edge and *)
(* entered in map_edges.  The iterator then moves to the next link.       *)
NextEdge(i) ==
    LET it == iters[i] IN
    /\ it.state = "open"
    /\ it.cur # 0
    /\ IF it.cur \in DOMAIN tables.mapE
       THEN /\ iters' = [iters EXCEPT ![i].cur = NextLink(tables.edges[tables.mapE[it.cur] + 1], it.kind),
                                      ![i].yielded = Append(@, it.cur)]
            /\ UNCHANGED tables
       ELSE LET pidx == Len(tables.edges)
                t1   == AddEdge(tables, it.cur)
            IN  /\ tables' = [t1 EXCEPT !.mapE = MapPut(@, it.cur, pidx)]
                /\ iters' = [iters EXCEPT ![i].cur = NextLink(t1.edges[pidx + 1], it.kind),
                                          ![i].yielded = Append(@, it.cur)]
    /\ UNCHANGED <<repo, nodes, relationships, ret>>

(* The matcher drops an iterator when next() returns None or when it     *)
(* leaves its loop early (return Some(false), a matched edge).            *)
DropEdges(i) ==
    /\ iters[i].state = "open"
    /\ iters' = [iters EXCEPT ![i] = IterIdle]
    /\ UNCHANGED <<repo, tables, nodes, relationships, ret>>

Next ==
    \/ \E v \in VIds : GetNodeRef(v)
    \/ \E e \in EIds : GetRelationshipRef(e)
    \/ \E i \in 1 .. NI, v \in VIds, k \in {"out", "in"} : OpenEdges(i, v, k)
    \/ \E i \in 1 .. NI : NextEdge(i) \/ DropEdges(i)

Spec == Init /\ [][Next]_vars

-----------------------------------------------------------------------------
\* InnerVertexData, tagged with the store id it was made for.
VRec == [id : VIds, first_out : 0 .. Len(repo), first_in : 0 .. Len(repo)]

\* ProxyNodeId: a dense index and a store id (equality and hash use the store id).
PId  == [mem : Nat, store : VIds]

\* InnerEdgeData: the endpoints as ProxyNodeIds and the next links.
ERec == [source : PId, target : PId, next_out : 0 .. Len(repo), next_in : 0 .. Len(repo)]

TypeOK ==
    /\ nodes \in Seq(0 .. NV)
    /\ relationships \in Seq(0 .. Len(repo))
    /\ \A k \in DOMAIN tables.vertices : tables.vertices[k] \in VRec
    /\ \A k \in DOMAIN tables.edges :
          tables.edges[k] \in ERec
    /\ DOMAIN tables.mapV \subseteq VIds /\ DOMAIN tables.mapE \subseteq EIds
    /\ \A v \in DOMAIN tables.mapV : tables.mapV[v] \in 0 .. Len(tables.vertices) - 1
    /\ \A e \in DOMAIN tables.mapE : tables.mapE[e] \in 0 .. Len(tables.edges) - 1
    /\ \A i \in 1 .. NI : iters[i].cur \in 0 .. Len(repo)

(* Invariant (spec.md 4.5 and 8, proxy stability and uniqueness): the two *)
(* maps are injective, and the dense record at a store id's index holds    *)
(* that id's data: the vertex's first edges, the edge's endpoints as the   *)
(* ProxyNodeIds that map_vertices gives them, and its next links.  Reached *)
(* through get_node_ref, get_relationship_ref and iterators interleaved.   *)
DenseTablesFaithful ==
    /\ IsInjective(tables.mapV) /\ IsInjective(tables.mapE)
    /\ \A v \in DOMAIN tables.mapV :
          /\ tables.mapV[v] < Len(tables.vertices)
          /\ tables.vertices[tables.mapV[v] + 1] = VData(v)
    /\ \A e \in DOMAIN tables.mapE :
          /\ {Src(e), Tgt(e)} \subseteq DOMAIN tables.mapV
          /\ tables.mapE[e] < Len(tables.edges)
          /\ tables.edges[tables.mapE[e] + 1] =
                [source |-> ProxyNodeId(tables, Src(e)), target |-> ProxyNodeId(tables, Tgt(e)),
                 next_out |-> NextOut(e), next_in |-> NextIn(e)]

(* Action property (spec.md 4.5 invariant (i)): once map_vertices or      *)
(* map_edges gives a store id a dense index, no call changes or drops it. *)
DenseIndexStable ==
    [][/\ \A v \in DOMAIN tables.mapV : v \in DOMAIN tables'.mapV /\ tables'.mapV[v] = tables.mapV[v]
       /\ \A e \in DOMAIN tables.mapE : e \in DOMAIN tables'.mapE /\ tables'.mapE[e] = tables.mapE[e]
      ]_vars

(* Invariant (spec.md 8, scenario 5): every iterator yields the store's   *)
(* adjacency list of its vertex in order, however the edges it meets were *)
(* materialised before (by other iterators or get_relationship_ref).      *)
IteratorFaithful ==
    \A i \in 1 .. NI : iters[i].state = "open" =>
        LET l == AdjList(iters[i].kind, iters[i].v)
            n == Len(iters[i].yielded)
        IN  /\ IsPrefix(iters[i].yielded, l)
            /\ iters[i].cur = IF n < Len(l) THEN l[n + 1] ELSE 0

(* Invariant (the contract of get_node_ref and get_relationship_ref):    *)
(* the node or relationship returned for a store id is the one with that *)
(* id, however the dense vectors were filled before.                      *)
RefsCorrect == ret.kind # "none" => ret.got = ret.asked
=============================================================================
