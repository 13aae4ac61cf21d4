# TLA+ models of zawgl

This directory holds TLA+ specifications of the parts of zawgl whose behaviour
is hard to test: the VF2 subgraph matcher (and the older BaseState it grew
from), the lazy graph proxy, the paged B+-tree node store with its free-cell
list, the in-memory graph with linked adjacency lists, the transaction
dispatch of requests from many connections, and the Cypher WHERE-clause parser. TLC checks them. `PROJECT.json`
lists the components, the runs, the mutants that show each property can fail,
the source lines each definition models, the findings and the hazards.

## 1. Inventory of the system

| Part (spec.md) | Source | State | Operations | Interacts with |
|---|---|---|---|---|
| C8 VF2 matcher | `lib/zawgl-core/src/matcher/vf2/state.rs`; legacy `src/matcher/vf2/base_state.rs` | two `BaseState`s: `core_map`, `in_map`, `out_map` (vertex to depth), `core_count`, `term_in/out/both_count` | `push`, `pop`, `feasible`, `possible_candidate_0/1`, `success`, `call_back`; the recursive `match()` driver (not in the tree) | C7 for target vertices and edges |
| C7 graph proxy | `lib/zawgl-core/src/graph_engine/model.rs` | dense `vertices`/`edges` vectors, `map_vertices`/`map_edges` (store id to dense id), `nodes`/`relationships` | `new`, `get_node_ref`, `get_relationship_ref`, `add_vertex`, `add_edge`, `in_edges`/`out_edges` iterators | the repository (C6, external) |
| C2 node record pool | `lib/zawgl-core/src/repository/index/store/pool.rs` (older copy in `one-graph-core`) | cache of node records by id, free-cell chain head in the header | `load_*`, `create_node_record`, `save_all`, `insert_cell_in_free_slot`, `disable_cell_records`, `append_node_record_to_free_list`, `FreeCellIterator::next` | C1 records manager (external) |
| C4 B+-tree node store | `lib/zawgl-core/src/repository/index/store/mod.rs` | node records with cells and overflow chains, root pointer | `create`, `retrieve_node`, `save` (select root, replay change log, create new cells), `load_or_create_root_node` | C2 |
| C5 B+-tree index | `lib/orange-db-core/.../b_tree.rs` | none (insert is an empty stub) | `search` from record 0 | C4 (early variant) |
| In-memory graph | `lib/orange-db-kernel/src/graph/mod.rs` | vertex and edge vectors with linked adjacency | `add_vertex`, `add_edge` (prepends to the lists), iterators | the pattern side of C8 |
| Transaction dispatch | `lib/one-graph-tx-handler/src/lib.rs` | session lock, TxStatus | `handle_graph_request` | the request handler |
| Cypher WHERE parser | `lib/zawgl-cypher/src/cypher/parser/where_clause_parser_delegate.rs` | the token index and the AST built | `parse_where_clause`, `parse_boolean_expression`, `parse_boolean_operator`, `parse_boolean_expression_terminal` | the Cypher driver (not in the tree) |
| Parsers and glue | gremlin, the rest of cypher, AST visitor, `from_step`, `properties_store`, `utils` | none | syntax conversion | not modelled |

The hard behaviours are these:
- **VF2:** the depth-stamped undo of the terminal sets across long push/pop sequences, and the pruning cut of `feasible`.
- **Proxy:** out-of-order materialisation of vertices and edges into dense vectors.
- **Store and pool:**
  - overflow chains that cross storage nodes;
  - the free-cell list under removal and re-insertion;
  - a save that replays a change log;
  - an IO error part-way through an operation whose writes are partly written through.
- **Transaction dispatch:** connections of different sessions that contend for the handler lock and the session lock.

## 2. Plan and status

1. **VF2Match** (done): the matcher, driven by the recursive search of spec.md 4.6. It refines the abstract enumeration **MatchEnumeration**.
2. **GraphProxy** (done): the dense tables and lazy iterators.
   - Checked: the dense index is stable and unique per store id, and the iterators follow the repository's lists.
   - `get_node_ref`/`get_relationship_ref` return the wrong item after out-of-order materialisation (the `Vec::insert` shift).
3. **NodeRecordPool and BTreeNodeStore** (done): one module, because every store call runs its own pool.
   - Checked: chains and the free list stay well formed, and operations stay within their own node.
   - One violation run shows a remove that leaks overflow slots. With other inputs, the same run's property shows a stale duplicate cell, a retrieve that hangs, and a chain read from the wrong record.
   - A fault model lets a records-manager save fail. A second violation run shows that an IO error is not rolled back: a failed save leaves a live node changed.
4. **LegacyBaseState** (done): the old `base_state.rs` push/pop. The terminal-accounting bug is shown.
5. **KernelGraph** (done): `add_vertex`/`add_edge` and the four iterators.
6. **TxDispatch** (done): `handle_graph_request` over several connections. A waiting request holds `tx_lock` while it blocks on the session lock, which deadlocks against the owning session's commit.
7. **WhereClause** (done): the recursive-descent WHERE parser, checked against the meaning of every clause of up to three comparisons. Its AND-over-OR rotation misparses parenthesised ORs.
8. **Left for later sittings:**
   - **Gaps in the current modules:** the store's `load_or_create_root_node` on a non-empty store (a read), and the proxy's `new_full`/label-filtered start. The start list (`retrieved_nodes_ids`) is read only by the matcher's driver, which is not in the tree. Checking it needs a run of its own, and all twelve run slots are used.
   - **Further checks** of bugs already met: the chain that crosses records, the list-fragment order, and the lost sibling pointer.

## 3. Modules

### VF2Match (with MCVF2Match, MatchEnumeration)

**Variables.**
- `pg` and `tg` are the pattern and target graphs. They are records of an edge set of `<<source, target>>` pairs (self-loops allowed) and a vertex label function. Init picks them and no action changes them.
- `bs0` and `bs1` are the two `BaseState`s. A map value of 0 stands for "no entry": the code stores `core_count` only after incrementing it, so real entries are at least 1.
- `stack`, `phase` and `emitted` are the recursion frames of `match()`, its program counter, and the mappings handed to the callback.

**Operators and actions.**

| TLA+ | Code |
|---|---|
| `PushState`, `InsertIn`, `InsertOut` | `push_state_0/1` (state.rs 37-75, 142-180): v0 first, then the ancestors, then the successors, each in one insert block |
| `PopState`, `RemoveIn`, `RemoveOut` | `pop_state_0/1` (77-139, 182-244), the four remove blocks in code order, with the `term_both_count > 0` guard |
| `Push`, `Pop` | `State::push`, `State::pop` (pop finds the target through `core(v0)`) |
| `Feasible` | `feasible`, `inc_counters_match_edge_0/1` and `edge_exists_1`: vertex comparator, core-edge check, componentwise terminal-count cut |
| `PossibleCandidate`, `TermIn/Out/Both`, `Term*Vertex` | `possible_candidate_0/1` and the BaseState predicates |
| `Emit`, `Descend`, `TryCandidate`, `SkipCandidate`, `ExhaustFrame`, `Backtrack`, `Finish` | the `match()` loop of spec.md 4.6, which is not in the source tree |

**Abstractions.**
- Edge comparison is edge existence, a single edge label. With a set of edges, the per-call `matched_edge_set` never rejects a second pattern edge.
- Vertex comparison is label equality.
- The proxy is assumed to resolve every vertex, so `feasible` never returns `None`.

**Properties.**
- `TypeOK`.
- `TerminalSetsExact`: every `in_map`/`out_map` entry on both sides equals the first depth at which its vertex was pushed, or became an ancestor or successor of a pushed vertex. This is spec.md's "terminal accounting".
- `CountersExact`: the incremental counters equal the sizes of the sets they count, and the two core maps are mutual inverses. This is spec.md's "VF2 bijectivity".
- `MatchesSound`: every emitted mapping is an embedding.
- `EnumeratesAllMatches`: `VF2Match` implements `MatchEnumeration`. The refinement mapping is `matches <- Embeddings`, `log <- emitted`, `finished <- phase = "done"`. The abstract spec only appends new embeddings and may finish only when all of them have been appended, so the property says "sound, no duplicates, complete".

**Fairness.** None. No VF2 run checks a liveness property. `match()` terminates because its frames and candidate lists are finite, but the driver is modelled from spec.md (it is not in the tree), so that would say nothing about the code. Completeness is a safety property of the refinement: the abstract spec may set `finished` only once every embedding has been logged.

**Runs and bounds.**

| Run | Inputs | Checks | Result |
|---|---|---|---|
| `vf2_accounting` | all 16 patterns with self-loops on 2 vertices × all 512 targets with self-loops on 3 vertices, and all 64 × 64 simple graphs on 3 vertices (three frames deep). `MCAccountingInit` pairs a 3-vertex pattern only with the simple targets | `TypeOK`, `TerminalSetsExact`, `CountersExact`, `MatchesSound` | pass, 293,736 states |
| `vf2_enumerate` | all 16 patterns with self-loops on 2 vertices × the 16 such targets padded to 5 vertices (three `Pad` vertices every frame tries and rejects); and spec.md scenario 4, Actor→Movie against 3 actors and 2 movies with each of the 64 subsets of the six PLAYED_IN edges | `EnumeratesAllMatches` | pass, 16,212 states |
| `vf2_path_triangle` | path 1→2→3 against the transitive triangle | `EnumeratesAllMatches` | **violation** |

`NP` and `NT` are not constants: they are the sizes of the chosen graphs, so one run can mix inputs of different sizes.

Why these bounds are enough:
- The accounting bugs need a vertex that is a neighbour of two pushed vertices at different depths. They also need self-loops and vertices that are in both terminal sets. Two or three vertices with all edge sets cover these cases.
- Refinement is checked on the smaller inputs, where every frame still tries and rejects the padding vertices. TLC checks the refinement as a temporal property, which costs time over thousands of disjoint initial states.

**Finding.** `feasible` (state.rs:341) requires `rest0 <= rest1`. Under non-induced matching a pattern neighbour in no terminal set may map to a target vertex that is already in one. So the cut prunes real matches.
- `vf2_path_triangle` shows the only embedding of a path into a transitive triangle being lost.
- Scenario 4 (complete bipartite target) is not affected.

### GraphProxy (with MCGraphProxy)

**Variables.**
- `repo` is the repository, fixed at Init: a sequence of `<<source, target>>` edges whose position is the edge's store id. Its adjacency lists hold the edges newest first: `FirstOut`, `NextOut`, and the same for in-edges.
- `tables` holds the four structures the proxy shares with its iterators through `Rc<RefCell<..>>`: `vertices`, `edges`, `mapV` (`map_vertices`) and `mapE` (`map_edges`).
- `nodes` and `relationships` are owned by the proxy alone.
- `iters` holds up to `NI` open `InEdges`/`OutEdges` iterators, each with the edges it has yielded.
- `ret` holds the answer of the last `get_node_ref`/`get_relationship_ref`.
- Dense indices are 0-based as in the code.

**Actions.**
- `GetNodeRef` (`get_node_ref` together with `add_node`/`add_vertex`). It includes the pad-then-`Vec::insert` and the rewrite of the map entry. `AddNode`/`AddRelationship` are the two helpers: they return the updated tables, the dense index and the padded, shifted vector.
- `GetRelationshipRef` (`get_relationship_ref` with `get_or_retrieve_vertex_data`, `add_relationship` and `add_edge`).
- `OpenEdges` (`out_edges`/`in_edges`).
- `NextEdge` (`InEdges::next`/`OutEdges::next`, known or fetched edge).
- `DropEdges`: the matcher leaves its loop.

**Properties.**
- `DenseTablesFaithful`: the maps are injective, and every dense record holds the data of the store id mapped to it. That includes each edge's endpoints as the `ProxyNodeId`s of `map_vertices`.
- `DenseIndexStable` (action property): a dense index never changes once given.
- `IteratorFaithful`: an iterator yields exactly its vertex's adjacency list, in order (spec.md scenario 5).
- `RefsCorrect`: a reference call (`get_node_ref` or `get_relationship_ref`) returns the item it was asked for.

**No fairness.** The proxy is passive: the matcher calls it.

**Runs.**

| Run | Bounds | Checks | Result |
|---|---|---|---|
| `proxy_nested` | 2 vertices, every repository of ≤ 2 edges in every creation order, 2 iterators at once, vectors ≤ 4 | `TypeOK`, `DenseTablesFaithful`, `IteratorFaithful`, `DenseIndexStable` | pass, 227,263 states |
| `proxy_refs` | 3 vertices, ≤ 2 edges, 1 iterator | `RefsCorrect` | **violation** (a node) |

Why these bounds are enough:
- Three items materialised out of dense order is the smallest case that exposes the `Vec::insert` shift.
- Two iterators cover the nested loops of `feasible` and `edge_exists_1`.
- `MaxTableLen` caps the growth of `nodes`/`relationships`, which the shift makes unbounded.

**Findings.** `add_node` (model.rs:423) pads and then calls `Vec::insert`, which shifts the later elements: `get_node_ref` then returns the wrong node, so the matcher's comparators see the wrong data. `add_relationship` (model.rs:439) has the same shift. `proxy_refs` shows the node case. With `NV = 2` and `RepoChoices <- MCRepos3`, the same property fails for a relationship: `get_relationship_ref(2)` returns relationship 1.

### BTreeNodeStore (with MCBTreeNodeStore)

Models `BTreeNodeStore` (`store/mod.rs`) on top of `NodeRecordPool` and `FreeCellIterator` (`store/pool.rs`).

**Variables.**
- `disk` is the records manager's sequence of node records. Record ids are 1-based; id 0 means "none", as in the code.
- A record has the flags `storage` (overflow storage record), `leaf`, `root` and `has_next`, the pointer `ptr`, and `NB_CELL` cells.
- A cell has `active`, `overflow` and `listptr` flags, `node_ptr`, `ocell` (the overflow cell pointer) and `data`. `data` is the payload as a reader gets it back: the key bytes before the NUL, or the pointer list.
- `header` holds the two header slots: the root pointer and the head of the free-cell list.
- `expected`, `written` and `aborted` are observations: the logical node last given to a successful `create`/`save` for each id, the id the last operation wrote, and whether it returned `None`.

**Actions.** Each store call is one step: it takes `&mut self`, so nothing interleaves with it. Its loops are recursive operators threaded through a record `s = [recs, pool, hdr, ok]`.
- `s.pool` is the operation's fresh `NodeRecordPool`.
- `ok` turns FALSE when the code returns `None`.
- `Commit` writes what `save_all_node_records` writes. `create_node_record` and the header are written through immediately, as in the code.

**Fault model.** The constant `IOMayFail` lets a records-manager `save` return an IO error. `save_all_node_records` (pool.rs:80-85) loops over the pool's `HashMap` and returns at the first failing save (`.ok()?`). The records saved before that failure can therefore be any subset of the pool, and only the whole pool counts as success (`SavedSets`, `SaveNodeRecords`). Failing loads and creates are not modelled. They return `None` after the same write-throughs that the store's own `None` paths already reach.

The actions:
- `LoadOrCreateRootNode`: `load_or_create_root_node` on an empty store.
- `Create(node)`: `create`. It runs `create_cell` for each cell (key and list fragments, `create_overflow_cells`, and the free-cell iterator with `load_or_create_free_cells_overflow_node`), then `create_node_record`, then `set_root_node_ptr`, then `save_all`.
- `Save(id, e)`: `save`. It runs `select_root_node`, `make_cells_change_log` (which replays the change log), `move_old_cell_records`, `update_node_record_cells_data_ptr` with `update_cell_data_ptrs`/`update_overflow_cells`/`disable_cell_records`, `create_new_records`, and then `save_all`.

The B-tree that calls the store is not in the tree. It is the environment: it retrieves a node and makes one edit (`EditsOf`). The edits are remove, add, append to a posting list, demote the root, or link a sibling.

**Abstractions.**
- `KEY_SIZE = 10` leaves room for exactly one 8-byte pointer per list cell (`PtrsPerCell = 1`, computed from the code's test at mod.rs 197 and 316). Keys of 1 and 12 bytes give one-fragment and two-fragment cells.
- `DisableCellRecords` is the identity, which is what the code does: `let mut curr_cell = nr.cells[..]` copies the cell, so `set_inactive` changes the copy (pool.rs:103).
- The records codec (`records.rs`) is not in the tree. Cells and records are kept at the level of their fields.

**Properties.**
- `TypeOK`.
- `ChainsWellFormed`: every overflow chain of a live cell visits each slot at most once, lies in storage records, holds only active cells, and ends.
- `FreeListWellFormed`: the free list from the header ends at 0 without a repeat and holds only storage records. Its head is 0 only while no storage record exists.
- `OtherNodesUntouched` (action property): an operation on one node never writes a slot that another node owns.
- `RemoveKeepsStore`: after any sequence of saves, two things hold. `retrieve_node` returns every node as it was last created or saved (`NodesRoundTrip`, spec.md 4.3, scenario 3). Every active storage slot belongs to a live chain (`NoOrphanCells`, spec.md 4.1, 4.4).
- `AbortKeepsNodes` (action property): an operation that returns `None` leaves every node the B-tree holds reading back as before. This is spec.md 4.4 and 6: an IO error aborts the operation, and partial writes never reach disk.

**No fairness, and `CHECK_DEADLOCK FALSE`.** The store is passive, and the bounds (`MaxRecords`) end every behaviour.

**Runs.**

| Run | Bounds | Checks | Result |
|---|---|---|---|
| `store_edits` | `NB_CELL = 2`, ≤ 4 records, one-cell leaves and interiors with short and long keys, remove/add/append saves, `IOMayFail = FALSE` | `TypeOK`, `ChainsWellFormed`, `FreeListWellFormed`, `OtherNodesUntouched` | pass, 94,614 states |
| `store_remove` | one-cell nodes with short and long keys and two-cell interiors, remove | `RemoveKeepsStore` | **violation**, 32 states |
| `store_io_abort` | one-cell leaves with short keys, appends, `IOMayFail = TRUE` | `AbortKeepsNodes` | **violation**, 4 states |

Why these bounds are enough: two slots per record force a two-fragment cell to put its overflow cell in a storage record that other cells share. Four records allow a node, a storage record that fills up, and a second storage record that the free list must link.

**Findings** (PROJECT.json "findings"):
- `move_old_cell_records` (mod.rs:429) never deactivates the slots past the new cell count. After `remove(0)` on a two-cell node, both slots hold the old second cell. `store_remove` reports the leak below, whose trace is shorter. To see this bug, run it with `Keys <- MCShortKeys` and `NodeChoices <- TwoCellInteriors`.
- The cycle check of `load_overflow_cell_records` (mod.rs:275) compares only cell indices. The reload test at mod.rs:282 compares `curr_node_id` with the value just copied into it, so the walk never leaves the first record. After three appends to one list, the chain is read as 0→1→0 inside one record, and `retrieve_node` never returns. `RemoveKeepsStore` fails this way through `NodesRoundTrip`, whose `RetrieveOk` excludes an endless read. To see it, run `store_remove` with `Keys <- MCShortKeys`, `NodeChoices <- OneCellLeaves`, `Edits = {"append"}` and `MaxListLen = 4`.
- `disable_cell_records` (pool.rs:103) marks a copy inactive (`store_remove`), so removed cells and shortened lists never give their overflow slots back.
- IO errors are not rolled back (`store_io_abort`, a spec/code divergence):
  - `create_node_record` and the two header pointers write through before `save_all`.
  - `save_all_node_records` leaves behind whatever it saved before the failing save.
  - In the trace, a leaf with the list [1] gets an append save. `save_all` writes overflow storage record 2, then fails on the leaf's own record. `save` returns `None`, yet the leaf now reads back [1, 1].
  - spec.md 4.4 and 6 say the pool is dropped without `save_all` on an IO error.

Other disagreements met while modelling, not recorded as runs (each would need its own violation run):
- The missed reload at mod.rs:282 also makes a chain that crosses into a second storage record read the wrong record's cells. `RemoveKeepsStore` fails on this after two creates of long-key leaves (`NodeChoices <- OneCellLeaves`, `Edits = {}`, `MaxRecords = 6`).
- `update_cell_data_ptrs` refills the existing list fragments from the last one (`list_ptr_cells.pop()`, mod.rs:310).
- `save` (mod.rs:467) never writes the node's sibling pointer, so a `link` edit is lost.

### LegacyBaseState

Models the older generic `BaseState` of `src/matcher/vf2/base_state.rs`.

**Variables.**
- `E` is the graph `graph_0`.
- `bs` is the BaseState. `NoEntry` stands for a key absent from a `HashMap`. The usize counters are kept as Int, so a negative value `-k` is the wrapped `2^64 - k` of a release build.
- `pushed` is the driver's stack.
- `saved` is a history variable: the BaseState before each open push.

**Actions.**
- `Push(v0, v1)` is `push`: v0's own entries, then the ancestor loop, then the successor loop (`PushSelf`, `PushAncestors`, `PushSuccessors`).
- `Pop` is `pop` of the vertex pushed last. It applies the four reset blocks in code order (`PopInSelf`, `PopInEdges`, `PopOutSelf`, `PopOutEdges`), stores 0 where the newer code removes the entry, and has the `core_count = 0` early return.
- The file has no constructor and no driver in the tree. Both come from spec.md 4.6: push an unmapped vertex, pop the last pushed.

**Property.** `PopRestoresPush` (action property): a pop restores every map (reading 0 and absent alike, as `in_depth`/`out_depth` do) and every counter to its value before the matching push.

It cannot see the stored 0 at base_state.rs:66. Because of that 0, a later push of the vertex skips its entries (`contains_key`), but that skipped push and its pop are both no-ops, so the state is still restored. The harm would show only in the candidates the legacy driver picks, and that driver is not in the tree.

**Run.** `legacy_pop` (N = 2, every graph): **violation** after `push(1, 1)` and `pop(1, 1)` on the graph with no edges: the first pop of any vertex is enough. `term_both_count` becomes usize −1 because `pop` decrements it in the in-self block and again in the out-self block (base_state.rs:92). The successor block also tests `in_map` where `out_map` is meant (line 99).

### KernelGraph

Models the in-memory graph of `orange-db-kernel` (`src/graph/mod.rs`), used for patterns.

**Variables.**
- `nodes` holds the `VertexData` records: the heads of the out-list and the in-list.
- `edges` holds the `EdgeData` records: the endpoints and the two next links.
- Indices are 0-based as in the code.

**Actions.**
- `AddVertex`.
- `AddEdge(s, t)`: the new edge points at the current heads, then becomes both heads. It covers self-loops and parallel edges.

**Iterators.** `OutEdges`, `InEdges`, `Successors` and `Ancestors` are operators: the iterators borrow the graph, so nothing changes while one is open. `Walk` follows a list with fuel, and a cycle shows up as a trailing `NoEdge`.

**Property.** `IteratorsFaithful`: after any sequence of additions, each iterator yields exactly the edges leaving (entering) the vertex, newest first, and ends. This is the order `test_small_graph_it` asserts.

**Run.** `kernel_lists`: ≤ 3 vertices, ≤ 4 edges, `CHECK_DEADLOCK FALSE` because the bounds end every behaviour. It passes with 7,728 states.

### TxDispatch (with MCTxDispatch)

Models `handle_graph_request` (`one-graph-tx-handler/src/lib.rs`, the whole file). The gremlin handler (`zawgl-gremlin/src/handler/mod.rs:66-75`) calls it once per request, with a `TxContext { session_id, commit }` or `None`.

**Assumptions about code that is not in the tree.**
- `tx_handler.lock()` returns a guard with no `unwrap`, and its result is `borrow_mut()`-ed. So it is taken to be a re-entrant mutex around a `RefCell`: the thread that holds it takes it again, and any other thread waits.
- The guard `tx_lock` lives to the end of the call, including the recursive call of the `WaitForCurrentTx` arm.
- `get_session_status` (spec.md 5): no context gives `NoTx`. With no open transaction, the result is `OpenNewTx`, and the session becomes the current one. A context of the current session gives `CommitCurrentTx` or `ContinueCurrentTx`, depending on `commit`. A context of another session gives `WaitForCurrentTx`, the only status without a context.
- `acquire_session_lock` blocks while the lock is held. `release_session_lock` frees it and ends the current transaction.

**Variables.**
- `pc`: where each connection's thread is.
- `sent`: how many of its requests it has sent.
- `depth`: the `tx_lock` guards it holds. The lock is free when every depth is 0.
- `current` and `sessionLocked`: the handler's state.

**Actions.** There is one per step of the function:
- `Lock` (line 23);
- `GetSessionStatus` (line 24);
- `AcquireToOpen` (lines 26-30);
- `RunRequest` (line 31 and lines 41-47);
- `CommitCurrentTx` (lines 32-36);
- `AcquireToRetry` (lines 37-40; it loops back to `Lock`);
- `Return`.

`Send` is the client sending its next request.

**Fairness.** There is weak fairness on each connection's steps: the OS schedules every thread, and a released lock is eventually granted. Weak fairness on `Send` means that a client with an open transaction eventually sends the rest of it, including its commit.

**Property.** `RequestsComplete`: every request sent is eventually answered. It is the progress that spec.md 5 demands of `WaitForCurrentTx` ("MUST ... yield to allow other sessions to progress").

**Run.** `tx_wait_deadlock` uses three connections:
- session `s1` sends open, continue and commit;
- session `s2` sends open and commit;
- the third sends one request with no session.

It has `CHECK_DEADLOCK FALSE` because the clients run out of requests. TLC reports a **violation** in 333 states. `s2` opens its transaction and returns. Then `s1`'s request takes `tx_lock`, gets `WaitForCurrentTx` and blocks in `acquire_session_lock` with the guard held. `s2`'s commit, the only step that can release the session lock, then waits on `tx_lock` forever.

**Finding** (spec_code_divergence, lib.rs:38): the wait arm must not hold `tx_lock` while it blocks. Under these assumptions the recursion at line 39 is never even reached.

### WhereClause (with MCWhereClause)

Models `where_clause_parser_delegate.rs`, the parser of the WHERE clause of a Cypher query.

**The parser.** Each parse function is a recursive operator. It takes the token sequence and the index, and returns `[ok, tree, i]`; `ok = FALSE` is `Err(SyntaxError)`.
- `ParseWhereClause` is `parse_where_clause`.
- `ParseBooleanExpression` is `parse_boolean_expression`, with `ThenOperator` and `ThenClose` for its tails.
- `ParseBooleanOperator` is `parse_boolean_operator`, split into `AndWith` (with the rotation at lines 44-48) and `OrWith`.
- `ParseBooleanExpressionTerminal` is `parse_boolean_expression_terminal`.
- `Node`, `Leaf` and `Append1` are the AST's `AstTagNode`, `AstTokenNode` and `append`.

`Parser` (`check`, `advance`, `require`, `get_current_token_type`) is in `parser/mod.rs`, which is not in the tree; `Tok` reads the token at the index. A token is its type and the number of the comparison it belongs to, which stands for its text.

**Inputs.** The variable `input` is a formula, chosen once.
- A formula is built from comparisons with AND, OR and parentheses, with at most `MaxAtoms` comparisons.
- `Render` writes it as a WHERE clause with Cypher's precedence: AND binds tighter than OR, and an OR operand of an AND is put in parentheses.
- `AtomForms` says whether each side of `=` is a property `n.p` or a literal.
- Calls (`id(m) = $mid`) are left out: `parse_function_definition` is not in the tree.

**Property.** `ParseFaithful` says three things of the parse of every input:
- the whole clause is consumed;
- every operator has two operands;
- the tree evaluates as the formula does, for every truth value of the comparisons (`Eval` against `EvalF`).

**Run.** `where_precedence` uses three comparisons of the form `n.p = literal` and at most three per clause (903 inputs). TLC reports a **violation** at once, on the input `(n.p = 1 AND (n.p = 1 OR n.p = 2))`.

**Finding** (code_bug, where_clause_parser_delegate.rs:44): when the right operand of an AND parses to an `OrOperator`, the AND is moved onto the OR's first child. This is meant to make AND bind tighter than OR, but the tag does not record parentheses.
- `a AND (b OR c)` becomes `c OR (a AND b)`.
- The rotation also applies to an OR that a deeper AND has already rotated. So `a AND b AND c OR d`, with no parentheses, becomes `(b AND c) OR (a AND d)`; TLC shows this with four comparisons.
- Among the 903 inputs, the failures are exactly the clauses with an OR operand on the right of an AND. The other defects are kept out of this run.

The same property also catches two defects that this run keeps out of its inputs (PROJECT.json "hazards"):
- a property on the right of `=` is never appended (line 80): use `AtomForms` with `rhs = "prop"`;
- a literal on the left is consumed and dropped (lines 102-129): use `lhs = "lit"`.

## 4. Not modelled

- **Codec (C3) and records manager (C1):** not in the tree. Records are kept at the level of their fields, and the manager is a sequence of records.
- **Repository (C6):** external. The proxy reads it as a fixed input that always resolves.
- **`match()` driver:** not in the tree. VF2Match models it from spec.md 4.6 (spec_modelled in PROJECT.json).
- **The rest of the Cypher front end:** the driver (`parser/mod.rs`, the lexer, the MATCH/CREATE/RETURN delegates, `walk_ast`) is not in the tree. So nothing in the tree reaches the visitor of `query_engine/mod.rs` or `AstTagNode::accept`. Both are a syntax-directed conversion of an AST into request steps.
- **Gremlin:** the step state machine (`gremlin_state.rs` and the other states) is not in the tree. What is left (`gremlin.rs`, `handler/utils.rs`) converts JSON to steps. `handle_gremlin_request` builds the step context (`ctx`) and then calls `handle_graph_request` with an empty request list (`handler/mod.rs:73`), so a Gremlin query never reaches the matcher. TxDispatch models that call with the request run as one step.
- **`from_step`, `properties_store`, the `utils` tool:** data conversion with no shared state.
- **Older copy of the pool (`one-graph-core/.../pool.rs`):** the same code as the zawgl-core pool, minus the free-list functions.
- **`TxHandler` (`tx_handler.rs`), `TxContext`, `RequestHandler`:** not in the tree. TxDispatch models the handler's session status and session lock from spec.md 5 (spec_modelled in PROJECT.json). The query that a request runs is one step, because no other request runs while `tx_lock` is held.
- **The early orange-db-core store** (`node_store.rs`, `b_tree.rs`, `model.rs`): nothing in the tree writes its records. `BTreeIndex::insert` is an empty stub, and the layout constants of `config.rs` are missing. So `search` either fails to load record 0 and returns `None`, or reads a node with no active cells and panics. Its flag tests are written `header & FLAG == 1`, that is `(header & FLAG) == 1`. With the flags `0x80` and `0x40`, the masked value is never 1, so `is_active`, `has_overflow` and `is_leaf` are always false. Then `retrieve_node` returns no cells, and `tree_search` indexes `cells[0]` of an empty node. Two more bugs show the code is unfinished: `append_key` drops the bytes it extracts, and `load_overflow_cells` compares `curr_node_id` with the value just assigned to it, so it never loads the next node. A model would only restate these dead paths.

See `PROJECT.json` "components" for the per-part status and "hazards" for the hazards each property covers or the reason none does.
