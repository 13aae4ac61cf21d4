------------------------------ MODULE VF2Match ------------------------------
(***************************************************************************)
(* The VF2 subgraph matcher of zawgl-core (matcher/vf2/state.rs) driven by *)
(* the recursive backtracking loop of spec.md section 4.6.                 *)
(*                                                                         *)
(* Both sides keep a BaseState: core_map, in_map, out_map, core_count and  *)
(* the three terminal counters.  A map value 0 stands for "no entry": the  *)
(* code only ever stores core_count after incrementing it, so stored       *)
(* depths are >= 1.  Vertices are 1..NP (pattern) and 1..NT (target),     *)
(* the domains of the two graphs' label functions, so 0 is also the       *)
(* "unmapped" value of core_map.                                           *)
(*                                                                         *)
(* The pattern graph pg and the target graph tg are inputs: Init picks     *)
(* them from PatternChoices and TargetChoices and no action changes them.  *)
(* Edges are <<source, target>> pairs (self-loops allowed); a vertex label *)
(* stands for the vertex comparator's verdict and edge comparison is      *)
(* abstracted to existence (one edge label).                               *)
(***************************************************************************)
EXTENDS Naturals, FiniteSets, Sequences, FiniteSetsExt, Functions

CONSTANTS
    PatternChoices,   \* set of [edges, label] records, label over 1..n
    TargetChoices     \* set of [edges, label] records, label over 1..m

ASSUME \A g \in PatternChoices \cup TargetChoices :
           DOMAIN g.label = 1 .. Cardinality(DOMAIN g.label)

VARIABLES
    pg, tg,         \* the pattern graph (graph_0) and the target graph (graph_1)
    bs0, bs1,       \* base_state_0 (pattern side) and base_state_1 (target side)
    stack,          \* recursion frames of match(): [v, next] per depth
    phase,          \* "call" | "loop" | "return" | "done"
    emitted         \* log of the mappings handed to the callback

vars == <<pg, tg, bs0, bs1, stack, phase, emitted>>

(* The vertices of graph_0 and graph_1 and their numbers. *)
PNodes == DOMAIN pg.label
TNodes == DOMAIN tg.label
NP == Cardinality(PNodes)
NT == Cardinality(TNodes)

-----------------------------------------------------------------------------
(* BaseState::new *)
EmptyBaseState(N) ==
    [core_map |-> [x \in N |-> 0], in_map |-> [x \in N |-> 0],
     out_map |-> [x \in N |-> 0], core_count |-> 0,
     term_in_count |-> 0, term_out_count |-> 0, term_both_count |-> 0]

Preds(E, x) == {e[1] : e \in {f \in E : f[2] = x}}
Succs(E, x) == {e[2] : e \in {f \in E : f[1] = x}}

(* Mutants of the insert blocks: the depth recorded one too high, and the *)
(* term_both increment dropped.                                           *)
InsertInAtNextDepth(x, bs) ==
    IF bs.in_map[x] # 0 THEN bs
    ELSE [bs EXCEPT !.in_map[x] = bs.core_count + 1,
                    !.term_in_count = @ + 1,
                    !.term_both_count = @ + (IF bs.out_map[x] # 0 THEN 1 ELSE 0)]
InsertInKeepBoth(x, bs) ==
    IF bs.in_map[x] # 0 THEN bs
    ELSE [bs EXCEPT !.in_map[x] = bs.core_count, !.term_in_count = @ + 1]
InsertOutAtNextDepth(x, bs) ==
    IF bs.out_map[x] # 0 THEN bs
    ELSE [bs EXCEPT !.out_map[x] = bs.core_count + 1,
                    !.term_out_count = @ + 1,
                    !.term_both_count = @ + (IF bs.in_map[x] # 0 THEN 1 ELSE 0)]

(* One "if !in_map.contains_key(x) { insert; term_in_count += 1; ... }"   *)
(* block of push_state_0/1.                                               *)
InsertIn(x, bs) ==
    IF bs.in_map[x] # 0 THEN bs
    ELSE [bs EXCEPT !.in_map[x] = bs.core_count,
                    !.term_in_count = @ + 1,
                    !.term_both_count = @ + (IF bs.out_map[x] # 0 THEN 1 ELSE 0)]

InsertOut(x, bs) ==
    IF bs.out_map[x] # 0 THEN bs
    ELSE [bs EXCEPT !.out_map[x] = bs.core_count,
                    !.term_out_count = @ + 1,
                    !.term_both_count = @ + (IF bs.in_map[x] # 0 THEN 1 ELSE 0)]

(* Mutant: the successor loop of push_state left out. *)
PushStateNoSuccs(bs, E, v0, v1) ==
    LET s0 == [bs EXCEPT !.core_count = @ + 1, !.core_map[v0] = v1]
    IN  FoldSet(InsertIn, InsertOut(v0, InsertIn(v0, s0)), Preds(E, v0))

(* push_state_0 / push_state_1: v0 itself, then its ancestors (in_edges),  *)
(* then its successors (out_edges).                                       *)
PushState(bs, E, v0, v1) ==
    LET s0 == [bs EXCEPT !.core_count = @ + 1, !.core_map[v0] = v1]
        s1 == InsertOut(v0, InsertIn(v0, s0))
        s2 == FoldSet(InsertIn, s1, Preds(E, v0))
    IN  FoldSet(InsertOut, s2, Succs(E, v0))

(* push_state_1 is a copy of push_state_0 over graph_1 (the proxy). *)
PushState1(bs, E, v0, v1) == PushState(bs, E, v0, v1)

(* Mutants of the remove blocks: any recorded entry removed whatever its   *)
(* depth, and the term_both decrement dropped.                           *)
RemoveInAnyDepth(x, bs) ==
    IF bs.in_map[x] # 0
    THEN [bs EXCEPT !.in_map[x] = 0,
                    !.term_in_count = @ - 1,
                    !.term_both_count = IF bs.out_map[x] # 0 /\ @ > 0 THEN @ - 1 ELSE @]
    ELSE bs
RemoveOutKeepBoth(x, bs) ==
    IF bs.out_map[x] # 0 /\ bs.out_map[x] = bs.core_count
    THEN [bs EXCEPT !.out_map[x] = 0, !.term_out_count = @ - 1]
    ELSE bs

(* One "if in_map[x] == core_count { remove; term_in_count -= 1; ... }"    *)
(* block of pop_state_0/1.                                                *)
RemoveIn(x, bs) ==
    IF bs.in_map[x] # 0 /\ bs.in_map[x] = bs.core_count
    THEN [bs EXCEPT !.in_map[x] = 0,
                    !.term_in_count = @ - 1,
                    !.term_both_count = IF bs.out_map[x] # 0 /\ @ > 0 THEN @ - 1 ELSE @]
    ELSE bs

RemoveOut(x, bs) ==
    IF bs.out_map[x] # 0 /\ bs.out_map[x] = bs.core_count
    THEN [bs EXCEPT !.out_map[x] = 0,
                    !.term_out_count = @ - 1,
                    !.term_both_count = IF bs.in_map[x] # 0 /\ @ > 0 THEN @ - 1 ELSE @]
    ELSE bs

(* pop_state_0 / pop_state_1: v0's in entry, its ancestors' in entries,    *)
(* v0's out entry, its successors' out entries, then the core entry.       *)
PopState(bs, E, v0) ==
    IF bs.core_count = 0 THEN bs
    ELSE LET s1 == FoldSet(RemoveIn, RemoveIn(v0, bs), Preds(E, v0))
             s2 == FoldSet(RemoveOut, RemoveOut(v0, s1), Succs(E, v0))
         IN  [s2 EXCEPT !.core_map[v0] = 0, !.core_count = @ - 1]

(* pop_state_1 is a copy of pop_state_0 over graph_1. *)
PopState1(bs, E, v0) == PopState(bs, E, v0)

-----------------------------------------------------------------------------
(* feasible(v_new, w_new) and its helpers.                                 *)

(* The vertex comparator supplied by the query driver. *)
VComp(v, w) == pg.label[v] = tg.label[w]

(* inc_counters_match_edge_0 on a mapped (or self) neighbour u: the image  *)
(* of u is core(u), or w_new itself for a self-loop; edge_exists_1 then    *)
(* looks for the corresponding target edge.                                *)
Image(u, v, w) == IF u # v /\ bs0.core_map[u] # 0 THEN bs0.core_map[u] ELSE w

MappedOrSelf(u, v) == bs0.core_map[u] # 0 \/ u = v

(* edge_exists_1: an out-edge of x in the target reaches y and is not in   *)
(* matched_edge_set; with one edge label and a set of edges, existence.   *)
EdgeExists1(x, y) == <<x, y>> \in tg.edges

(* Mutant: the out_edges loop of feasible left out. *)
CoreInEdgesOnly(v, w) ==
    \A e \in {f \in pg.edges : f[2] = v} :
        MappedOrSelf(e[1], v) => EdgeExists1(Image(e[1], v, w), w)

CoreEdgesMatch(v, w) ==
    /\ \A e \in {f \in pg.edges : f[2] = v} :
          MappedOrSelf(e[1], v) => EdgeExists1(Image(e[1], v, w), w)
    /\ \A e \in {f \in pg.edges : f[1] = v} :
          MappedOrSelf(e[2], v) => EdgeExists1(w, Image(e[2], v, w))

(* The (edge, neighbour) pairs walked by the in_edges and out_edges loops. *)
NeighbourEdges(E, x) ==
    {<<e, e[1]>> : e \in {f \in E : f[2] = x}} \cup {<<e, e[2]>> : e \in {f \in E : f[1] = x}}

(* The term_in / term_out / rest counters of one side: neighbours that are *)
(* neither in the core nor x itself, per edge.                             *)
TermCounts(bs, E, x) ==
    LET open == {p \in NeighbourEdges(E, x) : bs.core_map[p[2]] = 0 /\ p[2] # x}
    IN  [in   |-> Cardinality({p \in open : bs.in_map[p[2]] > 0}),
         out  |-> Cardinality({p \in open : bs.out_map[p[2]] > 0}),
         rest |-> Cardinality({p \in open : bs.in_map[p[2]] = 0 /\ bs.out_map[p[2]] = 0})]

(* Mutants of feasible: the core-edge check dropped, and a strict rest    *)
(* comparison.                                                            *)
FeasibleNoEdgeCheck(v, w) ==
    LET c0 == TermCounts(bs0, pg.edges, v)
        c1 == TermCounts(bs1, tg.edges, w)
    IN  /\ VComp(v, w)
        /\ c0.in <= c1.in /\ c0.out <= c1.out /\ c0.rest <= c1.rest
Feasible(v, w) ==
    LET c0 == TermCounts(bs0, pg.edges, v)
        c1 == TermCounts(bs1, tg.edges, w)
    IN  /\ VComp(v, w)
        /\ CoreEdgesMatch(v, w)
        /\ c0.in <= c1.in /\ c0.out <= c1.out /\ c0.rest <= c1.rest

-----------------------------------------------------------------------------
(* Candidate selection: term_in()/term_out()/term_both() and the vertex    *)
(* tests, and possible_candidate_0/1.                                     *)
TermIn(bs)   == bs.core_count < bs.term_in_count
TermOut(bs)  == bs.core_count < bs.term_out_count
TermBoth(bs) == bs.core_count < bs.term_both_count

TermInVertex(bs, x)   == bs.in_map[x] > 0 /\ bs.core_map[x] = 0
TermOutVertex(bs, x)  == bs.out_map[x] > 0 /\ bs.core_map[x] = 0
TermBothVertex(bs, x) == bs.in_map[x] > 0 /\ bs.out_map[x] > 0 /\ bs.core_map[x] = 0

PossibleCandidate(bs, x) ==
    IF TermBoth(bs0) /\ TermBoth(bs1) THEN TermBothVertex(bs, x)
    ELSE IF TermOut(bs0) /\ TermOut(bs1) THEN TermOutVertex(bs, x)
    ELSE IF TermIn(bs0) /\ TermIn(bs1) THEN TermInVertex(bs, x)
    ELSE bs.core_map[x] = 0

Success == bs0.core_count = NP

(* The pattern vertex match() extends: the first one in index order. *)
ChooseV == Min({v \in PNodes : PossibleCandidate(bs0, v)})

Mapping == [v \in PNodes |-> bs0.core_map[v]]

-----------------------------------------------------------------------------
Init ==
    /\ pg \in PatternChoices
    /\ tg \in TargetChoices
    /\ bs0 = EmptyBaseState(PNodes)
    /\ bs1 = EmptyBaseState(TNodes)
    /\ stack = <<>>
    /\ phase = "call"
    /\ emitted = <<>>

Top == stack[Len(stack)]

(* match(): a complete core is handed to the callback. *)
Emit ==
    /\ phase = "call"
    /\ Success
    /\ emitted' = Append(emitted, Mapping)
    /\ phase' = "return"
    /\ UNCHANGED <<pg, tg, bs0, bs1, stack>>

(* match(): choose the pattern vertex and open its candidate loop. *)
Descend ==
    /\ phase = "call"
    /\ ~Success
    /\ stack' = Append(stack, [v |-> ChooseV, next |-> 1])
    /\ phase' = "loop"
    /\ UNCHANGED <<pg, tg, bs0, bs1, emitted>>

(* State::push(v0, v1) *)
Push(v, w) ==
    /\ bs0' = PushState(bs0, pg.edges, v, w)
    /\ bs1' = PushState1(bs1, tg.edges, w, v)

(* Mutant: pop undoes the pattern side only. *)
PopPatternSideOnly(v) ==
    IF bs0.core_map[v] # 0
    THEN /\ bs0' = PopState(bs0, pg.edges, v)
         /\ UNCHANGED bs1
    ELSE UNCHANGED <<bs0, bs1>>

(* State::pop(v0, _v1) *)
Pop(v) ==
    IF bs0.core_map[v] # 0
    THEN /\ bs0' = PopState(bs0, pg.edges, v)
         /\ bs1' = PopState1(bs1, tg.edges, bs0.core_map[v])
    ELSE UNCHANGED <<bs0, bs1>>

(* The loop tries target w: a candidate of the same class that is         *)
(* feasible is pushed and match() recurses.                               *)
TryCandidate ==
    /\ phase = "loop"
    /\ Top.next <= NT
    /\ LET w == Top.next IN
         /\ PossibleCandidate(bs1, w) /\ Feasible(Top.v, w)
         /\ Push(Top.v, w)
    /\ stack' = [stack EXCEPT ![Len(stack)].next = @ + 1]
    /\ phase' = "call"
    /\ UNCHANGED <<pg, tg, emitted>>

SkipCandidate ==
    /\ phase = "loop"
    /\ Top.next <= NT
    /\ LET w == Top.next IN ~(PossibleCandidate(bs1, w) /\ Feasible(Top.v, w))
    /\ stack' = [stack EXCEPT ![Len(stack)].next = @ + 1]
    /\ UNCHANGED <<pg, tg, bs0, bs1, phase, emitted>>

(* All targets tried: match() returns to its caller. *)
ExhaustFrame ==
    /\ phase = "loop"
    /\ Top.next > NT
    /\ stack' = SubSeq(stack, 1, Len(stack) - 1)
    /\ phase' = "return"
    /\ UNCHANGED <<pg, tg, bs0, bs1, emitted>>

(* Back in the caller's loop: pop(v) undoes the push of that frame. *)
Backtrack ==
    /\ phase = "return"
    /\ stack # <<>>
    /\ Pop(Top.v)
    /\ phase' = "loop"
    /\ UNCHANGED <<pg, tg, stack, emitted>>

Finish ==
    /\ phase = "return"
    /\ stack = <<>>
    /\ phase' = "done"
    /\ UNCHANGED <<pg, tg, bs0, bs1, stack, emitted>>

Next ==
    \/ Emit \/ Descend
    \/ TryCandidate \/ SkipCandidate \/ ExhaustFrame
    \/ Backtrack \/ Finish

(* match() runs on one thread and every step is enabled until it returns. *)
Spec == Init /\ [][Next]_vars

-----------------------------------------------------------------------------
(* Reference definition: every injective, label-preserving map of the      *)
(* pattern into the target that carries each pattern edge onto a target   *)
(* edge.                                                                   *)
IsEmbedding(f) ==
    /\ IsInjective(f)
    /\ \A v \in PNodes : pg.label[v] = tg.label[f[v]]
    /\ \A e \in pg.edges : <<f[e[1]], f[e[2]]>> \in tg.edges

Embeddings == {f \in [PNodes -> TNodes] : IsEmbedding(f)}

BaseStateType(N, M) ==
    [core_map : [N -> {0} \cup M], in_map : [N -> 0 .. Cardinality(N)],
     out_map : [N -> 0 .. Cardinality(N)], core_count : 0 .. Cardinality(N),
     term_in_count : Nat, term_out_count : Nat, term_both_count : Nat]

TypeOK ==
    /\ bs0 \in BaseStateType(PNodes, TNodes)
    /\ bs1 \in BaseStateType(TNodes, PNodes)
    /\ phase \in {"call", "loop", "return", "done"}
    /\ stack \in Seq([v : PNodes, next : 1 .. NT + 1])
    /\ \A i \in 1 .. Len(emitted) : emitted[i] \in [PNodes -> TNodes]

(* The pattern vertices pushed by the open frames, in depth order, and    *)
(* their images.                                                           *)
Pushed0 == [i \in 1 .. bs0.core_count |-> stack[i].v]
Pushed1 == [i \in 1 .. bs0.core_count |-> bs0.core_map[stack[i].v]]

(* The VF2 definition of a terminal entry: the first depth at which x was *)
(* pushed or became an ancestor (resp. successor) of a pushed vertex.      *)
FirstDepth(s, x, Adj(_)) ==
    LET D == {i \in 1 .. Len(s) : x = s[i] \/ x \in Adj(s[i])}
    IN  IF D = {} THEN 0 ELSE Min(D)

SideExact(bs, E, s) ==
    /\ bs.core_count = Len(s)
    /\ \A x \in DOMAIN bs.in_map :
          /\ bs.in_map[x]  = FirstDepth(s, x, LAMBDA y : Preds(E, y))
          /\ bs.out_map[x] = FirstDepth(s, x, LAMBDA y : Succs(E, y))

(* Invariant: after any interleaving of push(v, w) and the pops of the    *)
(* backtracking loop, every in_map/out_map entry on both sides holds the  *)
(* depth at which its vertex entered the terminal set, and no entry is    *)
(* left behind by a pop (push_state_0/1, pop_state_0/1).                  *)
TerminalSetsExact ==
    /\ SideExact(bs0, pg.edges, Pushed0)
    /\ SideExact(bs1, tg.edges, Pushed1)

CountersMatch(bs) ==
    /\ bs.core_count = Cardinality({x \in DOMAIN bs.core_map : bs.core_map[x] # 0})
    /\ bs.term_in_count = Cardinality({x \in DOMAIN bs.in_map : bs.in_map[x] # 0})
    /\ bs.term_out_count = Cardinality({x \in DOMAIN bs.out_map : bs.out_map[x] # 0})
    /\ bs.term_both_count =
         Cardinality({x \in DOMAIN bs.in_map : bs.in_map[x] # 0 /\ bs.out_map[x] # 0})

(* Invariant: the incremental counters term_in/out/both_count, which      *)
(* drive the candidate class in possible_candidate_0/1, always equal the  *)
(* sizes of the sets they count, and the two core maps mirror each other. *)
CountersExact ==
    /\ CountersMatch(bs0)
    /\ CountersMatch(bs1)
    /\ \A v \in PNodes : bs0.core_map[v] # 0 => bs1.core_map[bs0.core_map[v]] = v
    /\ \A w \in TNodes : bs1.core_map[w] # 0 => bs0.core_map[bs1.core_map[w]] = w

(* Invariant: every mapping handed to the callback is a subgraph          *)
(* embedding of the pattern into the target (feasible + push).            *)
MatchesSound == \A i \in 1 .. Len(emitted) : IsEmbedding(emitted[i])

(* The promise of spec.md 4.6: the matcher enumerates exactly the          *)
(* embeddings, each once.                                                  *)
Enumeration == INSTANCE MatchEnumeration
    WITH matches <- Embeddings, log <- emitted, finished <- (phase = "done")

(* Property: the matcher implements the abstract enumeration of all       *)
(* embeddings (soundness, no duplicates, completeness on return).         *)
EnumeratesAllMatches == Enumeration!Spec
=============================================================================
