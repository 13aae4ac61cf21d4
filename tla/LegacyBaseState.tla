--------------------------- MODULE LegacyBaseState ---------------------------
(***************************************************************************)
(* The older VF2 BaseState of src/matcher/vf2/base_state.rs: one side of  *)
(* the matcher state over the graph graph_0, with push(v0, v1) and         *)
(* pop(v0, v1).  The file has no driver in the tree; the matcher of        *)
(* spec.md 4.6 pushes an unmapped vertex and later pops that same vertex,  *)
(* last pushed first, and that is the driver modelled here.                *)
(*                                                                         *)
(* The maps are HashMaps, so a key can be absent or present with value 0:  *)
(* pop() stores 0 where the newer code removes the entry.  NoEntry stands  *)
(* for an absent key.  The counters are usize: a value -k stands for the   *)
(* wrapped 2^64 - k of a release build (a debug build panics there).       *)
(***************************************************************************)
EXTENDS Integers, FiniteSets, Sequences

CONSTANTS
    N,          \* graph_0 has the vertices 1..N
    Targets     \* the target vertices v1 that push() records in core_map

V == 1 .. N

NoEntry == -1

ASSUME N \in Nat \ {0} /\ Targets \subseteq Nat /\ NoEntry \notin Targets

VARIABLES
    E,          \* the edges <<source, target>> of graph_0, fixed at Init
    bs,         \* the BaseState record
    pushed,     \* the driver's stack of pushed <<v0, v1>>
    saved       \* history: the BaseState before each open push

vars == <<E, bs, pushed, saved>>

Has(m, x) == m[x] # NoEntry

Preds(x) == {e[1] : e \in {f \in E : f[2] = x}}
Succs(x) == {e[2] : e \in {f \in E : f[1] = x}}

EmptyBaseState ==
    [core_map |-> [x \in V |-> NoEntry],
     in_map |-> [x \in V |-> NoEntry], out_map |-> [x \in V |-> NoEntry],
     core_count |-> 0,
     term_in_count |-> 0, term_out_count |-> 0, term_both_count |-> 0]

-----------------------------------------------------------------------------
(* push(): v0 enters both terminal sets if absent (the in-block first),    *)
(* then every absent ancestor enters in_map and, with in_map updated,      *)
(* every absent successor enters out_map.  Each block only touches its own *)
(* entry, so the loops over in_edges/out_edges are set updates.            *)
PushSelf(s, v0, v1) ==
    LET cc  == s.core_count + 1
        newIn  == ~Has(s.in_map, v0)
        im  == IF newIn THEN [s.in_map EXCEPT ![v0] = cc] ELSE s.in_map
        newOut == ~Has(s.out_map, v0)
    IN  [s EXCEPT
           !.core_count = cc,
           !.core_map[v0] = v1,
           !.in_map = im,
           !.out_map = IF newOut THEN [@ EXCEPT ![v0] = cc] ELSE @,
           !.term_in_count = @ + (IF newIn THEN 1 ELSE 0),
           !.term_out_count = @ + (IF newOut THEN 1 ELSE 0),
           !.term_both_count =
               @ + (IF newIn /\ Has(s.out_map, v0) THEN 1 ELSE 0)
                 + (IF newOut /\ Has(im, v0) THEN 1 ELSE 0)]

PushAncestors(s, v0) ==
    LET A == {a \in Preds(v0) : ~Has(s.in_map, a)}
    IN  [s EXCEPT
           !.in_map = [x \in V |-> IF x \in A THEN s.core_count ELSE @[x]],
           !.term_in_count = @ + Cardinality(A),
           !.term_both_count = @ + Cardinality({a \in A : Has(s.out_map, a)})]

PushSuccessors(s, v0) ==
    LET S == {t \in Succs(v0) : ~Has(s.out_map, t)}
    IN  [s EXCEPT
           !.out_map = [x \in V |-> IF x \in S THEN s.core_count ELSE @[x]],
           !.term_out_count = @ + Cardinality(S),
           !.term_both_count = @ + Cardinality({t \in S : Has(s.in_map, t)})]

PushState(s, v0, v1) ==
    PushSuccessors(PushAncestors(PushSelf(s, v0, v1), v0), v0)

(* pop(): four reset blocks in code order; a reset stores 0.  The self     *)
(* blocks decrement term_both_count when the other map merely has the     *)
(* key, and the successor block tests in_map where out_map is meant.      *)
PopInSelf(s, v0) ==
    IF s.in_map[v0] = s.core_count
    THEN [s EXCEPT !.in_map[v0] = 0, !.term_in_count = @ - 1,
                   !.term_both_count = @ - (IF Has(s.out_map, v0) THEN 1 ELSE 0)]
    ELSE s

PopInEdges(s, v0) ==
    LET A == {a \in Preds(v0) : s.in_map[a] = s.core_count}
    IN  [s EXCEPT
           !.in_map = [x \in V |-> IF x \in A THEN 0 ELSE @[x]],
           !.term_in_count = @ - Cardinality(A),
           !.term_both_count = @ - Cardinality({a \in A : Has(s.out_map, a)})]

PopOutSelf(s, v0) ==
    IF s.out_map[v0] = s.core_count
    THEN [s EXCEPT !.out_map[v0] = 0, !.term_out_count = @ - 1,
                   !.term_both_count = @ - (IF Has(s.in_map, v0) THEN 1 ELSE 0)]
    ELSE s

PopOutEdges(s, v0) ==
    LET T == {t \in Succs(v0) : s.in_map[t] = s.core_count}
    IN  [s EXCEPT
           !.out_map = [x \in V |-> IF x \in T THEN 0 ELSE @[x]],
           !.term_out_count = @ - Cardinality(T),
           !.term_both_count = @ - Cardinality({t \in T : Has(s.in_map, t)})]

PopState(s, v0) ==
    IF s.core_count = 0 THEN s
    ELSE LET p == PopOutEdges(PopOutSelf(PopInEdges(PopInSelf(s, v0), v0), v0), v0)
         IN  [p EXCEPT !.core_map[v0] = NoEntry, !.core_count = @ - 1]

-----------------------------------------------------------------------------
Init ==
    /\ E \in SUBSET (V \X V)
    /\ bs = EmptyBaseState
    /\ pushed = <<>>
    /\ saved = <<>>

(* The driver pushes an unmapped pattern vertex. *)
Push(v0, v1) ==
    /\ bs.core_map[v0] = NoEntry
    /\ bs' = PushState(bs, v0, v1)
    /\ pushed' = Append(pushed, <<v0, v1>>)
    /\ saved' = Append(saved, bs)
    /\ UNCHANGED E

(* The driver pops the vertex it pushed last. *)
Pop ==
    /\ pushed # <<>>
    /\ bs' = PopState(bs, pushed[Len(pushed)][1])
    /\ pushed' = SubSeq(pushed, 1, Len(pushed) - 1)
    /\ saved' = SubSeq(saved, 1, Len(saved) - 1)
    /\ UNCHANGED E

Next ==
    \/ \E v0 \in V, v1 \in Targets : Push(v0, v1)
    \/ Pop

Spec == Init /\ [][Next]_vars

-----------------------------------------------------------------------------
(* struct BaseState: the three maps and four counters; the counters are  *)
(* usize, so wrapped values are kept.                                      *)
BaseStateType ==
    [core_map : [V -> Targets \cup {NoEntry}],
     in_map : [V -> {NoEntry} \cup 0 .. N], out_map : [V -> {NoEntry} \cup 0 .. N],
     core_count : 0 .. N,
     term_in_count : Int, term_out_count : Int, term_both_count : Int]

TypeOK ==
    /\ E \subseteq V \X V
    /\ bs \in BaseStateType
    /\ Len(pushed) = Len(saved)

(* in_depth / out_depth: an absent key reads as 0, so an absent key and a *)
(* stored 0 both mean "not in the terminal set" (spec.md 4.6).             *)
Depth(m, x) == IF Has(m, x) THEN m[x] ELSE 0

SameBaseState(s, t) ==
    /\ s.core_map = t.core_map
    /\ \A x \in V : Depth(s.in_map, x) = Depth(t.in_map, x)
                    /\ Depth(s.out_map, x) = Depth(t.out_map, x)
    /\ s.core_count = t.core_count
    /\ s.term_in_count = t.term_in_count
    /\ s.term_out_count = t.term_out_count
    /\ s.term_both_count = t.term_both_count

(* Action property, spec.md 6 "terminal accounting": after push(v0, v1)   *)
(* and the matching pop(v0, v1), every counter and map of the BaseState   *)
(* is back at its value before the push, whatever was pushed and popped   *)
(* in between.                                                             *)
PopRestoresPush ==
    [][Pop => SameBaseState(bs', saved[Len(saved)])]_vars
=============================================================================
