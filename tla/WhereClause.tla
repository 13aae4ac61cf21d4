---------------------------- MODULE WhereClause ----------------------------
(***************************************************************************)
(* The WHERE-clause parser of zawgl-cypher                                 *)
(* (parser/where_clause_parser_delegate.rs): a recursive-descent parse of *)
(* a boolean expression into an AST of AndOperator, OrOperator and         *)
(* EqualityOperator nodes.  parse_boolean_operator gives AND precedence    *)
(* over OR by rotating the tree when the right operand of an AND is an OR. *)
(*                                                                         *)
(* The parser works on a token vector with an index (Parser::check,        *)
(* advance, require, get_current_token_type; parser/mod.rs is not in the   *)
(* tree): a parse function here takes the tokens and the index and returns *)
(* [ok, tree, i], ok = FALSE standing for Err(SyntaxError).  A token is    *)
(* its type and the number of the comparison it belongs to, which stands   *)
(* for its text.                                                           *)
(*                                                                         *)
(* The inputs are WHERE clauses rendered from every boolean formula of at  *)
(* most MaxAtoms comparisons, written with the usual Cypher precedence     *)
(* (AND binds tighter than OR, parentheses group).  Function calls are not *)
(* in the inputs: parse_function_definition is not in the tree.            *)
(***************************************************************************)
EXTENDS Naturals, Sequences

CONSTANTS
    AtomIds,    \* the comparisons a formula may use
    AtomForms,  \* operand kinds of a comparison: [lhs, rhs], each "prop" or "lit"
    MaxAtoms    \* the most comparisons in one formula

VARIABLE input  \* the formula whose WHERE clause is parsed

-----------------------------------------------------------------------------
(* The inputs and their meaning. *)

Atoms == [op : {"atom"}, id : AtomIds, form : AtomForms]

RECURSIVE Formulas(_)
Binary(n) ==
    UNION {{[op |-> o, l |-> f, r |-> g] : o \in {"and", "or"},
                                           f \in Formulas(k), g \in Formulas(n - k)}
           : k \in 1 .. n - 1}
(* The formulas of exactly n comparisons, a binary one also in parentheses. *)
Formulas(n) ==
    IF n = 1 THEN Atoms
    ELSE Binary(n) \cup {[op |-> "paren", e |-> b] : b \in Binary(n)}

Inputs == UNION {Formulas(n) : n \in 1 .. MaxAtoms}

RECURSIVE EvalF(_, _)
EvalF(f, A) ==
    CASE f.op = "atom"  -> A[f.id]
      [] f.op = "and"   -> EvalF(f.l, A) /\ EvalF(f.r, A)
      [] f.op = "or"    -> EvalF(f.l, A) \/ EvalF(f.r, A)
      [] f.op = "paren" -> EvalF(f.e, A)

Tk(type, v) == [type |-> type, val |-> v]

(* n.p is Identifier Dot Identifier; a literal is an Integer token. *)
Operand(kind, k) ==
    IF kind = "prop" THEN <<Tk("Identifier", k), Tk("Dot", k), Tk("Identifier", k)>>
    ELSE <<Tk("Integer", k)>>

AtomTokens(a) == Operand(a.form.lhs, a.id) \o <<Tk("Equals", a.id)>> \o Operand(a.form.rhs, a.id)

Parenthesised(ts) == <<Tk("OpenParenthesis", 0)>> \o ts \o <<Tk("CloseParenthesis", 0)>>

(* The text of a formula: an OR operand of an AND needs parentheses. *)
RECURSIVE Render(_)
Render(f) ==
    CASE f.op = "atom"  -> AtomTokens(f)
      [] f.op = "or"    -> Render(f.l) \o <<Tk("Or", 0)>> \o Render(f.r)
      [] f.op = "paren" -> Parenthesised(Render(f.e))
      [] f.op = "and"   ->
            (IF f.l.op = "or" THEN Parenthesised(Render(f.l)) ELSE Render(f.l))
            \o <<Tk("And", 0)>>
            \o (IF f.r.op = "or" THEN Parenthesised(Render(f.r)) ELSE Render(f.r))

Query == <<Tk("Where", 0)>> \o Render(input)

-----------------------------------------------------------------------------
(* The AST (zawgl-cypher-query-model ast/mod.rs): a tag node with its     *)
(* children, and a token node.                                             *)
Node(tag, kids) == [tag |-> tag, kids |-> kids, val |-> 0]
Leaf(tok) == [tag |-> "Token", kids |-> <<>>, val |-> tok.val]
Append1(node, kid) == [node EXCEPT !.kids = Append(@, kid)]

(* Parser::get_current_token_type, or EOF past the end. *)
Tok(ts, i) == IF i \in DOMAIN ts THEN ts[i].type ELSE "EOF"

R(tree, i) == [ok |-> TRUE, tree |-> tree, i |-> i]
Err == [ok |-> FALSE, tree |-> Node("None", <<>>), i |-> 0]

RECURSIVE ParseBooleanExpression(_, _), ParseBooleanOperator(_, _, _)

(* parse_boolean_expression_terminal: a literal is appended to the        *)
(* operator; n.p builds an ItemPropertyIdentifier that is never appended. *)
ParseBooleanExpressionTerminal(ts, i, parent) ==
    CASE Tok(ts, i) \in {"Integer", "Float", "True", "False", "StringType", "Parameter"} ->
            R(Append1(parent, Leaf(ts[i])), i + 1)
      [] Tok(ts, i) = "Identifier" /\ Tok(ts, i + 1) = "Dot" ->
            IF Tok(ts, i + 2) = "Identifier" THEN R(parent, i + 3) ELSE Err
      [] OTHER -> Err

(* An AND whose right operand parsed to an OR: the AND takes the OR's     *)
(* first child, and the OR keeps its other children followed by the AND.  *)
AndWith(prev, r) ==
    IF ~r.ok THEN r
    ELSE IF r.tree.tag = "OrOperator"
         THEN R(Node("OrOperator",
                     Tail(r.tree.kids) \o <<Node("AndOperator", <<prev, Head(r.tree.kids)>>)>>),
                r.i)
         ELSE R(Node("AndOperator", <<prev, r.tree>>), r.i)

OrWith(prev, r) ==
    IF ~r.ok THEN r ELSE R(Node("OrOperator", <<prev, r.tree>>), r.i)

(* parse_boolean_operator *)
ParseBooleanOperator(ts, i, prev) ==
    CASE Tok(ts, i) = "And" -> AndWith(prev, ParseBooleanExpression(ts, i + 1))
      [] Tok(ts, i) = "Or"  -> OrWith(prev, ParseBooleanExpression(ts, i + 1))
      [] OTHER              -> R(prev, i)

(* After the right operand of an equality: on to parse_boolean_operator. *)
ThenOperator(ts, r) == IF r.ok THEN ParseBooleanOperator(ts, r.i, r.tree) ELSE r

(* A parenthesised expression: require CloseParenthesis, then an operator. *)
ThenClose(ts, r) ==
    IF r.ok /\ Tok(ts, r.i) = "CloseParenthesis"
    THEN ParseBooleanOperator(ts, r.i + 1, r.tree)
    ELSE Err

(* parse_boolean_expression: a literal left operand is consumed but not   *)
(* appended to the equality; n.p is appended as an ItemPropertyIdentifier. *)
ParseBooleanExpression(ts, i) ==
    CASE Tok(ts, i) \in {"Integer", "Float", "Parameter", "True", "False"} ->
            IF Tok(ts, i + 1) = "Equals"
            THEN ThenOperator(ts, ParseBooleanExpressionTerminal(ts, i + 2,
                                       Node("EqualityOperator", <<>>)))
            ELSE Err
      [] Tok(ts, i) = "Identifier" ->
            IF Tok(ts, i + 1) = "Dot" /\ Tok(ts, i + 2) = "Identifier"
                                      /\ Tok(ts, i + 3) = "Equals"
            THEN ThenOperator(ts, ParseBooleanExpressionTerminal(ts, i + 4,
                    Node("EqualityOperator",
                         <<Node("ItemPropertyIdentifier", <<Leaf(ts[i]), Leaf(ts[i + 2])>>)>>)))
            ELSE Err
      [] Tok(ts, i) = "OpenParenthesis" -> ThenClose(ts, ParseBooleanExpression(ts, i + 1))
      [] OTHER -> Err

(* parse_where_clause: WHERE, then the expression under a Where node. *)
ParseWhereClause(ts) ==
    IF Tok(ts, 1) = "Where"
    THEN IF ParseBooleanExpression(ts, 2).ok
         THEN R(Node("Where", <<ParseBooleanExpression(ts, 2).tree>>),
                ParseBooleanExpression(ts, 2).i)
         ELSE Err
    ELSE R(Node("None", <<>>), 1)

-----------------------------------------------------------------------------
(* What an expression tree means (the query driver, not in the tree, is   *)
(* to evaluate it): an equality is identified by the comparison its first *)
(* operand belongs to.                                                     *)
FirstVal(n) == IF n.tag = "Token" THEN n.val ELSE n.kids[1].val

RECURSIVE WellFormed(_)
WellFormed(t) ==
    /\ t.tag \in {"AndOperator", "OrOperator", "EqualityOperator"}
    /\ Len(t.kids) = 2
    /\ t.tag # "EqualityOperator" => \A j \in 1 .. 2 : WellFormed(t.kids[j])

RECURSIVE Eval(_, _)
Eval(t, A) ==
    CASE t.tag = "AndOperator" -> Eval(t.kids[1], A) /\ Eval(t.kids[2], A)
      [] t.tag = "OrOperator"  -> Eval(t.kids[1], A) \/ Eval(t.kids[2], A)
      [] OTHER                 -> A[FirstVal(t.kids[1])]

Init == input \in Inputs
Next == UNCHANGED input
Spec == Init /\ [][Next]_input

TypeOK == input \in Inputs

(* A parse result r of the clause of f: the whole clause is consumed, every *)
(* operator has two operands, and the tree means f for every truth value  *)
(* of the comparisons.                                                     *)
Faithful(r, f) ==
    /\ r.ok
    /\ r.i = Len(Query) + 1
    /\ WellFormed(r.tree.kids[1])
    /\ \A A \in [AtomIds -> BOOLEAN] : Eval(r.tree.kids[1], A) = EvalF(f, A)

(* Invariant (parse_where_clause, parse_boolean_expression and            *)
(* parse_boolean_operator): the tree parsed from a WHERE clause written   *)
(* with AND binding tighter than OR and parentheses grouping evaluates as *)
(* the clause does.                                                        *)
ParseFaithful == Faithful(ParseWhereClause(Query), input)
=============================================================================
