----------------------------- MODULE Predicates -----------------------------
(* Expressions and predicates of the kernel, and their evaluation by the      *)
(* default engine. An optional value is a sequence of at most one element; in *)
(* three-valued logic, none is NULL.                                          *)
(* Source: expressions/mod.rs and                                             *)
(* engine/arrow_expression/evaluate_expression.rs.                            *)
EXTENDS Integers, Sequences

CONSTANT NULL   \* the null scalar

None == <<>>
Some(v) == <<v>>

(* Scalars: 0 and 1 are also the booleans.  In a column of timestamps, 1 is   *)
(* within the millisecond that starts at 0.                                   *)
Scalars == {0, 1, NULL}
Bool(b) == IF b THEN 1 ELSE 0

(* A column or literal is a boolean predicate as it stands. An unknown        *)
(* predicate is known to the engine alone, for which it is true or false.     *)
Column(path) == [node |-> "column", path |-> path]
Literal(val) == [node |-> "literal", val |-> val]
Unknown(holds) == [node |-> "unknown", holds |-> holds]
IsNull(expr) == [node |-> "is_null", expr |-> expr]
Binary(op, left, right) == [node |-> "binary", op |-> op, left |-> left, right |-> right]
Junction(op, preds) == [node |-> "junction", op |-> op, preds |-> preds]
Not(q) == [node |-> "not", pred |-> q]

IsColumn(expr) == expr.node = "column"

(* Predicate::lt, le and so on: of the six comparisons, three are negated.    *)
Comparison(op, left, right) ==
    CASE op = "le" -> Not(Binary("gt", left, right))
      [] op = "ge" -> Not(Binary("lt", left, right))
      [] op = "ne" -> Not(Binary("eq", left, right))
      [] OTHER -> Binary(op, left, right)

(* Predicate::junction: that of one predicate is the predicate, and that of   *)
(* none is TRUE for AND and FALSE for OR.                                     *)
JunctionOf(op, preds) ==
    CASE Len(preds) = 0 -> Literal(Bool(op = "and"))
      [] Len(preds) = 1 -> preds[1]
      [] OTHER -> Junction(op, preds)

InvertOp(op) == IF op = "and" THEN "or" ELSE "and"

-----------------------------------------------------------------------------
(* The default engine.                                                        *)

Value(row, expr) == IF IsColumn(expr) THEN row[expr.path] ELSE expr.val

(* Arrow's kernels for a comparison and for its negation (external).          *)
ArrowCompare(op, a, b, inverted) ==
    IF op = "distinct" THEN Some((a # b) # inverted)
    ELSE IF a = NULL \/ b = NULL THEN None
    ELSE CASE op = "lt" -> Some(IF inverted THEN a >= b ELSE a < b)
           [] op = "gt" -> Some(IF inverted THEN a <= b ELSE a > b)
           [] op = "eq" -> Some(IF inverted THEN a # b ELSE a = b)

(* and_kleene and or_kleene (external); the one that starts a fold is default. *)
Kleene(conjunction, values) ==
    IF Some(~conjunction) \in values THEN Some(~conjunction)
    ELSE IF None \in values THEN None ELSE Some(conjunction)

(* The predicate of one row, with the negation pushed down to its leaves.     *)
RECURSIVE evaluate_predicate(_, _, _)
evaluate_predicate(q, row, inverted) ==
    CASE q.node \in {"literal", "column"} ->
           IF Value(row, q) = NULL THEN None ELSE Some((Value(row, q) = 1) # inverted)
      [] q.node = "not" -> evaluate_predicate(q.pred, row, ~inverted)
      [] q.node = "is_null" -> Some((Value(row, q.expr) = NULL) # inverted)
      [] q.node = "binary" -> ArrowCompare(q.op, Value(row, q.left), Value(row, q.right), inverted)
      [] q.node = "junction" ->
           Kleene((q.op = "and") # inverted, {evaluate_predicate(q.preds[i], row, inverted) : i \in DOMAIN q.preds})

=============================================================================
