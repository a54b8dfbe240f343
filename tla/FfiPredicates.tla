---------------------------- MODULE FfiPredicates ----------------------------
(* How predicates cross the FFI. To hand one to the kernel, an engine visits  *)
(* it from the leaves up and gets an id for each part; to receive one, it     *)
(* provides lists that the kernel fills.                                      *)
(* Source: ffi/src/expressions, ffi/src/scan.rs and ffi/src/lib.rs.           *)
EXTENDS Predicates, ReferenceSet

(* unwrap_kernel_expression, unwrap_kernel_predicate: predicates and boolean  *)
(* expressions are converted into each other. Invalid child, invalid node.    *)
visit_predicate_binary(set, op, a, b) ==
    LET left == take(set, a)
        right == take(left.set, b)
    IN  IF left.value = None \/ right.value = None THEN Visited(right.set, 0)
        ELSE insert(right.set, Binary(op, left.value[1], right.value[1]))

visit_predicate_not(set, inner) ==
    LET pred == take(set, inner)
    IN  IF pred.value = None THEN Visited(pred.set, 0) ELSE insert(pred.set, Not(pred.value[1]))

visit_predicate_is_null(set, inner) ==
    LET expr == take(set, inner)
    IN  IF expr.value = None THEN Visited(expr.set, 0) ELSE insert(expr.set, IsNull(expr.value[1]))

NegationOf == [le |-> "gt", ge |-> "lt", ne |-> "eq"]

(* visit_predicate_lt, le, gt, ge, eq, ne and distinct                        *)
visit_predicate_comparison(set, op, a, b) ==
    IF op \notin DOMAIN NegationOf THEN visit_predicate_binary(set, op, a, b)
    ELSE LET negated == visit_predicate_binary(set, NegationOf[op], a, b)
         IN  visit_predicate_not(negated.set, negated.id)

(* Literals are wrapped, but for NULL, whose type is not known; so are        *)
(* columns, whose names have no periods here, and unknown predicates.         *)
visit_expression_leaf(set, expr) ==
    IF expr.node = "literal" /\ expr.val = NULL THEN Visited(set, 0) ELSE insert(set, expr)

(* The visitor of the engine (external): children first. A part that the FFI  *)
(* has no function for gets no id. EngineIterator hands the children of a     *)
(* junction over one by one, and takes id 0 for the end.                      *)
RECURSIVE EngineVisit(_, _)
EngineVisit(set, q) ==
    CASE q.node = "foreign" -> Visited(set, 0)
      [] q.node \in {"literal", "column", "unknown"} -> visit_expression_leaf(set, q)
      [] q.node = "not" -> LET inner == EngineVisit(set, q.pred) IN visit_predicate_not(inner.set, inner.id)
      [] q.node = "is_null" -> LET inner == EngineVisit(set, q.expr) IN visit_predicate_is_null(inner.set, inner.id)
      [] q.node = "binary" ->
           LET a == EngineVisit(set, q.left)
               b == EngineVisit(a.set, q.right)
           IN  visit_predicate_comparison(b.set, q.op, a.id, b.id)
      [] q.node = "junction" ->
           LET upto[i \in 0..Len(q.preds)] ==
                 IF i = 0 THEN [set |-> set, preds |-> <<>>, ended |-> FALSE]
                 ELSE LET before == upto[i - 1]
                          child == EngineVisit(before.set, q.preds[i])
                          taken == take(child.set, child.id)
                      IN  IF before.ended THEN before
                          ELSE IF child.id = 0 THEN [before EXCEPT !.set = child.set, !.ended = TRUE]
                          ELSE [before EXCEPT !.set = taken.set, !.preds = @ \o taken.value]
               all == upto[Len(q.preds)]
           IN  insert(all.set, JunctionOf(q.op, all.preds))

(* The predicate of the scan; with an invalid id, it has none.                *)
scan_impl(q) == LET top == EngineVisit(NewReferenceSet, q) IN take(top.set, top.id).value

-----------------------------------------------------------------------------
(* From the kernel to the engine. Each list holds items: a leaf, or what it   *)
(* is with the list of its children.                                          *)

Children(q) ==
    CASE q.node = "not" -> <<q.pred>>
      [] q.node = "is_null" -> <<q.expr>>
      [] q.node = "binary" -> <<q.left, q.right>>
      [] q.node = "junction" -> q.preds
      [] OTHER -> <<>>

IsLeaf(q) == q.node \in {"literal", "column", "unknown"}

AddItem(lists, list, item) == [lists EXCEPT ![list] = Append(@, item)]

(* visit_predicate_impl and visit_expression_impl: make a list, fill it with  *)
(* the children, then add the item to the list of its siblings.               *)
RECURSIVE visit_predicate_impl(_, _, _)
visit_predicate_impl(lists, q, sibling) ==
    IF IsLeaf(q) THEN AddItem(lists, sibling, [visit |-> "leaf", child |-> 0, leaf |-> Some(q)])
    ELSE LET child == Len(lists) + 1
             upto[i \in 0..Len(Children(q))] ==
               IF i = 0 THEN Append(lists, <<>>) ELSE visit_predicate_impl(upto[i - 1], Children(q)[i], child)
         IN  AddItem(upto[Len(Children(q))], sibling,
                     [visit |-> IF q.node \in {"binary", "junction"} THEN q.op ELSE q.node,
                      child |-> child, leaf |-> None])

visit_predicate_internal(q) == visit_predicate_impl(<< <<>> >>, q, 1)

(* What the engine makes of the lists (external).                             *)
RECURSIVE Received(_, _)
Received(lists, item) ==
    LET kids == [i \in DOMAIN lists[item.child] |-> Received(lists, lists[item.child][i])]
    IN  CASE item.visit = "leaf" -> item.leaf[1]
          [] item.visit = "not" -> Not(kids[1])
          [] item.visit = "is_null" -> IsNull(kids[1])
          [] item.visit \in {"and", "or"} -> Junction(item.visit, kids)
          [] OTHER -> Binary(item.visit, kids[1], kids[2])

(* A predicate of the kernel as the engine receives it.                       *)
AtEngine(q) == LET lists == visit_predicate_internal(q) IN Received(lists, lists[1][1])

=============================================================================
