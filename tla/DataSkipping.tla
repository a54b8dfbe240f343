---------------------------- MODULE DataSkipping ---------------------------
(***************************************************************************)
(* Predicates and data skipping.  One trait of the kernel walks a          *)
(* predicate, and four evaluators share it: the direct one resolves        *)
(* columns as scalars (partition pruning, static skipping), the footer one *)
(* answers from parquet statistics (row group skipping), and two rewrite   *)
(* the predicate into one over statistics: of a file, for the data         *)
(* skipping filter, and of the files of a checkpoint, whose row groups are *)
(* then skipped by the footer evaluator.                                   *)
(*                                                                         *)
(* The state is a predicate that an engine composes; the properties are    *)
(* about that predicate and every file of a small set.  An optional value  *)
(* is a sequence of at most one element; the results of an evaluator are   *)
(* optional, and none stands for NULL, which never skips anything.         *)
(***************************************************************************)
EXTENDS FfiPredicates, FiniteSets, FiniteSetsExt

CONSTANT MaxJunctions    \* bound: the AND and OR of a predicate

VARIABLE pred            \* the predicate of the engine

(* x is a data column, p one that the table is partitioned by.              *)
x == <<"x">>
p == <<"p">>

(* Pred::lt, Pred::ge and so on.                                            *)
comparison_predicate(ord, col, val, inverted) ==
    LET cmp == Binary(ord, col, Literal(val)) IN IF inverted THEN Not(cmp) ELSE cmp

----------------------------------------------------------------------------
(* KernelPredicateEvaluatorDefaults.                                        *)

EvalScalar(val, inverted) == IF val = NULL THEN None ELSE Some((val = 1) # inverted)
EvalScalarIsNull(val, inverted) == Some((val = NULL) # inverted)

partial_cmp_scalars(ord, a, b, inverted) ==
    IF a = NULL \/ b = NULL THEN None
    ELSE LET matched == CASE ord = "lt" -> a < b [] ord = "gt" -> a > b [] ord = "eq" -> a = b
         IN Some(matched # inverted)

EvalBinaryScalars(op, a, b, inverted) ==
    IF op = "distinct" THEN None ELSE partial_cmp_scalars(op, a, b, inverted)

(* Seeded fault: a null input is passed over.                               *)
FinishJunction_IgnoreNull(op, results, inverted) ==
    LET dominator == (op = "or") # inverted
    IN IF Some(dominator) \in results THEN Some(dominator) ELSE Some(~dominator)

(* The dominant value wins, then null, then the other value.                *)
FinishJunction(op, results, inverted) ==
    LET dominator == (op = "or") # inverted
    IN IF Some(dominator) \in results THEN Some(dominator)
       ELSE IF None \in results THEN None
       ELSE Some(~dominator)

(* collect_junction_preds: unsupported predicates become one NULL literal.  *)
collect_junction_preds(op, results, inverted) ==
    LET first == {i \in DOMAIN results :
                    results[i] = None /\ \A j \in 1..(i - 1) : results[j] # None}
        kept == {i \in DOMAIN results : results[i] # None} \cup first
        nth[i \in 0..Len(results)] ==
          IF i = 0 THEN <<>>
          ELSE IF i \notin kept THEN nth[i - 1]
          ELSE Append(nth[i - 1], IF results[i] = None THEN Literal(NULL) ELSE results[i][1])
    IN JunctionOf(IF inverted THEN InvertOp(op) ELSE op, nth[Len(results)])

----------------------------------------------------------------------------
(* The evaluators: a record with the kind, and                              *)
(*   direct: resolve, the optional scalar of each column                    *)
(*   footer: min, max, nullcount and rowcount of a row group                *)
(*   stats, guarded: whether x is a column of timestamps.                   *)

Rewrites(ev) == ev.kind \in {"stats", "guarded"}
Output(ev, result) == IF Rewrites(ev) /\ result # None
                      THEN Some(Literal(Bool(result[1]))) ELSE result
IsPartitionColumn(path) == path = p

(* DataSkippingPredicateCreator, NullGuardedDataSkippingPredicateCreator    *)
(* and RowGroupFilter: the statistics of a column.                          *)
get_min_stat(ev, path) ==
    CASE ev.kind = "footer" -> ev.min[path]
      [] ev.kind = "stats" -> Some(Column((IF IsPartitionColumn(path) THEN <<"value">> ELSE <<"min">>) \o path))
      [] ev.kind = "guarded" -> IF IsPartitionColumn(path) THEN None ELSE Some(Column(<<"min">> \o path))

(* Seeded fault: the maximum of timestamps, too.                            *)
get_max_stat_Timestamps(ev, path) ==
    CASE ev.kind = "footer" -> ev.max[path]
      [] ev.kind = "stats" -> Some(Column((IF IsPartitionColumn(path) THEN <<"value">> ELSE <<"max">>) \o path))
      [] ev.kind = "guarded" -> IF IsPartitionColumn(path) THEN None ELSE Some(Column(<<"max">> \o path))

get_max_stat(ev, path) ==
    CASE ev.kind = "footer" -> ev.max[path]
      [] IsPartitionColumn(path) -> IF ev.kind = "stats" THEN Some(Column(<<"value">> \o path)) ELSE None
      [] OTHER -> IF ev.timestamp THEN None ELSE Some(Column(<<"max">> \o path))

(* Seeded fault: no guard for the files without the statistic.              *)
eval_partial_cmp_Unguarded(ev, ord, stat, val, inverted) ==
    CASE stat = None -> None
      [] ev.kind = "footer" -> partial_cmp_scalars(ord, stat[1], val, inverted)
      [] OTHER -> Some(comparison_predicate(ord, stat[1], val, inverted))

eval_partial_cmp(ev, ord, stat, val, inverted) ==
    CASE stat = None -> None
      [] ev.kind = "footer" -> partial_cmp_scalars(ord, stat[1], val, inverted)
      [] ev.kind = "stats" -> Some(comparison_predicate(ord, stat[1], val, inverted))
      [] ev.kind = "guarded" ->
           Some(Junction("or", <<IsNull(stat[1]), comparison_predicate(ord, stat[1], val, inverted)>>))

Finish(ev, op, results, inverted) ==
    IF Rewrites(ev) THEN Some(collect_junction_preds(op, results, inverted))
    ELSE FinishJunction(op, {results[i] : i \in DOMAIN results}, inverted)

(* eval_pred_is_null: all null, or no null, is what can be skipped.         *)
EvalIsNull(ev, path, inverted) ==
    LET nullCount == Column(<<"nullCount">> \o path)
        partition == IsNull(Column(<<"value">> \o path))
    IN CASE ev.kind = "direct" ->
              IF ev.resolve[path] = None THEN None ELSE EvalScalarIsNull(ev.resolve[path][1], inverted)
         [] ev.kind = "footer" ->
              IF ev.nullcount[path] = None THEN None
              ELSE Some(ev.nullcount[path][1] # IF inverted THEN ev.rowcount ELSE 0)
         [] ev.kind = "stats" ->
              IF IsPartitionColumn(path) THEN Some(IF inverted THEN Not(partition) ELSE partition)
              ELSE Some(Not(Binary("eq", nullCount,
                                   IF inverted THEN Column(<<"numRecords">>) ELSE Literal(0))))
         [] ev.kind = "guarded" ->
              IF inverted \/ IsPartitionColumn(path) THEN None
              ELSE Some(Junction("or", <<IsNull(nullCount), Not(Binary("eq", nullCount, Literal(0)))>>))

(* Seeded fault: a column that is not less may only be greater.             *)
EvalCompare_Lt(ev, op, path, val, inverted) ==
    IF ev.kind = "direct"
    THEN IF ev.resolve[path] = None THEN None ELSE EvalBinaryScalars(op, ev.resolve[path][1], val, inverted)
    ELSE eval_partial_cmp(ev, op, IF op = "lt" THEN get_min_stat(ev, path) ELSE get_max_stat(ev, path),
                          val, inverted)

(* eval_pred_lt, eval_pred_gt and eval_pred_eq of a column and a scalar.    *)
EvalCompare(ev, op, path, val, inverted) ==
    LET min(ord, inv) == eval_partial_cmp(ev, ord, get_min_stat(ev, path), val, inv)
        max(ord, inv) == eval_partial_cmp(ev, ord, get_max_stat(ev, path), val, inv)
    IN CASE ev.kind = "direct" ->
              IF ev.resolve[path] = None THEN None
              ELSE EvalBinaryScalars(op, ev.resolve[path][1], val, inverted)
         [] op = "lt" -> IF inverted THEN max("lt", TRUE) ELSE min("lt", FALSE)
         [] op = "gt" -> IF inverted THEN min("gt", TRUE) ELSE max("gt", FALSE)
         [] op = "eq" ->
              IF inverted THEN Finish(ev, "or", <<min("eq", TRUE), max("eq", TRUE)>>, FALSE)
              ELSE Finish(ev, "and", <<min("gt", TRUE), max("lt", TRUE)>>, FALSE)

(* eval_pred_distinct: DISTINCT(col, NULL) is IS NOT NULL, and otherwise    *)
(* OR(col IS NULL, col != val).                                             *)
eval_pred_distinct(ev, path, val, inverted) ==
    IF val = NULL THEN EvalIsNull(ev, path, ~inverted)
    ELSE Finish(ev, "or", <<EvalIsNull(ev, path, inverted),
                            EvalCompare(ev, "eq", path, val, ~inverted)>>, inverted)

(* eval_pred_column: the column is not FALSE, or not TRUE.                  *)
EvalColumn(ev, path, inverted) == EvalCompare(ev, "eq", path, Bool(inverted), TRUE)

eval_pred_unary(ev, expr, inverted) ==
    IF IsColumn(expr) THEN EvalIsNull(ev, expr.path, inverted)
    ELSE Output(ev, EvalScalarIsNull(expr.val, inverted))

Commuted(op) == CASE op = "lt" -> "gt" [] op = "gt" -> "lt" [] OTHER -> op

eval_pred_binary(ev, op, left, right, inverted) ==
    LET ColumnAndScalar(o, path, val) ==
            IF o = "distinct" THEN eval_pred_distinct(ev, path, val, inverted)
            ELSE EvalCompare(ev, o, path, val, inverted)
    IN CASE IsColumn(left) /\ IsColumn(right) ->
              IF ev.kind # "direct" \/ ev.resolve[left.path] = None \/ ev.resolve[right.path] = None
              THEN None
              ELSE EvalBinaryScalars(op, ev.resolve[left.path][1], ev.resolve[right.path][1], inverted)
         [] IsColumn(left) /\ ~IsColumn(right) -> ColumnAndScalar(op, left.path, right.val)
         [] ~IsColumn(left) /\ IsColumn(right) -> ColumnAndScalar(Commuted(op), right.path, left.val)
         [] OTHER -> Output(ev, EvalBinaryScalars(op, left.val, right.val, inverted))

RECURSIVE eval_pred(_, _, _)
eval_pred(ev, q, inverted) ==
    CASE q.node = "literal" -> Output(ev, EvalScalar(q.val, inverted))
      [] q.node = "column" -> EvalColumn(ev, q.path, inverted)
      [] q.node = "unknown" -> None
      [] q.node = "not" -> eval_pred(ev, q.pred, ~inverted)
      [] q.node = "is_null" -> eval_pred_unary(ev, q.expr, inverted)
      [] q.node = "binary" -> eval_pred_binary(ev, q.op, q.left, q.right, inverted)
      [] q.node = "junction" ->
           Finish(ev, q.op, [i \in DOMAIN q.preds |-> eval_pred(ev, q.preds[i], inverted)], inverted)

(* SQL WHERE semantics: a comparison with NULL input is FALSE, which the    *)
(* evaluators may act on, and not NULL, which they may not.                 *)
RECURSIVE eval_pred_sql_where(_, _, _)
eval_pred_sql_where(ev, q, inverted) ==
    CASE q.node = "junction" ->
           Finish(ev, q.op, [i \in DOMAIN q.preds |-> eval_pred_sql_where(ev, q.preds[i], inverted)],
                  inverted)
      [] q.node = "binary" /\ q.op # "distinct" ->
           Finish(ev, "and", <<eval_pred_unary(ev, q.left, TRUE), eval_pred_unary(ev, q.right, TRUE),
                               eval_pred_binary(ev, q.op, q.left, q.right, inverted)>>, FALSE)
      [] q.node = "not" -> eval_pred_sql_where(ev, q.pred, ~inverted)
      [] q.node = "column" ->
           Finish(ev, "and", <<EvalIsNull(ev, q.path, TRUE), EvalColumn(ev, q.path, inverted)>>, FALSE)
      [] q.node = "literal" /\ q.val = NULL -> Output(ev, EvalScalar(0, FALSE))
      [] OTHER -> eval_pred(ev, q, inverted)

eval_sql_where(ev, q) == eval_pred_sql_where(ev, q, FALSE)

----------------------------------------------------------------------------
(* SQL: the reference, for the predicates of an engine, with six             *)
(* comparisons and parts the kernel does not know.                          *)

RECURSIVE Sql(_, _)
Sql(row, q) ==
    CASE q.node \in {"literal", "column"} ->
           IF Value(row, q) = NULL THEN None ELSE Some(Value(row, q) = 1)
      [] q.node \in {"unknown", "foreign"} -> Some(q.holds)
      [] q.node = "not" -> LET v == Sql(row, q.pred) IN IF v = None THEN None ELSE Some(~v[1])
      [] q.node = "is_null" -> Some(Value(row, q.expr) = NULL)
      [] q.node = "binary" ->
           LET a == Value(row, q.left)
               b == Value(row, q.right)
           IN IF q.op = "distinct" THEN Some(a # b)
              ELSE IF a = NULL \/ b = NULL THEN None
              ELSE Some(CASE q.op = "lt" -> a < b [] q.op = "gt" -> a > b [] q.op = "eq" -> a = b
                          [] q.op = "le" -> a <= b [] q.op = "ge" -> a >= b [] q.op = "ne" -> a # b)
      [] q.node = "junction" ->
           LET vs == {Sql(row, q.preds[i]) : i \in DOMAIN q.preds}
               strong == q.op = "or"
           IN IF Some(strong) \in vs THEN Some(strong) ELSE IF None \in vs THEN None ELSE Some(~strong)

----------------------------------------------------------------------------
(* Files, their statistics, and what skips them.                            *)

StatColumns == {<<"min", "x">>, <<"max", "x">>, <<"nullCount", "x">>, <<"numRecords">>, <<"value", "p">>}
AllColumns == {x, p} \cup StatColumns

(* Two rows, the partition value, whether x holds timestamps, and which     *)
(* statistics the writer left out.                                          *)
Contents == [rows : {<<0, 0>>, <<0, 1>>, <<1, 1>>, <<0, NULL>>, <<1, NULL>>, <<NULL, NULL>>},
             value : {0, NULL}]
DataFiles == {[rows |-> c.rows, value |-> c.value, timestamp |-> timestamp, missing |-> missing] :
                c \in Contents, timestamp \in BOOLEAN, missing \in {{}, {"min", "max"}, {"nullCount"}}}

NonNull(file) == {file.rows[i] : i \in DOMAIN file.rows} \ {NULL}
NullCount(file) == Cardinality({i \in DOMAIN file.rows : file.rows[i] = NULL})
Lowest(S) == IF S = {} THEN NULL ELSE Min(S)
Highest(S) == IF S = {} THEN NULL ELSE Max(S)

(* The statistics in the add action: those of timestamps are cut to         *)
(* milliseconds.                                                            *)
Stats(file) ==
    LET cut(v) == IF file.timestamp /\ v # NULL THEN 0 ELSE v
        all == [c \in StatColumns |->
                  CASE c = <<"min", "x">> -> cut(Lowest(NonNull(file)))
                    [] c = <<"max", "x">> -> cut(Highest(NonNull(file)))
                    [] c = <<"nullCount", "x">> -> NullCount(file)
                    [] c = <<"numRecords">> -> Len(file.rows)
                    [] c = <<"value", "p">> -> file.value]
    IN [c \in StatColumns |-> IF c[1] \in file.missing THEN NULL ELSE all[c]]

FileStats == [file \in DataFiles |-> Stats(file)]

Direct(resolve) == [kind |-> "direct", resolve |-> resolve]

(* can_statically_skip_all_files.                                           *)
can_statically_skip_all_files(q) == eval_sql_where(Direct([c \in {x, p} |-> None]), q) = Some(FALSE)

(* AddRemoveDedupVisitor::is_file_partition_pruned.                         *)
is_file_partition_pruned(file, q) ==
    eval_sql_where(Direct([c \in {x, p} |-> IF c = p THEN Some(file.value) ELSE None]), q) = Some(FALSE)

(* DataSkippingFilter: the predicate over statistics, which the engine      *)
(* evaluates; DISTINCT(result, false) selects the file.                     *)
as_sql_data_skipping_predicate(timestamp, q) ==
    eval_sql_where([kind |-> "stats", timestamp |-> timestamp], q)

FilterDrops(file, skipping) ==
    skipping # None /\ evaluate_predicate(skipping[1], FileStats[file], FALSE) = Some(FALSE)

(* The footer of a row group.  Its statistics ignore nulls and may be       *)
(* missing; so are those of a column the file does not have.  A null count  *)
(* of zero is not trusted: it may stand for a missing one.                  *)
Footer(rows, columns, missing) ==
    LET values(c) == {rows[i][c] : i \in DOMAIN rows} \ {NULL}
        nulls(c) == Cardinality({i \in DOMAIN rows : rows[i][c] = NULL})
        known(c) == c \in columns /\ values(c) # {} /\ "min" \notin missing
    IN [kind |-> "footer", rowcount |-> Len(rows),
        min |-> [c \in AllColumns |-> IF known(c) THEN Some(Min(values(c))) ELSE None],
        max |-> [c \in AllColumns |-> IF known(c) THEN Some(Max(values(c))) ELSE None],
        nullcount |-> [c \in AllColumns |-> IF c \in columns /\ "nullCount" \notin missing /\ nulls(c) > 0
                                            THEN Some(nulls(c)) ELSE None]]

(* RowGroupFilter::apply.                                                   *)
RowGroupFilter(footer, q) == eval_sql_where(footer, q) # Some(FALSE)

(* The row group of a data file.                                            *)
FileFooter == [file \in DataFiles |->
    Footer([i \in DOMAIN file.rows |-> [c \in {x} |-> file.rows[i]]], {x}, file.missing)]

(* build_actions_meta_predicate.                                            *)
as_checkpoint_skipping_predicate(timestamp, q) ==
    eval_pred([kind |-> "guarded", timestamp |-> timestamp], q, FALSE)

(* Row groups of a checkpoint: the statistics of an add, and perhaps of     *)
(* another one, or a row that is not an add.                                *)
NotAnAdd == [c \in StatColumns |-> NULL]
CheckpointFooters == [file \in DataFiles |->
    {Footer(group, StatColumns, {}) :
       group \in {<<FileStats[file]>>, <<FileStats[file], NotAnAdd>>}
         \cup {<<FileStats[file], FileStats[[file EXCEPT !.rows = <<v, v>>]]>> : v \in {0, 1}}}]

----------------------------------------------------------------------------
(* The engine composes a predicate.                                         *)

(* A part for which the FFI has no function.                                *)
Foreign(holds) == [node |-> "foreign", holds |-> holds]

Atoms ==
    {Literal(v) : v \in Scalars} \cup {Column(x), Column(p)}
      \cup {IsNull(Column(x)), IsNull(Column(p))} \cup {Unknown(FALSE), Foreign(TRUE)}
      \cup {Binary(op, Column(c), Literal(v)) : op \in {"lt", "gt", "eq", "distinct"}, c \in {x}, v \in Scalars}
      \cup {Binary(op, Column(x), Literal(1)) : op \in {"le", "ge", "ne"}}
      \cup {Binary(op, Column(p), Literal(1)) : op \in {"lt", "eq", "distinct"}}
      \cup {Binary(op, Literal(1), Column(x)) : op \in {"lt", "gt"}}
      \cup {Binary("eq", Column(x), Column(p)), Binary("lt", Literal(1), Literal(0))}

RECURSIVE Junctions(_)
Junctions(q) ==
    CASE q.node = "junction" -> 1 + Junctions(q.preds[1]) + Junctions(q.preds[2])
      [] q.node = "not" -> Junctions(q.pred)
      [] OTHER -> 0

Init == pred \in Atoms

Negate == pred.node # "not" /\ pred' = Not(pred)

Combine ==
    /\ Junctions(pred) < MaxJunctions
    /\ \E op \in {"and", "or"}, q \in Atoms : \E r \in {q, Not(q)} : pred' = Junction(op, <<pred, r>>)

Next == Negate \/ Combine

Spec == Init /\ [][Next]_pred

----------------------------------------------------------------------------
(* Properties.                                                              *)

(* The files with a row the query wants.                                    *)
Wanted(q) ==
    LET wanted == {c \in Contents : \E i \in DOMAIN c.rows :
                     Sql([col \in {x, p} |-> IF col = p THEN c.value ELSE c.rows[i]], q) = Some(TRUE)}
    IN {file \in DataFiles : [rows |-> file.rows, value |-> file.value] \in wanted}

(* The predicate as an engine in Rust builds it.                            *)
RECURSIVE Built(_)
Built(q) ==
    CASE q.node = "foreign" -> Unknown(q.holds)
      [] q.node = "binary" -> Comparison(q.op, q.left, q.right)
      [] q.node = "not" -> Not(Built(q.pred))
      [] q.node = "junction" -> JunctionOf(q.op, [i \in DOMAIN q.preds |-> Built(q.preds[i])])
      [] OTHER -> q

RECURSIVE HasNoId(_)
HasNoId(q) ==
    \/ q.node = "foreign"
    \/ q.node = "literal" /\ q.val = NULL
    \/ q.node \in {"not", "is_null", "binary"} /\ \E i \in DOMAIN Children(q) : HasNoId(Children(q)[i])

(* A disjunction, or a negated conjunction, with a child that has no id: the *)
(* visitor leaves out that child and all that follow, and the predicate of   *)
(* the scan is stronger than the one of the engine.                          *)
RECURSIVE CutShort(_, _)
CutShort(q, inverted) ==
    CASE q.node = "not" -> CutShort(q.pred, ~inverted)
      [] q.node = "junction" ->
           \E i \in DOMAIN q.preds : \/ (q.op = "or") # inverted /\ HasNoId(q.preds[i])
                                     \/ CutShort(q.preds[i], inverted)
      [] OTHER -> FALSE

(* What the kernel gets from an engine in Rust, from one across the FFI, and *)
(* from one that has received the predicate from the kernel; but for the     *)
(* predicates that the FFI cuts short, with which the properties below do    *)
(* not hold: a file with rows that the engine wants is then skipped.         *)
UncutPredicates(q) ==
    LET uncut == {e \in {q, AtEngine(Built(q))} : ~CutShort(e, FALSE)}
    IN  {Built(q)} \cup UNION {Range(scan_impl(e)) : e \in uncut}

(* A file the data skipping filter drops has no row that the query wants,   *)
(* whatever the nulls, missing statistics and truncated timestamps          *)
(* (DataSkippingFilter::apply), and whether the predicate is built in Rust, *)
(* or visited by an engine over the FFI. Excluded are the predicates with a *)
(* child without id in a disjunction, which visit_predicate_or cuts short.  *)
FileSkippingIsSound ==
    \A q \in UncutPredicates(pred), timestamp \in BOOLEAN :
      LET skipping == as_sql_data_skipping_predicate(timestamp, q)
      IN \A file \in Wanted(pred) : file.timestamp = timestamp => ~FilterDrops(file, skipping)

(* The same of the row groups of data files (RowGroupFilter::apply), with   *)
(* the same predicates excluded.                                            *)
RowGroupSkippingIsSound ==
    \A q \in UncutPredicates(pred), file \in Wanted(pred) : RowGroupFilter(FileFooter[file], q)

(* The same of the files that partition pruning drops, and of the scans     *)
(* that are known to need no file (PhysicalPredicate::StaticSkipAll), with  *)
(* the same predicates excluded.                                            *)
PruningIsSound ==
    \A q \in UncutPredicates(pred), file \in Wanted(pred) :
      ~is_file_partition_pruned(file, q) /\ ~can_statically_skip_all_files(q)

RECURSIVE HoldsNull(_)
HoldsNull(q) ==
    CASE q.node = "literal" -> q.val = NULL
      [] q.node = "not" -> HoldsNull(q.pred)
      [] q.node = "junction" -> \E i \in DOMAIN q.preds : HoldsNull(q.preds[i])
      [] OTHER -> FALSE

(* A row group of a checkpoint is skipped only if it has no file the query  *)
(* wants: files without statistics and rows that are no adds keep their row *)
(* group (NullGuardedDataSkippingPredicateCreator). This is so only for     *)
(* predicates of which every part can be rewritten: for another part, the   *)
(* rewritten predicate has a NULL literal (collect_junction_preds), which   *)
(* the footer evaluator takes for FALSE under SQL WHERE, and row groups are *)
(* skipped that the query needs. Excluded too are those the FFI cuts short. *)
SupportedCheckpointSkippingIsSound ==
    \A q \in UncutPredicates(pred), timestamp \in BOOLEAN :
      LET meta == as_checkpoint_skipping_predicate(timestamp, q)
      IN meta # None /\ ~HoldsNull(meta[1]) =>
           \A file \in Wanted(pred) : file.timestamp = timestamp =>
             \A footer \in CheckpointFooters[file] : RowGroupFilter(footer, meta[1])
=============================================================================
