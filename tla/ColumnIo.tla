------------------------------ MODULE ColumnIo ------------------------------
(* How the columns of a row get into a data file and out of it again.         *)
(* Writing: the write context, the logical-to-physical transform, apply_schema*)
(* and the statistics. Reading: the read schema and transform of a scan, the  *)
(* columns that are read from the file and put in order, and the transform to *)
(* the logical schema.                                                        *)
(* Source: kernel/src/transaction/mod.rs, engine/default (mod.rs, parquet.rs, *)
(* stats.rs), transaction/stats_verifier.rs, scan/state_info.rs,              *)
(* scan/transform_spec.rs, engine/arrow_utils.rs and engine/arrow_expression. *)
EXTENDS TableSchema

(* A batch is a sequence of columns [name, id, type, kids, vals]; vals has    *)
(* one value per row, and is <<>> for a struct or an array of structs.        *)
(* A result is <<x>>, an error, or a panic: an index that is out of bounds.   *)
Null == -1
Err == <<>>
Panic == <<0, 0>>
Ok(x) == <<x>>
Failed(result) == Len(result) # 1

Column(name, id, type, kids, vals) == [name |-> name, id |-> id, type |-> type, kids |-> kids, vals |-> vals]

-----------------------------------------------------------------------------
(* Writing                                                                    *)

DropsPartitionColumns(t) == ~is_feature_enabled(t, "materializePartitionColumns")

(* get_write_context                                                          *)
WriteSchema(t) ==
    LET kept == SelectSeq(t.schema, LAMBDA f : DropsPartitionColumns(t) => f.name \notin t.partitions)
    IN  [i \in DOMAIN kept |-> MakePhysical(kept[i], column_mapping_mode(t))]

(* generate_logical_to_physical, evaluated on a batch.                        *)
LogicalToPhysical(t, batch) ==
    SelectSeq(batch, LAMBDA c : DropsPartitionColumns(t) => c.name \notin t.partitions)

(* check_cast_compat: the types a column of the file can be read as.          *)
UpCasts ==
    [byte |-> {"short", "integer", "long", "double"}, short |-> {"integer", "long", "double"},
     integer |-> {"long", "double"}, float |-> {"double"}, date |-> {"timestamp_ntz"}]

(* ensure_data_types for a leaf: the kind of reordering, "" if it is an error.*)
ensure_data_types(requested, type) ==
    IF requested = type THEN "identity"
    ELSE IF type \in DOMAIN UpCasts /\ requested \in UpCasts[type] THEN "cast" ELSE ""

(* transform_struct: names and ids are those of the target fields, by         *)
(* position; types stay. A type that can be cast to the target is let pass,   *)
(* an id of the column that is not the one of the target is not.              *)
Renamed(batch, fields, kids) ==
    LET fits(c, f) == IF IsNested(f.type) THEN c.type = f.type ELSE ensure_data_types(f.type, c.type) # ""
        conflicts(c, f) == c.id # 0 /\ f.id # 0 /\ c.id # f.id
    IN  IF \E i \in DOMAIN batch : ~fits(batch[i], fields[i]) \/ conflicts(batch[i], fields[i]) \/ kids[i] = Err
        THEN Err
        ELSE Ok(Evaluated([i \in DOMAIN batch |->
                   Column(fields[i].name, fields[i].id, batch[i].type, kids[i][1], batch[i].vals)]))

RECURSIVE apply_schema(_, _)
apply_schema(batch, fields) ==
    IF Len(batch) > Len(fields) THEN Err
    ELSE Renamed(batch, fields, Evaluated([i \in DOMAIN batch |-> apply_schema(batch[i].kids, fields[i].kids)]))

NonNull(vals) == {vals[i] : i \in DOMAIN vals} \ {Null}

(* agg_*: the smallest value that is not null.                                *)
MinValue(vals) == IF NonNull(vals) = {} THEN Null ELSE Min(NonNull(vals))
MaxValue(vals) == IF NonNull(vals) = {} THEN Null ELSE Max(NonNull(vals))

(* The leaf column at a path.                                                 *)
RECURSIVE ColumnAt(_, _)
ColumnAt(batch, path) ==
    LET c == batch[IndexOf(batch, path[1])]
    IN  IF Len(path) = 1 THEN c ELSE ColumnAt(c.kids, Tail(path))

ColumnPaths(batch) == LET RECURSIVE paths(_)
                          paths(cols) == UNION {IF cols[i].type = "struct"
                                                THEN {<<cols[i].name>> \o p : p \in paths(cols[i].kids)}
                                                ELSE IF cols[i].type = "array" THEN {} ELSE {<<cols[i].name>>} :
                                                i \in DOMAIN cols}
                      IN  paths(batch)

(* collect_stats: null count, smallest and largest value of each leaf that    *)
(* the write context names; Boolean columns have no smallest or largest.      *)
collect_stats(batch, columns, rows) ==
    [numRecords |-> rows,
     of |-> [p \in {q \in ColumnPaths(batch) : HasPrefixIn(q, columns)} |->
               LET c == ColumnAt(batch, p)
               IN  [nulls |-> Cardinality({i \in DOMAIN c.vals : c.vals[i] = Null}),
                    min |-> IF c.type = "boolean" THEN Null ELSE MinValue(c.vals),
                    max |-> IF c.type = "boolean" THEN Null ELSE MaxValue(c.vals)]]]

(* The types for which column_types_for has an entry.                         *)
Verifiable == {"boolean", "integer", "long", "timestamp_ntz"}

(* validate_add_files_stats: StatsVerifier on the clustering columns.         *)
StatsAreComplete(t, stats) ==
    \A c \in t.clustering :
        LET walk == WalkFields(PhysicalSchema(t), c)
        IN  /\ walk # <<>> /\ Last(walk).type \in Verifiable
            /\ c \in DOMAIN stats.of
            /\ \/ stats.of[c].nulls = stats.numRecords
               \/ stats.of[c].min # Null /\ stats.of[c].max # Null

(* Partition values are keyed by physical name; an empty value is a null.     *)
PartitionValues(t, mode, values) ==
    LET partitions == {f \in Range(t.schema) : f.name \in t.partitions}
    IN  [n \in {physical_name(f, mode) : f \in partitions} |->
            values[(CHOOSE f \in partitions : physical_name(f, mode) = n).ident]]

(* DefaultEngine::write_parquet and add_files: what the log and the storage   *)
(* have of a batch of the logical schema.                                     *)
write_parquet(t, batch, values, rows) ==
    LET written == apply_schema(LogicalToPhysical(t, batch), WriteSchema(t))
        File(columns) ==
            [columns |-> columns, stats |-> collect_stats(columns, stats_columns(t, t.clustering), rows),
             partitionValues |-> PartitionValues(t, column_mapping_mode(t), values), numRows |-> rows]
    IN  IF written = Err THEN Err ELSE Ok(File(written[1]))

-----------------------------------------------------------------------------
(* Reading: the plan of a scan                                                *)

InsertedAfter(last, index) == [kind |-> "insert", after |-> last, index |-> index, name |-> "", rows |-> ""]
Dropped(name) == [kind |-> "drop", after |-> "", index |-> 0, name |-> name, rows |-> ""]
RowIdFrom(name, rows) == [kind |-> "rowid", after |-> "", index |-> 0, name |-> name, rows |-> rows]

RowIndexName(fields) ==
    LET i == SelectInSeq(fields, LAMBDA f : f.spec = "rowIndex")
    IN  IF i = 0 THEN "" ELSE fields[i].name

(* The name "row_indexes_for_row_id_<i>", of no other column.                 *)
HiddenIndex == "row_indexes_for_row_id"

(* One round of the loop of StateInfo::try_new: partition columns are         *)
(* inserted after the last physical column, row ids are computed from a row   *)
(* index and the materialized column, all else is read.                       *)
ReadField(acc, f, physical, fields) ==
    LET clashes == f.spec = "" /\ \E k \in DOMAIN fields : fields[k].spec # "" /\ fields[k].name = physical.name
    IN  [acc EXCEPT !.read = Append(@, physical), !.last = physical.name,
                    !.ok = @ /\ ~clashes /\ f.spec # "rowCommitVersion"]

PlanField(t, fields, acc, i) ==
    LET f == fields[i]
        index == RowIndexName(fields)
    IN  IF f.name \in t.partitions
        THEN [acc EXCEPT !.spec = Append(@, InsertedAfter(acc.last, i))]
        ELSE IF f.spec = "rowId"
        THEN LET read == Field(0, t.rowIdColumn, "long", <<>>)
             IN  IF index # ""
                 THEN [acc EXCEPT !.read = Append(@, read), !.spec = Append(@, RowIdFrom(t.rowIdColumn, index))]
                 ELSE [acc EXCEPT !.read = @ \o <<MetadataColumn(HiddenIndex, "rowIndex"), read>>,
                                  !.spec = @ \o <<Dropped(HiddenIndex), RowIdFrom(t.rowIdColumn, HiddenIndex)>>]
        ELSE ReadField(acc, f, MakePhysical(f, column_mapping_mode(t)), fields)

(* validate_metadata_columns                                                  *)
MetadataColumnsAreValid(t, fields) ==
    \A i \in DOMAIN fields :
        /\ fields[i].spec # "" => fields[i].name \notin t.partitions
        /\ fields[i].spec = "rowId" => "enableRowTracking" \in t.props /\ t.rowIdColumn # ""

StateInfo(t, fields) ==
    LET after[i \in 0..Len(fields)] ==
            IF i = 0 THEN [read |-> <<>>, spec |-> <<>>, last |-> "", ok |-> MetadataColumnsAreValid(t, fields)]
            ELSE PlanField(t, fields, after[i - 1], i)
        checked(plan) == IF plan.ok /\ StructIsValid(plan.read) THEN Ok(plan) ELSE Err
    IN  checked(after[Len(fields)])

-----------------------------------------------------------------------------
(* Reading: the columns of a file                                             *)

RECURSIVE count_cols(_)
count_cols(c) ==
    LET below[i \in 0..Len(c.kids)] == IF i = 0 THEN 0 ELSE below[i - 1] + count_cols(c.kids[i])
    IN  IF IsNested(c.type) THEN below[Len(c.kids)] ELSE 1

(* match_parquet_fields: the requested field with the id of the column, if    *)
(* both have one, else the one with its name; 0 if there is none.             *)
MatchedField(c, fields) ==
    LET byId == IF c.id = 0 THEN 0 ELSE SelectInSeq(fields, LAMBDA f : f.spec = "" /\ f.id = c.id)
    IN  IF byId # 0 THEN byId ELSE SelectInSeq(fields, LAMBDA f : f.name = c.name /\ f.spec = "")

Reorder(kind, index, kids) == [kind |-> kind, index |-> index, kids |-> kids]

SkippedLeaves_One(c) == 0

(* How far the leaf offset moves beyond the one place of a skipped column.    *)
SkippedLeaves(c) == count_cols(c) - 1

(* get_indices: for each column of the file that is wanted its place in the   *)
(* request, then the requested fields the file does not have; and the leaves  *)
(* to read, counted over the whole file. A list is passed through to the      *)
(* struct in it.                                                              *)
RECURSIVE get_indices(_, _, _)
get_indices(start, fields, cols) ==
    LET nested(acc, k, sub) ==
            [acc EXCEPT !.offset = @ + sub.advance - 1, !.mask = @ \cup sub.mask, !.ok = @ /\ sub.ok,
                        !.found = @ \cup {k}, !.order = Append(@, Reorder("nested", k, sub.order))]
        leaf(acc, i, k, kind) ==
            [acc EXCEPT !.mask = @ \cup {acc.offset + i - 1}, !.ok = @ /\ kind # "",
                        !.found = @ \cup {k}, !.order = Append(@, Reorder(kind, k, <<>>))]
        step(acc, i, c, k) ==
            IF k = 0 THEN [acc EXCEPT !.offset = @ + SkippedLeaves(c)]
            ELSE IF ~IsNested(c.type) THEN leaf(acc, i, k, ensure_data_types(fields[k].type, c.type))
            ELSE IF c.type # fields[k].type THEN [acc EXCEPT !.ok = FALSE]
            ELSE nested(acc, k, get_indices(acc.offset + i - 1, fields[k].kids, c.kids))
        after[i \in 0..Len(cols)] ==
            IF i = 0 THEN [offset |-> start, order |-> <<>>, mask |-> {}, found |-> {}, ok |-> TRUE]
            ELSE step(after[i - 1], i, cols[i], MatchedField(cols[i], fields))
        missing(found) == SelectSeq([k \in DOMAIN fields |-> k], LAMBDA k : k \notin found)
        filled(k) == Reorder(IF fields[k].spec = "" THEN "missing" ELSE fields[k].spec, k, <<>>)
        result(all, rest) ==
            [order |-> all.order \o [m \in DOMAIN rest |-> filled(rest[m])],
             mask |-> all.mask, advance |-> all.offset + Len(cols) - start,
             ok |-> all.ok /\ \A m \in DOMAIN rest : fields[rest[m]].nullable]
        finish(all) == result(all, missing(all.found))
    IN  finish(after[Len(cols)])

(* The Parquet reader returns the leaves of the mask, in the order of the     *)
(* file, and no struct or list that has none of them (external).              *)
RECURSIVE ReadLeaves(_, _, _)
ReadLeaves(cols, start, mask) ==
    LET first[i \in 1..Len(cols)] == IF i = 1 THEN start ELSE first[i - 1] + count_cols(cols[i - 1])
        struct(c, kids) == IF kids = <<>> THEN <<>> ELSE <<[c EXCEPT !.kids = kids]>>
        part(i) == IF IsNested(cols[i].type) THEN struct(cols[i], ReadLeaves(cols[i].kids, first[i], mask))
                   ELSE IF first[i] \in mask THEN <<cols[i]>> ELSE <<>>
    IN  Concat([i \in DOMAIN cols |-> part(i)])

RECURSIVE NullColumn(_, _)
NullColumn(f, rows) ==
    Column(f.name, f.id, f.type, [i \in DOMAIN f.kids |-> NullColumn(f.kids[i], rows)],
           IF IsNested(f.type) THEN <<>> ELSE [r \in 1..rows |-> Null])

RECURSIVE NeedsTransform(_)
NeedsTransform(order) ==
    \/ \E i \in DOMAIN order : order[i].kind \notin {"identity", "nested"} \/ NeedsTransform(order[i].kids)
    \/ \E i \in 2..Len(order) : order[i - 1].index >= order[i].index

(* reorder_struct_array: the column read at a position goes to the place that *)
(* the entry at that position names; the others are filled in (reorder_list   *)
(* does the same within a list). It panics if there are fewer columns, as     *)
(* when the reader has left one out.                                          *)
RECURSIVE reorder_struct_array(_, _, _, _, _)
reorder_struct_array(cols, order, fields, rows, file) ==
    LET struct(c, kids) == IF Failed(kids) THEN kids ELSE Ok([c EXCEPT !.kids = kids[1], !.id = 0])
        filled(f, kind) ==
            CASE kind = "missing"  -> NullColumn(f, rows)
              [] kind = "rowIndex" -> Column(f.name, 0, "long", <<>>, [r \in 1..rows |-> r - 1])
              [] kind = "filePath" -> Column(f.name, 0, "long", <<>>, [r \in 1..rows |-> file])
        made(i, o) ==
            CASE o.kind \in {"missing", "rowIndex", "filePath"} -> Ok(filled(fields[o.index], o.kind))
              [] i > Len(cols) -> Panic
              [] o.kind = "identity" -> Ok(cols[i])
              [] o.kind = "cast" -> Ok([cols[i] EXCEPT !.type = fields[o.index].type])
              [] o.kind = "nested" /\ ~IsNested(cols[i].type) -> Err
              [] o.kind = "nested" /\ IsNested(cols[i].type) ->
                    struct(cols[i], reorder_struct_array(cols[i].kids, o.kids, fields[o.index].kids, rows, file))
        at(k) == {i \in DOMAIN order : order[i].index = k}
        placed(cells) ==
            LET failed == SelectInSeq(cells, Failed)
            IN  IF failed # 0 THEN cells[failed]
                ELSE IF \E k \in DOMAIN order : at(k) = {} THEN Err
                ELSE Ok(Evaluated([k \in DOMAIN order |-> cells[Max(at(k))][1]]))
    IN  IF NeedsTransform(order) THEN placed(Evaluated([i \in DOMAIN order |-> made(i, order[i])])) ELSE Ok(cols)

read_parquet(file, number, fields) ==
    LET read(got) ==
            IF ~got.ok THEN Err
            ELSE reorder_struct_array(ReadLeaves(file.columns, 0, got.mask), got.order, fields, file.numRows, number)
    IN  read(get_indices(0, fields, file.columns))

-----------------------------------------------------------------------------
(* Reading: to the logical schema                                             *)

(* parse_partition_value: by the physical name of the column.                 *)
parse_partition_value(t, f, file) ==
    LET name == physical_name(f, column_mapping_mode(t))
    IN  IF name \in DOMAIN file.partitionValues THEN file.partitionValues[name] ELSE Null

(* coalesce(materialized, base + index)                                       *)
RowIds(base, materialized, index) == IF materialized # Null THEN materialized ELSE base + index

(* get_transform_expr and evaluate_transform_expression: the columns that the *)
(* transform makes of a batch, before they get their names.                   *)
Transformed(t, spec, fields, file, batch) ==
    LET vals(name) == batch[IndexOf(batch, name)].vals
        made(s) ==
            IF s.kind = "insert"
            THEN Column("", 0, fields[s.index].type, <<>>,
                        [r \in 1..file.numRows |-> parse_partition_value(t, fields[s.index], file)])
            ELSE Column("", 0, "long", <<>>,
                        [r \in 1..file.numRows |-> RowIds(file.base, vals(s.name)[r], vals(s.rows)[r])])
        inserted(name) == SelectSeq(spec, LAMBDA s : s.kind = "insert" /\ s.after = name)
        replaced(name) == SelectSeq(spec, LAMBDA s : s.kind # "insert" /\ s.name = name)
        made_all(specs) == [i \in DOMAIN specs |-> made(specs[i])]
        kept(c, instead) == IF instead = <<>> THEN <<c>> ELSE made_all(SelectSeq(instead, LAMBDA s : s.kind = "rowid"))
        after(c) == kept(c, replaced(c.name)) \o made_all(inserted(c.name))
    IN  made_all(inserted("")) \o Concat([i \in DOMAIN batch |-> after(batch[i])])

TransformsAreUsed(spec, batch) ==
    \A i \in DOMAIN spec :
        LET name == IF spec[i].kind = "insert" THEN spec[i].after ELSE spec[i].name
        IN  name = "" \/ IndexOf(batch, name) # 0

(* The fields of a logical schema have no Parquet field ids.                  *)
RECURSIVE WithoutIds(_)
WithoutIds(fields) == [i \in DOMAIN fields |-> [fields[i] EXCEPT !.id = 0, !.kids = WithoutIds(@)]]

(* transform_to_logical: without a transform the batch is passed on as read.  *)
transform_to_logical(t, plan, fields, file, batch) ==
    IF file.base = Null /\ \E i \in DOMAIN plan.spec : plan.spec[i].kind = "rowid" THEN Err
    ELSE IF Failed(batch) THEN batch
    ELSE IF plan.spec = <<>> /\ column_mapping_mode(t) = "none" THEN batch
    ELSE IF ~TransformsAreUsed(plan.spec, batch[1]) THEN Err
    ELSE apply_schema(Transformed(t, plan.spec, fields, file, batch[1]), WithoutIds(fields))

(* What a scan of the given logical schema makes of a file (execute).         *)
ScanFile(t, fields, file, number) ==
    LET execute(info) ==
            IF info = Err THEN Err
            ELSE transform_to_logical(t, info[1], fields, file, read_parquet(file, number, info[1].read))
    IN  execute(StateInfo(t, fields))

(* PhysicalPredicate: the column whose statistics stand for a logical column. *)
PredicateColumn(t, fields, path) == PhysicalPath(fields, path, column_mapping_mode(t))

=============================================================================
