------------------------------ MODULE TableLife ------------------------------
(* The life of a table, from CREATE TABLE through changes of its schema by    *)
(* other writers: the kernel appends and scans, and the columns of the rows   *)
(* must be the right ones whatever has been renamed, moved, dropped or added  *)
(* between the write of a file and a scan.                                    *)
EXTENDS CheckpointStats, SchemaDiff

CONSTANTS
    Requests,      \* CREATE TABLE requests
    ForeignTables, \* tables that another writer has made
    ColumnNames,   \* names for new and renamed columns
    MaxAlters,     \* changes of the schema
    MaxFiles,      \* data files
    MaxCheckpoints, \* checkpoints
    MaxAltersCheckpointed \* changes of the schema of a table with a checkpoint

VARIABLES
    table,   \* <<>> or <<the protocol and metadata of the table>>
    files,   \* data files, with their add actions
    alters,  \* how often the schema has changed
    idents,  \* identities given to columns so far
    report,  \* how the last operation of the kernel went
    origin,  \* the schema when the table was made, or got column mapping
    checkpoint \* the last checkpoint

vars == <<table, files, alters, idents, report, origin, checkpoint>>

T == table[1]
Mode == column_mapping_mode(T)
NumRows == 3

(* The value of a column in a row of a file; null ones as the file says.      *)
Value(number, ident, row, nulls) ==
    IF \/ nulls = "all" \/ (nulls = "first" /\ row = 1) THEN Null ELSE 100 * ident + 10 * number + row

Values(number, ident, nulls) == [row \in 1..NumRows |-> Value(number, ident, row, nulls)]

(* A file has one value for each of its partition columns.                    *)
PartitionValue(number, ident, nulls) == IF nulls = "all" THEN Null ELSE 1000 * ident + number

(* The batch an engine hands to the kernel: the rows in the logical schema.   *)
RECURSIVE LogicalBatch(_, _, _)
LogicalBatch(fields, number, nulls) ==
    [i \in DOMAIN fields |->
        LET f == fields[i]
        IN  Column(f.name, 0, f.type, LogicalBatch(f.kids, number, nulls),
                   IF IsNested(f.type) THEN <<>>
                   ELSE IF f.name \in T.partitions THEN [r \in 1..NumRows |-> PartitionValue(number, f.ident, nulls)]
                   ELSE Values(number, f.ident, nulls))]

(* What was written: the columns the table had and their values.              *)
Truth(number, nulls, rowIds) ==
    [idents |-> {AllFields(T.schema)[i].ident : i \in DOMAIN AllFields(T.schema)},
     nulls |-> nulls, rowIds |-> rowIds]

NoReport == [op |-> "none", ok |-> TRUE]

Init ==
    /\ files = <<>> /\ alters = 0 /\ report = NoReport /\ checkpoint = NoCheckpoint
    /\ \/ table = <<>> /\ idents = 0 /\ origin = <<>>
       \/ \E t \in ForeignTables : table = <<t>> /\ idents = Len(AllFields(t.schema)) /\ origin = t.schema

(* CreateTableTransactionBuilder::build and the commit of version 0.          *)
CreateKernelTable(r) ==
    /\ table = <<>>
    /\ table' = build(r)
    /\ idents' = Len(AllFields(r.schema))
    /\ origin' = IF build(r) = <<>> THEN <<>> ELSE build(r)[1].schema
    /\ report' = [op |-> "create", ok |-> build(r) # <<>>]
    /\ UNCHANGED <<files, alters, checkpoint>>

RowCount == NumRows * Len(files)

(* A transaction appends a batch through the default engine; its commit       *)
(* checks the statistics of clustering columns and assigns row ids.           *)
AppendRows(nulls) ==
    /\ table # <<>> /\ Len(files) < MaxFiles
    /\ LET number == Len(files) + 1
           values == [i \in 1..idents |-> PartitionValue(number, i, nulls)]
           written == write_parquet(T, LogicalBatch(T.schema, number, nulls), values, NumRows)
           ok == /\ ConfigurationIsValid(T) /\ ensure_write_supported(T)
                 /\ written # Err /\ StatsAreComplete(T, written[1].stats)
           tracked == should_write_row_tracking(T)
           add == [columns |-> written[1].columns, stats |-> <<written[1].stats>>,
                   partitionValues |-> written[1].partitionValues, numRows |-> NumRows,
                   base |-> IF tracked THEN RowCount ELSE Null,
                   truth |-> Truth(number, nulls, [r \in 1..NumRows |-> IF tracked THEN RowCount + r - 1 ELSE Null])]
       IN  /\ files' = IF ok THEN Append(files, add) ELSE files
           /\ report' = [op |-> "append", ok |-> ok]
    /\ UNCHANGED <<table, alters, idents, origin, checkpoint>>

(* Another writer adds a file: its columns in the reverse order, without      *)
(* statistics, with ids that some rows have kept from earlier files. In id    *)
(* mode it names them by their logical names (external).                      *)
ForeignAppend ==
    /\ table # <<>> /\ Len(files) < MaxFiles
    /\ LET number == Len(files) + 1
           tracked == "enableRowTracking" \in T.props
           data == SelectSeq(T.schema, LAMBDA f : f.name \notin T.partitions)
           named == [i \in DOMAIN data |->
                       LET f == MakePhysical(data[i], Mode)
                       IN  IF Mode = "id" THEN [f EXCEPT !.name = data[i].name] ELSE f]
           columns == apply_schema(LogicalBatch(data, number, "none"), named)[1]
           kept == Column(T.rowIdColumn, 0, "long", <<>>, [r \in 1..NumRows |-> IF r = 2 THEN 77 ELSE Null])
           partitions == {f \in Range(T.schema) : f.name \in T.partitions}
       IN  files' = Append(files,
              [columns |-> Reverse(columns) \o (IF tracked THEN <<kept>> ELSE <<>>), stats |-> <<>>,
               partitionValues |-> [n \in {physical_name(f, Mode) : f \in partitions} |->
                   PartitionValue(number, (CHOOSE f \in partitions : physical_name(f, Mode) = n).ident, "none")],
               numRows |-> NumRows, base |-> IF tracked THEN RowCount ELSE Null,
               truth |-> Truth(number, "none", [r \in 1..NumRows |-> IF ~tracked THEN Null ELSE IF r = 2 THEN 77 ELSE RowCount + r - 1])])
    /\ report' = NoReport
    /\ UNCHANGED <<table, alters, idents, origin, checkpoint>>

(* Snapshot::checkpoint, with the kinds of statistics the table has it write; *)
(* one for each version.                                                      *)
WriteCheckpoint(asJson, asStruct) ==
    /\ table # <<>> /\ files # <<>> /\ report.op # "checkpoint"
    /\ checkpoint.number < MaxCheckpoints /\ alters <= MaxAltersCheckpointed
    /\ LET made == checkpoint_data(T, checkpoint, [n \in DOMAIN files |-> files[n].stats], asJson, asStruct)
       IN  /\ checkpoint' = IF Failed(made) THEN checkpoint ELSE made[1]
           /\ report' = [op |-> "checkpoint", ok |-> ~Failed(made)]
    /\ UNCHANGED <<table, files, alters, idents, origin>>

-----------------------------------------------------------------------------
(* Changes of the schema by other writers (external). Levels of the schema:   *)
(* 0 is the top, i the fields within the struct or array at i.                *)

Levels == {0} \cup {i \in DOMAIN T.schema : IsNested(T.schema[i].type)}
At(level) == IF level = 0 THEN T.schema ELSE T.schema[level].kids
With(level, fields) == IF level = 0 THEN fields ELSE [T.schema EXCEPT ![level].kids = fields]

Alter(t) ==
    /\ table' = <<t>>
    /\ alters' = alters + 1
    /\ report' = NoReport
    /\ UNCHANGED <<files, checkpoint>>

CanAlter == table # <<>> /\ alters < (IF checkpoint = NoCheckpoint THEN MaxAlters ELSE MaxAltersCheckpointed)

NewColumn(name) ==
    LET f == Field(idents + 1, name, "long", <<>>)
    IN  IF Mode = "none" THEN f ELSE [f EXCEPT !.id = idents + 1, !.phys = Uuid(idents + 1)]

AddColumn(level, name, first) ==
    /\ name \notin Names(At(level)) /\ (first => level = 0)
    /\ Alter([T EXCEPT !.schema = With(level, IF first THEN <<NewColumn(name)>> \o At(level)
                                                       ELSE Append(At(level), NewColumn(name)))])
    /\ idents' = idents + 1
    /\ UNCHANGED origin

(* A column may be dropped or renamed if the table has column mapping.        *)
IsClustering(level, i) ==
    LET path == (IF level = 0 THEN <<>> ELSE <<physical_name(T.schema[level], Mode)>>)
                \o <<physical_name(At(level)[i], Mode)>>
    IN  \E c \in T.clustering : IsPrefix(path, c)

DropColumn(level, i) ==
    /\ Mode # "none" /\ \E k \in DOMAIN At(level) : k # i /\ At(level)[k].name \notin T.partitions
    /\ ~IsClustering(level, i) /\ At(level)[i].name \notin T.partitions
    /\ Alter([T EXCEPT !.schema = With(level, RemoveAt(At(level), i))])
    /\ UNCHANGED <<idents, origin>>

RenameColumn(level, i, name) ==
    /\ Mode # "none" /\ name \notin Names(At(level))
    /\ LET old == At(level)[i].name
       IN  Alter([T EXCEPT !.schema = With(level, [At(level) EXCEPT ![i].name = name]),
                           !.partitions = IF level = 0 /\ old \in @ THEN (@ \ {old}) \cup {name} ELSE @])
    /\ UNCHANGED <<idents, origin>>

MoveColumns(level) ==
    /\ Alter([T EXCEPT !.schema = With(level, Reverse(At(level)))])
    /\ UNCHANGED <<idents, origin>>

(* A column gets a wider type, a required one becomes nullable, the first one *)
(* gets a comment.                                                            *)
ChangeColumn(level, i) ==
    /\ LET f == At(level)[i]
           to(g) == Alter([T EXCEPT !.schema = With(level, [At(level) EXCEPT ![i] = g])])
       IN  \/ f.type = "integer" /\ "enableTypeWidening" \in T.props /\ to([f EXCEPT !.type = "long"])
           \/ ~f.nullable /\ to([f EXCEPT !.nullable = TRUE])
           \/ level = 0 /\ i = 1 /\ f.comment = "" /\ to([f EXCEPT !.comment = "text"])
    /\ UNCHANGED <<idents, origin>>

(* The columns of a table that gets column mapping keep their names as        *)
(* physical names.                                                            *)
RECURSIVE Annotated(_)
Annotated(fields) ==
    [i \in DOMAIN fields |->
        [fields[i] EXCEPT !.phys = fields[i].name, !.id = fields[i].ident, !.kids = Annotated(@)]]

EnableColumnMapping ==
    /\ T.mode = "unset"
    /\ LET p == T.protocol
           upgraded == IF p.minWriter < 7 THEN [p EXCEPT !.minReader = 2, !.minWriter = 5]
                       ELSE NewProtocol(Listed(p.writer) \cup {"columnMapping"})
       IN  Alter([T EXCEPT !.schema = Annotated(@), !.mode = "name", !.protocol = upgraded])
    /\ origin' = Annotated(T.schema)
    /\ UNCHANGED idents

Next ==
    \/ \E r \in Requests : CreateKernelTable(r)
    \/ \E nulls \in {"first", "all"} : AppendRows(nulls)
    \/ ForeignAppend
    \/ \E kinds \in {<<TRUE, FALSE>>, <<FALSE, TRUE>>, <<TRUE, TRUE>>} : WriteCheckpoint(kinds[1], kinds[2])
    \/ /\ CanAlter
       /\ \/ \E level \in Levels, name \in ColumnNames, first \in BOOLEAN : AddColumn(level, name, first)
          \/ \E level \in Levels : \E i \in DOMAIN At(level) : DropColumn(level, i)
          \/ \E level \in Levels, name \in ColumnNames : \E i \in DOMAIN At(level) : RenameColumn(level, i, name)
          \/ \E level \in Levels : MoveColumns(level)
          \/ \E level \in Levels : \E i \in DOMAIN At(level) : ChangeColumn(level, i)
          \/ EnableColumnMapping

Spec == Init /\ [][Next]_vars

-----------------------------------------------------------------------------
(* What a scan returns of a file, and what it should                          *)

RECURSIVE IsWhatWasWritten(_, _, _, _)
IsWhatWasWritten(c, f, truth, number) ==
    /\ c.name = f.name /\ c.type = f.type
    /\ IF IsNested(f.type)
       THEN /\ Len(c.kids) = Len(f.kids)
            /\ \A i \in DOMAIN f.kids : IsWhatWasWritten(c.kids[i], f.kids[i], truth, number)
       ELSE c.vals = IF f.ident \notin truth.idents THEN [r \in 1..NumRows |-> Null]
                     ELSE Values(number, f.ident, truth.nulls)

ColumnIsRight(c, f, number) ==
    LET truth == files[number].truth
    IN  CASE f.spec = "rowIndex" -> c.name = f.name /\ c.vals = [r \in 1..NumRows |-> r - 1]
          [] f.spec = "filePath" -> c.name = f.name /\ c.vals = [r \in 1..NumRows |-> number]
          [] f.spec = "rowId"    -> c.name = f.name /\ c.vals = truth.rowIds
          [] f.name \in T.partitions ->
                c.name = f.name /\ c.vals = [r \in 1..NumRows |-> PartitionValue(number, f.ident, truth.nulls)]
          [] OTHER -> IsWhatWasWritten(c, f, truth, number)

IsRight(batch, fields, number) ==
    /\ Len(batch) = Len(fields)
    /\ \A i \in DOMAIN fields : ColumnIsRight(batch[i], fields[i], number)

(* The schemas a scan may ask for: columns of the table, structs also with    *)
(* one of their fields, and metadata columns.                                 *)
Selectable ==
    LET narrowed == UNION {{[T.schema[i] EXCEPT !.kids = <<T.schema[i].kids[k]>>] : k \in DOMAIN T.schema[i].kids} :
                           i \in DOMAIN T.schema}
        metadata == {MetadataColumn("_index", "rowIndex"), MetadataColumn("_file", "filePath")}
                    \cup (IF "enableRowTracking" \in T.props THEN {MetadataColumn("_id", "rowId")} ELSE {})
    IN  Range(T.schema) \cup narrowed \cup metadata

Projections ==
    LET pairs == {p \in Selectable \X Selectable : p[1].name # p[2].name /\ "_file" \notin {p[1].name, p[2].name}}
    IN  {<<f>> : f \in Selectable} \cup pairs
        \cup {T.schema} \cup {Append(T.schema, f) : f \in {m \in Selectable : m.spec # ""}}

(* A partition column that follows a row id with no column of the file in     *)
(* between.                                                                   *)
PartitionAfterRowId(fields) ==
    \E i, k \in DOMAIN fields :
        /\ i < k /\ fields[i].spec = "rowId" /\ fields[k].name \in T.partitions
        /\ \A j \in (i + 1)..(k - 1) : fields[j].name \in T.partitions

(* A struct or array of which the file has the column and none of its fields: *)
(* the Parquet reader leaves it out, and reorder_struct_array counts on it.   *)
NoFieldInFile(f, file) ==
    /\ IsNested(f.type) /\ f.ident \in file.truth.idents
    /\ \A k \in DOMAIN f.kids : f.kids[k].ident \notin file.truth.idents

(* A partition column after a column that the file, in id mode, does not name *)
(* by its physical name, by which get_transform_expr looks for it.            *)
PartitionAfterOtherName(fields, file) ==
    /\ Mode = "id" /\ file.stats = <<>>
    /\ \E k \in DOMAIN fields :
         LET before == {i \in 1..(k - 1) : fields[i].name \notin T.partitions}
         IN  /\ fields[k].name \in T.partitions /\ before # {}
             /\ fields[Max(before)].spec = "" /\ fields[Max(before)].ident \in file.truth.idents

Readable == table # <<>> /\ ConfigurationIsValid(T) /\ ensure_read_supported(T, "scan")

(* Whatever columns a scan asks for, it is answered, with the values that     *)
(* were written to a column, and null for a column that the file was written  *)
(* without, however columns were renamed, moved, dropped and added since and  *)
(* whatever names, ids and order the file has; partition values, row ids and  *)
(* row indexes are those of the file and its rows (StateInfo, get_indices,    *)
(* reorder_struct_array, transform_to_logical). Three kinds of scans are not  *)
(* answered so, against the contract of read_parquet_files, and the property  *)
(* is about the others: a struct of which the file has no field is a panic or *)
(* an error and not NULLs; a partition column after a column that an id-mode  *)
(* file names otherwise is an error; and a partition column right after a row *)
(* id is put before it by StateInfo::try_new.                                 *)
SupportedScansAreRight ==
    Readable => \A fields \in Projections, n \in DOMAIN files :
                    \/ PartitionAfterRowId(fields)
                    \/ PartitionAfterOtherName(fields, files[n])
                    \/ \E i \in DOMAIN fields : NoFieldInFile(fields[i], files[n])
                    \/ LET got == ScanFile(T, fields, files[n], n)
                       IN  ~Failed(got) /\ IsRight(got[1], fields, n)

(* stats_parsed of the checkpoint has a struct without the column: the        *)
(* Parquet reader leaves out the struct, and reorder_struct_array panics.     *)
NoStatInCheckpoint(path) ==
    LET paths == ColumnPaths(checkpoint.columns[1].kids)
    IN  /\ checkpoint.columns # <<>>
        /\ \E p \in paths : Len(p) > 1 /\ <<p[1]>> \o path \notin paths

(* The statistics that a predicate on a logical column consults, in a commit  *)
(* or after any chain of checkpoints that keep them as JSON, as structs or as *)
(* both, are those of the same column at the time the file was written, or    *)
(* there are none; they bound its values and count its nulls. A file of a     *)
(* clustered table has them for every clustering column (StatsVerifier,       *)
(* PhysicalPredicate, build_checkpoint_transform, create_checkpoint_stream).  *)
(* The property is not about a column that stats_parsed of the checkpoint has *)
(* no statistics of: that scan panics, where structs_have_compatible_types    *)
(* says that missing fields are null.                                         *)
StatsAreOfTheirColumn ==
    LET adds == [n \in DOMAIN files |-> files[n].stats]
        vals(n, f) == IF f.name \in T.partitions THEN [r \in 1..NumRows |-> PartitionValue(n, f.ident, files[n].truth.nulls)]
                      ELSE Values(n, f.ident, files[n].truth.nulls)
        areOf(stat, f, n, values) ==
            /\ f.ident \in files[n].truth.idents
            /\ stat.nulls = Cardinality({r \in 1..NumRows : values[r] = Null})
            /\ stat.min # Null => \A v \in NonNull(values) : stat.min <= v /\ v <= stat.max
        right(got, n, f, path) ==
            ~Failed(got) /\ (got[1] # <<>> /\ path \in DOMAIN got[1][1].of => areOf(got[1][1].of[path], f, n, vals(n, f)))
        found(got, path) ==
            /\ ~Failed(got) /\ got[1] # <<>> /\ path \in DOMAIN got[1][1].of
            /\ got[1][1].of[path].min = Null => got[1][1].of[path].nulls = got[1][1].numRecords
    IN  \A n \in DOMAIN files :
          /\ \A l \in {k \in Range(Leaves(T.schema)) : ~IsNested(k.field.type)} :
                LET path == PredicateColumn(T, T.schema, l.path)
                IN  \/ n <= checkpoint.count /\ NoStatInCheckpoint(path)
                    \/ right(ScanStats(T, checkpoint, adds, n, path), n, l.field, path)
          /\ files[n].stats # <<>> => \A c \in T.clustering : found(ScanStats(T, checkpoint, adds, n, c), c)

(* A table that CREATE TABLE makes can be loaded, scanned and written to, and *)
(* so can one that its features say the kernel can write: its appends are     *)
(* accepted. Left out are clustering columns of type byte and short, which    *)
(* validate_clustering_columns accepts and column_types_for does not.         *)
CreatedTablesAreUsable ==
    /\ report.op = "create" /\ report.ok =>
         /\ ConfigurationIsValid(T) /\ ProtocolIsValid(T.protocol)
         /\ ensure_read_supported(T, "scan") /\ ensure_read_supported(T, "cdf") /\ ensure_write_supported(T)
    /\ report.op = "append" /\ ~report.ok =>
         \/ ~ensure_write_supported(T)
         \/ \E c \in T.clustering : Last(WalkFields(PhysicalSchema(T), c)).type \in {"byte", "short"}

(* What has become of the columns since origin, by identity: a column that is *)
(* within a new or dropped one is not reported of its own.                    *)
RECURSIVE Places(_, _)
Places(fields, within) ==
    UNION {{[field |-> f, within |-> within]} \cup Places(f.kids, within \cup {f.ident}) : f \in Range(fields)}


=============================================================================
