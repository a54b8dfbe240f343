--------------------------- MODULE CheckpointStats ---------------------------
(* Statistics of files in checkpoints: as JSON, as a struct whose fields are  *)
(* columns of the checkpoint, or as both; and how a later checkpoint and a    *)
(* scan read them. An add action has statistics (<<>> if it has none) as      *)
(* collect_stats makes them.                                                  *)
(* Source: kernel/src/checkpoint/checkpoint_transform.rs, checkpoint/mod.rs,  *)
(* log_segment.rs, scan/log_replay.rs, scan/data_skipping/stats_schema/.      *)
EXTENDS CreateTable, ColumnIo

-----------------------------------------------------------------------------
(* Schemas of statistics                                                      *)

(* BaseStatsTransform: the leaves at some paths, without their metadata; a    *)
(* struct of which no leaf is left is left out.                               *)
RECURSIVE Pruned(_, _, _)
Pruned(fields, parent, paths) ==
    LET struct(f, kids) == IF kids = <<>> THEN <<>> ELSE <<Field(0, f.name, "struct", kids)>>
        part(f, path) ==
            IF f.type = "struct" THEN struct(f, Pruned(f.kids, path, paths))
            ELSE IF path \in paths THEN <<Field(0, f.name, f.type, <<>>)>> ELSE <<>>
    IN  Concat([i \in DOMAIN fields |-> part(fields[i], Append(parent, fields[i].name))])

(* NullCountStatsTransform                                                    *)
RECURSIVE NullCounts(_)
NullCounts(fields) ==
    [i \in DOMAIN fields |->
        IF fields[i].type = "struct" THEN [fields[i] EXCEPT !.kids = NullCounts(@)]
        ELSE [fields[i] EXCEPT !.type = "long"]]

(* tightBounds, which no reader uses, is left out.                            *)
StatsSchema(base, minMax) ==
    LET struct(name, kids) == IF kids = <<>> THEN <<>> ELSE <<Field(0, name, "struct", kids)>>
    IN  <<Field(0, "numRecords", "long", <<>>)>> \o struct("nullCount", NullCounts(base))
        \o struct("minValues", minMax) \o struct("maxValues", minMax)

(* build_expected_stats_schemas and expected_stats_schema: the columns of the *)
(* data with statistics; smallest and largest values only of eligible types.  *)
expected_stats_schema(t) ==
    LET data == SelectSeq(t.schema, LAMBDA f : f.name \notin t.partitions)
        schema(fields, columns) ==
            StatsSchema(Pruned(fields, <<>>, columns),
                        Pruned(fields, <<>>, {c \in columns : Last(WalkFields(fields, c)).type \in SkippingEligible}))
        of(fields) == schema(fields, StatsColumnsIn(t, fields, t.clustering))
    IN  of([i \in DOMAIN data |-> MakePhysical(data[i], column_mapping_mode(t))])

(* build_stats_schema for a predicate on one column.                          *)
build_stats_schema(t, path) ==
    LET schema(referenced) == StatsSchema(referenced, referenced)
    IN  schema(Pruned(PhysicalSchema(t), <<>>, {path}))

-----------------------------------------------------------------------------
(* JSON and structs                                                           *)

StatAt(stats, path) ==
    CASE path = <<"numRecords">> -> stats.numRecords
      [] Tail(path) \notin DOMAIN stats.of -> Null
      [] path[1] = "nullCount" -> stats.of[Tail(path)].nulls
      [] path[1] = "minValues" -> stats.of[Tail(path)].min
      [] path[1] = "maxValues" -> stats.of[Tail(path)].max

(* ParseJson: the columns of the struct, one row for each add action. Without *)
(* JSON all of them are null, but the struct is not.                          *)
RECURSIVE ParseJson(_, _, _)
ParseJson(stats, fields, parent) ==
    LET cell(s, path) == IF s = <<>> THEN Null ELSE StatAt(s[1], path)
        column(f, path) ==
            Column(f.name, 0, f.type, ParseJson(stats, f.kids, path),
                   IF f.type = "struct" THEN <<>> ELSE [r \in DOMAIN stats |-> cell(stats[r], path)])
    IN  Evaluated([i \in DOMAIN fields |-> column(fields[i], Append(parent, fields[i].name))])

(* ToJson of a row: nulls are not written.                                    *)
ToJson(columns, row) ==
    LET paths == ColumnPaths(columns)
        at(path) == IF path \in paths THEN ColumnAt(columns, path).vals[row] ELSE Null
        stat(c) == [nulls |-> at(<<"nullCount">> \o c), min |-> at(<<"minValues">> \o c), max |-> at(<<"maxValues">> \o c)]
        written == {Tail(p) : p \in {q \in paths : Len(q) > 1 /\ at(q) # Null}}
    IN  [numRecords |-> at(<<"numRecords">>), of |-> [c \in written |-> stat(c)]]

-----------------------------------------------------------------------------
(* Checkpoints: the add actions with their JSON, the column stats_parsed.     *)

Checkpoint(count, json, columns, number) == [count |-> count, json |-> json, columns |-> columns, number |-> number]
NoCheckpoint == Checkpoint(0, <<>>, <<>>, 0)

(* The struct stats_parsed of each row, read in a schema of statistics; it is *)
(* null if the checkpoint does not have the column.                           *)
ReadStatsParsed(cp, schema) ==
    LET row(columns, r) == IF cp.columns # <<>> THEN <<ToJson(columns[1].kids, r)>> ELSE <<>>
        rows(got) == IF Failed(got) THEN got ELSE Ok([r \in 1..cp.count |-> row(got[1], r)])
    IN  rows(read_parquet([columns |-> cp.columns, numRows |-> cp.count], 0, <<Field(0, "stats_parsed", "struct", schema)>>))

Coalesce(first, second) == [r \in DOMAIN first |-> IF first[r] # <<>> THEN first[r] ELSE second[r]]

build_stats_parsed_expr_JsonOnly(parsed, json) == json

build_stats_parsed_expr(parsed, json) == Coalesce(parsed, json)
STATS_JSON_EXPR(parsed, json) == Coalesce(json, parsed)

(* checkpoint_data: the add actions of the last checkpoint and of the commits *)
(* after it, with both kinds of statistics, of which each is filled from the  *)
(* other; the table says which are written.                                   *)
checkpoint_data(t, cp, adds, asJson, asStruct) ==
    LET none == [r \in DOMAIN adds |-> <<>>]
        result(json, parsed, schema) ==
            Checkpoint(Len(adds), IF asJson THEN json ELSE none,
                       IF asStruct THEN <<Column("stats_parsed", 0, "struct", ParseJson(parsed, schema, <<>>), <<>>)>> ELSE <<>>,
                       cp.number + 1)
        written(json, parsed, schema) == result(STATS_JSON_EXPR(parsed, json), build_stats_parsed_expr(parsed, json), schema)
        all(first) == [r \in DOMAIN adds |-> IF r <= cp.count THEN first[r] ELSE adds[r]]
        padded(first) == [r \in DOMAIN adds |-> IF r <= cp.count THEN first[r] ELSE <<>>]
        made(schema, got) == IF Failed(got) THEN got ELSE Ok(written(all(cp.json), padded(got[1]), schema))
        in(schema) == made(schema, ReadStatsParsed(cp, schema))
    IN  in(expected_stats_schema(t))

-----------------------------------------------------------------------------
(* Scans                                                                      *)

(* DataType::can_read_as for the types here.                                  *)
CanWidenTo == [byte |-> {"short", "integer", "long"}, short |-> {"integer", "long"}, integer |-> {"long"}]
can_read_as(type, read) == type = read \/ (type \in DOMAIN CanWidenTo /\ read \in CanWidenTo[type])

RECURSIVE structs_have_compatible_types(_, _)
structs_have_compatible_types(available, needed) ==
    \A f \in Range(needed) : \A c \in {d \in Range(available) : d.name = f.name} :
        IF c.type = "struct" /\ f.type = "struct" THEN structs_have_compatible_types(c.kids, f.kids)
        ELSE can_read_as(c.type, f.type)

schema_has_compatible_stats_parsed(cp, schema) ==
    LET values(fields) == SelectSeq(fields, LAMBDA f : f.name \in {"minValues", "maxValues"})
    IN  cp.columns # <<>> /\ structs_have_compatible_types(values(cp.columns[1].kids), values(schema))

(* create_checkpoint_stream: the rows of the checkpoint with the struct it    *)
(* has if the types fit, else with their JSON.                                *)
create_checkpoint_stream(cp, schema) ==
    IF schema_has_compatible_stats_parsed(cp, schema) THEN ReadStatsParsed(cp, schema) ELSE Ok(cp.json)

(* get_add_transform_expr: the statistics of an add action that a scan with a *)
(* predicate on a column consults; those of a commit are JSON.                *)
ScanStats(t, cp, adds, number, path) ==
    LET row(rows) == IF Failed(rows) THEN rows ELSE Ok(rows[1][number])
    IN  IF number > cp.count THEN Ok(adds[number])
        ELSE row(create_checkpoint_stream(cp, build_stats_schema(t, path)))

=============================================================================
