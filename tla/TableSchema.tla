----------------------------- MODULE TableSchema -----------------------------
(* Schemas, the mapping from logical to physical columns, which columns have  *)
(* statistics.                                                                *)
(* Source: kernel/src/schema/mod.rs, table_features/column_mapping.rs,        *)
(* table_configuration.rs and scan/data_skipping/stats_schema.                *)
EXTENDS TableFeatures, SequencesExt, Integers

(* A schema is a sequence of fields. phys and id are the column mapping       *)
(* annotations ("" and 0 when absent), spec the kind of a metadata column ("" *)
(* for others). The kids of an array are the fields of the structs in it.     *)
(* ident is not in the code: it is which column a field is, whatever its name *)
(* and place. Only structs and arrays may be required.                        *)
Field(ident, name, type, kids) ==
    [ident |-> ident, name |-> name, type |-> type, kids |-> kids, phys |-> "", id |-> 0, spec |-> "",
     nullable |-> TRUE, comment |-> ""]

IsNested(type) == type \in {"struct", "array"}

MetadataColumn(name, spec) ==
    [Field(0, name, "long", <<>>) EXCEPT !.spec = spec]

(* The name "col-<uuid>" that a new column gets: no other column has it.      *)
Uuid(ident) == <<"col-1", "col-2", "col-3", "col-4", "col-5", "col-6", "col-7", "col-8", "col-9">>[ident]

(* A sequence, each element of which TLC evaluates once.                      *)
Evaluated(seq) == seq \o <<>>

Concat(seqs) ==
    LET all == Evaluated(seqs)
        upto[i \in 0..Len(all)] == IF i = 0 THEN <<>> ELSE upto[i - 1] \o all[i]
    IN  upto[Len(all)]

RECURSIVE AllFields(_)
AllFields(fields) == Concat([i \in DOMAIN fields |-> <<fields[i]>> \o AllFields(fields[i].kids)])

Names(fields) == {fields[i].name : i \in DOMAIN fields}

(* The position of a field by name, 0 if there is none.                       *)
IndexOf(fields, name) == SelectInSeq(fields, LAMBDA f : f.name = name)

(* StructType::try_new: no two fields of a struct have the same name.         *)
StructIsValid(fields) == Cardinality(Names(fields)) = Len(fields)

(* walk_column_fields: the fields along a path through structs, <<>> if it    *)
(* does not resolve.                                                          *)
RECURSIVE WalkFields(_, _)
WalkFields(fields, path) ==
    LET i == IndexOf(fields, path[1])
        rest == WalkFields(fields[i].kids, Tail(path))
    IN  IF i = 0 THEN <<>>
        ELSE IF Len(path) = 1 THEN <<fields[i]>>
        ELSE IF fields[i].type # "struct" \/ rest = <<>> THEN <<>> ELSE <<fields[i]>> \o rest

physical_name(f, mode) == IF mode = "none" \/ f.phys = "" THEN f.name ELSE f.phys

(* get_field_column_mapping_info for every field: annotations are present     *)
(* exactly if the mode asks for them, and no id is used twice.                *)
MappingIsValid(fields, mode) ==
    LET all == SelectSeq(AllFields(fields), LAMBDA f : f.spec = "")
    IN  IF mode = "none"
        THEN \A i \in DOMAIN all : all[i].phys = "" /\ all[i].id = 0
        ELSE /\ \A i \in DOMAIN all : all[i].phys # "" /\ all[i].id # 0
             /\ Cardinality({all[i].id : i \in DOMAIN all}) = Len(all)

(* MakePhysical of a valid field; the Parquet field id is set in both modes.  *)
RECURSIVE MakePhysical(_, _)
MakePhysical(f, mode) ==
    IF f.spec # "" THEN f
    ELSE [f EXCEPT !.name = physical_name(f, mode),
                   !.id = IF mode = "none" THEN 0 ELSE @,
                   !.kids = Evaluated([i \in DOMAIN f.kids |-> MakePhysical(f.kids[i], mode)])]

PhysicalSchema(t) ==
    Evaluated([i \in DOMAIN t.schema |-> MakePhysical(t.schema[i], column_mapping_mode(t))])

(* get_any_level_column_physical_name, <<>> if the path does not resolve.     *)
PhysicalPath(fields, path, mode) ==
    LET walk == WalkFields(fields, path) IN [i \in DOMAIN walk |-> physical_name(walk[i], mode)]

UsesType(t, type) == \E i \in DOMAIN AllFields(t.schema) : AllFields(t.schema)[i].type = type

(* TableConfiguration::try_new, for a table whose protocol was parsed.        *)
ConfigurationIsValid(t) ==
    /\ MappingIsValid(t.schema, column_mapping_mode(t))
    /\ UsesType(t, "timestamp_ntz") => has_table_feature(t.protocol, "timestampNtz")
    /\ UsesType(t, "variant") => \/ has_table_feature(t.protocol, "variantType")
                                 \/ has_table_feature(t.protocol, "variantType-preview")

-----------------------------------------------------------------------------
(* Columns with statistics                                                    *)

RECURSIVE Leaves(_)
Leaves(fields) ==
    Concat([i \in DOMAIN fields |->
        IF fields[i].type # "struct" THEN <<[path |-> <<fields[i].name>>, field |-> fields[i]]>>
        ELSE LET below == Leaves(fields[i].kids)
             IN  [k \in DOMAIN below |-> [below[k] EXCEPT !.path = <<fields[i].name>> \o @]]])

(* ColumnTrie::contains_prefix_of                                             *)
HasPrefixIn(path, columns) == \E c \in columns : IsPrefix(c, path)

(* required_stats_columns_physical; a name that does not resolve is skipped.  *)
StatsColumnsProperty(t) ==
    LET data == SelectSeq(t.schema, LAMBDA f : f.name \notin t.partitions)
    IN  {PhysicalPath(data, c, column_mapping_mode(t)) : c \in t.statsColumns[1]} \ {<<>>}

(* Pass 2 of collect_columns: clustering columns are added to the others.     *)
WithRequired(paths, fields, required) ==
    paths \cup {c \in required : WalkFields(fields, c) # <<>>}

(* The columns with statistics of a physical schema: those of                 *)
(* dataSkippingStatsColumns if it is set, else the first                      *)
(* dataSkippingNumIndexedCols leaves, and always the required ones.           *)
StatsColumnsIn(t, fields, required) ==
    LET leaves == SelectSeq(Leaves(fields), LAMBDA l : l.field.type \notin {"variant", "array"})
        limit == IF t.numIndexed < Len(leaves) THEN t.numIndexed ELSE Len(leaves)
    IN  IF t.statsColumns # <<>>
        THEN {leaves[i].path : i \in {k \in DOMAIN leaves :
                 HasPrefixIn(leaves[k].path, WithRequired(StatsColumnsProperty(t), fields, required))}}
        ELSE WithRequired({leaves[i].path : i \in 1..limit}, fields, required)

(* stats_column_names_physical                                                *)
stats_columns(t, required) == StatsColumnsIn(t, PhysicalSchema(t), required)

=============================================================================
