----------------------------- MODULE CreateTable -----------------------------
(* CreateTableTransactionBuilder::build: from a schema, properties and a data *)
(* layout to the protocol and metadata of version 0.                          *)
(* Source: kernel/src/transaction/builder/create_table.rs, clustering.rs and  *)
(* table_features/column_mapping.rs.                                          *)
EXTENDS TableSchema

(* A request is [schema, signals, mode, props, layout]: the features asked    *)
(* for with delta.feature.<name>, the Boolean delta properties that are set,  *)
(* and the clustering columns, as an option.                                  *)

AllowedFeatures ==
    {"domainMetadata", "columnMapping", "inCommitTimestamp", "vacuumProtocolCheck", "v2Checkpoint"}
AllowedProperties == {"enableInCommitTimestamps"}

(* assign_column_mapping_metadata: ids from 1 in the order of the traversal,  *)
(* which for the fields of a request is the order of their identities.        *)
RECURSIVE assign_column_mapping_metadata(_)
assign_column_mapping_metadata(fields) ==
    [i \in DOMAIN fields |->
        [fields[i] EXCEPT !.id = fields[i].ident, !.phys = Uuid(fields[i].ident),
                          !.kids = assign_column_mapping_metadata(@)]]

IsAnnotated(fields) ==
    \E i \in DOMAIN AllFields(fields) : AllFields(fields)[i].id # 0 \/ AllFields(fields)[i].phys # ""

(* is_skipping_eligible_datatype                                              *)
SkippingEligible == {"byte", "short", "integer", "long", "timestamp_ntz"}

(* validate_clustering_columns                                                *)
ClusteringIsValid(fields, columns) ==
    /\ columns # <<>>
    /\ Cardinality(Range(columns)) = Len(columns)
    /\ \A i \in DOMAIN columns :
         LET walk == WalkFields(fields, columns[i])
         IN  walk # <<>> /\ Last(walk).type \in SkippingEligible

Accepted(r) ==
    /\ r.schema # <<>>
    /\ r.signals \subseteq AllowedFeatures
    /\ r.props \subseteq AllowedProperties
    /\ r.mode \in {"name", "id"} => ~IsAnnotated(r.schema)
    /\ r.layout # <<>> => ClusteringIsValid(r.schema, r.layout[1])

EnabledBySchema(r) ==
    LET uses(type) == \E i \in DOMAIN AllFields(r.schema) : AllFields(r.schema)[i].type = type
    IN  (IF uses("variant") THEN {"variantType"} ELSE {})
        \cup (IF uses("timestamp_ntz") THEN {"timestampNtz"} ELSE {})

EnabledByLayout_NoDomain(r) == IF r.layout # <<>> THEN {"clustering"} ELSE {}

(* maybe_enable_clustering                                                    *)
EnabledByLayout(r) == IF r.layout # <<>> THEN {"domainMetadata", "clustering"} ELSE {}

EnabledByProperties(r) ==
    (IF r.mode \in {"name", "id"} THEN {"columnMapping"} ELSE {})
    \cup (IF "enableInCommitTimestamps" \in r.props THEN {"inCommitTimestamp"} ELSE {})

(* add_feature_to_lists puts a feature on the lists of its type.              *)
NewProtocol(features) ==
    [minReader |-> 3, minWriter |-> 7,
     reader |-> <<features \cap ReaderWriterFeatures>>, writer |-> <<features>>]

NewTable(r) ==
    LET mapped == r.mode \in {"name", "id"}
        fields == IF mapped THEN assign_column_mapping_metadata(r.schema) ELSE r.schema
    IN  [protocol |-> NewProtocol(r.signals \cup EnabledByProperties(r) \cup EnabledByLayout(r) \cup EnabledBySchema(r)),
         mode |-> r.mode, props |-> r.props, schema |-> fields, partitions |-> {},
         statsColumns |-> <<>>, numIndexed |-> 32, rowIdColumn |-> "",
         clustering |-> IF r.layout = <<>> THEN {}
                        ELSE {PhysicalPath(fields, c, IF mapped THEN r.mode ELSE "none") : c \in Range(r.layout[1])}]

(* build: the table, or <<>> when the request is refused.                     *)
build(r) ==
    IF Accepted(r) /\ ProtocolIsValid(NewTable(r).protocol) /\ ConfigurationIsValid(NewTable(r))
    THEN <<NewTable(r)>> ELSE <<>>

=============================================================================
