---------------------------- MODULE TableFeatures ----------------------------
(* Which tables the kernel agrees to read and write: protocol versions, table *)
(* features, what each feature needs and what switches it on.                 *)
(* Source: kernel/src/table_features/mod.rs, actions/mod.rs (Protocol) and    *)
(* table_configuration.rs. The catalog-managed features are compiled in.      *)
EXTENDS Naturals, Sequences

(* A protocol is [minReader, minWriter, reader, writer]; the feature lists    *)
(* are options: <<>> or <<a set of names>>. A table also has the mode of its  *)
(* delta.columnMapping.mode ("unset" if it has none) and, in props, the       *)
(* Boolean properties that are set to true.                                   *)

WriterOnlyFeatures ==
    {"appendOnly", "invariants", "checkConstraints", "changeDataFeed", "generatedColumns",
     "identityColumns", "inCommitTimestamp", "rowTracking", "domainMetadata", "icebergCompatV1",
     "icebergCompatV2", "clustering", "materializePartitionColumns"}

ReaderWriterFeatures ==
    {"catalogManaged", "catalogOwned-preview", "columnMapping", "deletionVectors", "timestampNtz",
     "typeWidening", "typeWidening-preview", "v2Checkpoint", "vacuumProtocolCheck", "variantType",
     "variantType-preview", "variantShredding-preview"}

(* min_legacy_version: the reader and writer versions that imply a feature.   *)
LegacyVersions ==
    [appendOnly |-> <<1, 2>>, invariants |-> <<1, 2>>, checkConstraints |-> <<1, 3>>,
     changeDataFeed |-> <<1, 4>>, generatedColumns |-> <<1, 4>>, columnMapping |-> <<2, 5>>,
     identityColumns |-> <<1, 6>>]

MinReader(f) == IF f \in DOMAIN LegacyVersions THEN LegacyVersions[f][1] ELSE 3
MinWriter(f) == IF f \in DOMAIN LegacyVersions THEN LegacyVersions[f][2] ELSE 7

Listed(features) == IF features = <<>> THEN {} ELSE features[1]

has_table_feature(p, f) == f \in Listed(p.writer)

(* Protocol::try_new                                                          *)
ProtocolIsValid(p) ==
    /\ p.minReader = 3 <=> p.reader # <<>>
    /\ p.minWriter = 7 <=> p.writer # <<>>
    /\ p.reader # <<>> =>
         /\ p.writer # <<>>
         /\ Listed(p.reader) \cap WriterOnlyFeatures = {}
         /\ Listed(p.reader) \subseteq Listed(p.writer)
    /\ \A f \in Listed(p.writer) \cap ReaderWriterFeatures :
         IF p.reader # <<>> THEN f \in Listed(p.reader) ELSE p.minReader = 2 /\ f = "columnMapping"

ReaderSupports(p, f) == IF p.minReader < 3 THEN p.minReader >= MinReader(f) ELSE f \in Listed(p.reader)
WriterSupports(p, f) == IF p.minWriter < 7 THEN p.minWriter >= MinWriter(f) ELSE f \in Listed(p.writer)

is_feature_supported(t, f) ==
    \/ f \in WriterOnlyFeatures /\ WriterSupports(t.protocol, f)
    \/ f \in ReaderWriterFeatures /\ ReaderSupports(t.protocol, f) /\ WriterSupports(t.protocol, f)

(* enablement_check: the properties behind a feature; for the others support  *)
(* is enough.                                                                 *)
SwitchedOn(t, f) ==
    CASE f = "appendOnly"        -> "appendOnly" \in t.props
      [] f = "changeDataFeed"    -> "enableChangeDataFeed" \in t.props
      [] f = "inCommitTimestamp" -> "enableInCommitTimestamps" \in t.props
      [] f = "rowTracking"       -> "enableRowTracking" \in t.props /\ "rowTrackingSuspended" \notin t.props
      [] f = "icebergCompatV1"   -> "enableIcebergCompatV1" \in t.props
      [] f = "icebergCompatV2"   -> "enableIcebergCompatV2" \in t.props
      [] f = "deletionVectors"   -> "enableDeletionVectors" \in t.props
      [] f \in {"typeWidening", "typeWidening-preview"} -> "enableTypeWidening" \in t.props
      [] f = "columnMapping"     -> t.mode \in {"name", "id"}
      [] OTHER -> TRUE

is_feature_enabled(t, f) == is_feature_supported(t, f) /\ SwitchedOn(t, f)

(* feature_requirements                                                       *)
RequirementsHold(t, f) ==
    CASE f \in {"rowTracking", "clustering"} -> is_feature_supported(t, "domainMetadata")
      [] f = "icebergCompatV1" ->
            is_feature_enabled(t, "columnMapping") /\ ~is_feature_supported(t, "deletionVectors")
      [] f = "icebergCompatV2" ->
            /\ is_feature_enabled(t, "columnMapping")
            /\ ~is_feature_enabled(t, "icebergCompatV1") /\ ~is_feature_enabled(t, "deletionVectors")
      [] OTHER -> TRUE

(* kernel_support                                                             *)
KernelSupports(f, operation) ==
    /\ f \in WriterOnlyFeatures \cup ReaderWriterFeatures
    /\ f \notin {"checkConstraints", "generatedColumns", "identityColumns", "icebergCompatV1", "icebergCompatV2"}
    /\ operation = "write" => f \notin {"typeWidening", "typeWidening-preview"}
    /\ operation = "cdf" => f \notin {"catalogManaged", "catalogOwned-preview"}

check_feature_support(t, f, operation) == KernelSupports(f, operation) /\ RequirementsHold(t, f)

EnabledReaderFeatures(p) ==
    IF p.minReader = 3 THEN Listed(p.reader)
    ELSE {f \in {"columnMapping"} : p.minReader \in 1..2 /\ p.minReader >= MinReader(f)}

EnabledWriterFeatures(p) ==
    IF p.minWriter = 7 THEN Listed(p.writer)
    ELSE {f \in DOMAIN LegacyVersions : p.minWriter \in 1..6 /\ p.minWriter >= MinWriter(f)}

ensure_read_supported(t, operation) ==
    /\ t.protocol.minReader <= 3
    /\ \A f \in EnabledReaderFeatures(t.protocol) : check_feature_support(t, f, operation)

(* Columns with invariants are not modelled.                                  *)
ensure_write_supported(t) ==
    /\ t.protocol.minWriter <= 7
    /\ \A f \in EnabledWriterFeatures(t.protocol) : check_feature_support(t, f, "write")

should_write_row_tracking(t) ==
    is_feature_supported(t, "rowTracking") /\ "rowTrackingSuspended" \notin t.props

(* column_mapping_mode: the mode in effect.                                   *)
column_mapping_mode(t) ==
    IF /\ t.mode # "unset"
       /\ \/ t.protocol.minReader = 2
          \/ t.protocol.minReader = 3 /\ has_table_feature(t.protocol, "columnMapping")
    THEN t.mode ELSE "none"

=============================================================================
