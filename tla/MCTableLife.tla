---------------------------- MODULE MCTableLife ----------------------------
(* Small instances of TableLife for model checking.                          *)
EXTENDS TableLife

(* a, and a struct s of x and y.                                              *)
Nested(type) ==
    <<Field(1, "a", type, <<>>),
      Field(2, "s", "struct", <<Field(3, "x", "long", <<>>), Field(4, "y", "long", <<>>)>>)>>

Flat(type) == <<Field(1, "a", "long", <<>>), Field(2, "p", type, <<>>)>>

(* A column to be widened and a required array of structs.                    *)
WithArray == <<Field(1, "a", "integer", <<>>),
             [Field(2, "l", "array", <<Field(3, "x", "long", <<>>), Field(4, "y", "integer", <<>>)>>) EXCEPT !.nullable = FALSE]>>

Request(schema, signals, mode, props, layout) ==
    [schema |-> schema, signals |-> signals, mode |-> mode, props |-> props, layout |-> layout]

ByY == << <<<<"s", "y">>>> >>

BadLayouts == {<< <<>> >>, << <<<<"a">>, <<"a">>>> >>, << <<<<"z">>>> >>, << <<<<"s">>>> >>}

AllRequests ==
    {Request(Nested("long"), {}, mode, {}, <<>>) : mode \in {"none", "name", "id"}}
    \cup {Request(Nested("long"), {}, mode, {}, ByY) : mode \in {"unset", "name"}}
    \cup {Request(Nested("long"), {}, "name", {}, layout) : layout \in BadLayouts}
    \cup {Request(Flat(type), signals, "name", {"enableInCommitTimestamps"}, <<>>) :
            type \in {"timestamp_ntz", "variant"}, signals \in {{"v2Checkpoint"}, {"rowTracking"}}}
    \cup {Request(Flat("byte"), {}, "unset", {}, << <<<<"p">>>> >>),
          Request(Flat("boolean"), {}, "unset", {}, << <<<<"p">>>> >>),
          Request(Flat("long"), {}, "unset", {"enableRowTracking"}, <<>>),
          Request(<<>>, {}, "unset", {}, <<>>)}

Foreign(schema, protocol, mode, props, partitions) ==
    [protocol |-> protocol, mode |-> mode, props |-> props, schema |-> schema, partitions |-> partitions,
     statsColumns |-> <<>>, numIndexed |-> 1, rowIdColumn |-> "_row_id", clustering |-> {}]

Legacy == [minReader |-> 1, minWriter |-> 2, reader |-> <<>>, writer |-> <<>>]

(* A legacy table, to be upgraded; a partitioned table with row tracking; one *)
(* partitioned in id mode; one with type widening and an array; and one that  *)
(* only says it is clustered.                                                 *)
AllForeign ==
    {Foreign(Nested("long"), Legacy, "unset", {}, {}),
     Foreign(Flat("long"), NewProtocol({"rowTracking", "domainMetadata"}), "unset", {"enableRowTracking"}, {"p"}),
     Foreign(assign_column_mapping_metadata(Flat("long")),
             NewProtocol({"columnMapping", "materializePartitionColumns"}), "id", {}, {"p"}),
     Foreign(assign_column_mapping_metadata(WithArray), NewProtocol({"columnMapping", "typeWidening"}), "name",
             {"enableTypeWidening"}, {}),
     [Foreign(Nested("long"), NewProtocol({"clustering", "domainMetadata"}), "unset", {}, {})
        EXCEPT !.clustering = {<<"s", "y">>}, !.statsColumns = <<{<<"a">>, <<"z">>}>>]}

=============================================================================
