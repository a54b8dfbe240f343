----------------------------- MODULE MCEngineIo -----------------------------
(* Small instances of EngineIo for model checking.                           *)
EXTENDS EngineIo

CONSTANTS c1, c2, c3

ThreeCallers == {c1, c2, c3}

Plan(flavor, op1, read1, op2, read2, op3, read3) ==
    [flavor |-> flavor,
     op |-> (c1 :> op1 @@ c2 :> op2 @@ c3 :> op3),
     reads |-> (c1 :> read1 @@ c2 :> read2 @@ c3 :> read3)]

(* Reads and a write that share the background thread and its channel; a      *)
(* Parquet file written on it, which is not supported; reads and writes while *)
(* one Parquet file is written, and two Parquet files at once, which leaves   *)
(* one thread of MaxBlocking = 3.                                             *)
AllSetups ==
    {Plan("background", "read", "buffered", "write_json", "file_stream", "idle", "buffered"),
     Plan("background", "read", "buffered", "write_json", "listing", "idle", "buffered"),
     Plan("background", "write_parquet", "buffered", "read", "file_stream", "idle", "buffered"),
     Plan("multi", "read", "listing", "write_parquet", "buffered", "idle", "buffered"),
     Plan("multi", "write_parquet", "buffered", "write_parquet", "file_stream", "idle", "buffered"),
     Plan("multi", "write_parquet", "file_stream", "write_json", "buffered", "idle", "buffered")}

AllFates ==
    {<<>>, <<"ok", "ok">>, <<"empty", "ok">>, <<"missing", "ok">>, <<"ok", "missing">>, <<"corrupt", "ok">>,
     <<"garbled", "ok">>}

=============================================================================
