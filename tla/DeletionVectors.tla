-------------------------- MODULE DeletionVectors --------------------------
(***************************************************************************)
(* Deletion vectors in storage: the descriptors of the log, the files that *)
(* StreamingDeletionVectorWriter puts several vectors in, and how the rows *)
(* of a descriptor are read back.                                          *)
(*                                                                         *)
(* A file of bytes is its length and the values that start at an offset;   *)
(* reading anywhere else, or past the end, gives garbage.  A treemap is    *)
(* the set of its rows, and its serialization takes BitmapBytes bytes.     *)
(***************************************************************************)
EXTENDS Integers, Sequences, FiniteSets, SequencesExt, TLC

CONSTANT I32Max   \* i32::MAX

ASSUME I32Assumption == I32Max \in Nat

Garbage == <<"garbage">>

BitmapBytes(treemap) == 8 + Cardinality(treemap)

(* The z85 encoding of a UUID has UuidLen characters.                       *)
UuidLen == 2
Z85(uuid) == <<"z", uuid>>

(* DeletionVectorPath: where the file of a prefix, which is a sequence of   *)
(* characters, and a UUID is, and what the log says of it.                  *)
relative_path(prefix, uuid) == IF prefix = <<>> THEN <<uuid>> ELSE prefix \o <<"/", uuid>>
encoded_relative_path(prefix, uuid) == prefix \o Z85(uuid)

Descriptor(storage, path, offset, size, cardinality) ==
    [storage |-> storage, path |-> path, offset |-> offset,
     size |-> size, cardinality |-> cardinality]

unique_id(d) == <<d.storage, d.path, d.offset>>

----------------------------------------------------------------------------
(* StreamingDeletionVectorWriter.                                           *)

NewWriter == [current_offset |-> 0, fields |-> [o \in {} |-> Garbage]]

Put(fields, new) == [o \in DOMAIN fields \cup DOMAIN new |->
                       IF o \in DOMAIN new THEN new[o] ELSE fields[o]]

(* The size, the magic number with the bitmap, and the checksum.            *)
BytesWritten(dv_size) == 4 + dv_size + 4

(* Outcome of a write: the writer after it, and the offset, size and        *)
(* cardinality that were written, or nothing for an error.                  *)
write_deletion_vector(w, treemap) ==
    LET start == IF w.current_offset = 0 THEN 1 ELSE w.current_offset
        header == IF w.current_offset = 0 THEN Put(w.fields, 0 :> <<"version", 1>>) ELSE w.fields
        dv_size == BitmapBytes(treemap) + 4
    IN  IF dv_size > I32Max \/ start > I32Max
        THEN [writer |-> [current_offset |-> start, fields |-> header], result |-> <<>>]
        ELSE [writer |->
                [current_offset |-> start + BytesWritten(dv_size),
                 fields |-> Put(header, start :> <<"size", dv_size>> @@ start + 4 :> <<"magic">>
                                        @@ start + 8 :> <<"bitmap", treemap, BitmapBytes(treemap)>>
                                        @@ start + 4 + dv_size :> <<"crc", treemap>>)],
              result |-> <<[offset |-> start, size |-> dv_size, cardinality |-> Cardinality(treemap)]>>]

File(w) == [len |-> w.current_offset, fields |-> w.fields]

(* DeletionVectorWriteResult::to_descriptor.                                *)
to_descriptor(result, encoded) ==
    Descriptor("u", encoded, <<result.offset>>, result.size, result.cardinality)

(* The vectors written to one file one after the other: the file and the    *)
(* descriptors, or no descriptors if one of them did not fit.               *)
WriteAll(treemaps, encoded) ==
    LET step[i \in 0..Len(treemaps)] ==
            IF i = 0 THEN [writer |-> NewWriter, results |-> <<>>]
            ELSE LET out == write_deletion_vector(step[i - 1].writer, treemaps[i])
                 IN  [writer |-> out.writer, results |-> step[i - 1].results \o out.result]
        last == step[Len(treemaps)]
    IN  [file |-> File(last.writer),
         descriptors |-> IF Len(last.results) # Len(treemaps) THEN <<>>
                         ELSE [i \in DOMAIN treemaps |-> to_descriptor(last.results[i], encoded)]]

----------------------------------------------------------------------------
(* DeletionVectorDescriptor::read.                                          *)

(* The place of the file of a descriptor: the prefix is what comes before   *)
(* the UUID.  The path of an absolute one is the place itself, and an       *)
(* inline one has none.                                                     *)
absolute_path(d) ==
    IF d.storage = "u"
    THEN LET prefix_len == Len(d.path) - UuidLen
         IN  relative_path(SubSeq(d.path, 1, prefix_len), d.path[Len(d.path)])
    ELSE d.path

(* The value of len bytes at an offset.                                     *)
ReadAt(file, offset, len) ==
    IF offset \in DOMAIN file.fields /\ offset + len <= file.len THEN file.fields[offset] ELSE Garbage

(* Seeded fault: the checksum is read and not compared.                     *)
ChecksumMatches_Always(file, magic_start, crc_start) == TRUE

(* The checksum of the bytes from the magic number to the checksum.         *)
ChecksumMatches(file, magic_start, crc_start) ==
    /\ ReadAt(file, magic_start, 4) = <<"magic">>
    /\ LET bitmap == ReadAt(file, magic_start + 4, crc_start - magic_start - 4)
       IN  /\ bitmap # Garbage /\ bitmap[3] = crc_start - magic_start - 4
           /\ ReadAt(file, crc_start, 4) = <<"crc", bitmap[2]>>

read_file(d, file) ==
    LET this_dv_start == IF d.offset = <<>> THEN 1 ELSE d.offset[1]
        crc_start == this_dv_start + 4 + d.size
    IN  IF /\ ReadAt(file, 0, 1) = <<"version", 1>>
           /\ this_dv_start < file.len
           /\ ReadAt(file, this_dv_start, 4) = <<"size", d.size>>
           /\ ReadAt(file, this_dv_start + 4, 4) = <<"magic">>
           /\ file.len >= crc_start + 4
           /\ ChecksumMatches(file, this_dv_start + 4, crc_start)
        THEN <<ReadAt(file, this_dv_start + 8, d.size - 4)[2]>>
        ELSE <<>>

(* The rows of a descriptor, or nothing for an error; store has the files.  *)
read(d, store) ==
    IF d.storage = "i"
    THEN IF d.path[1] = "portable" THEN <<d.path[2]>> ELSE <<>>
    ELSE IF absolute_path(d) \in DOMAIN store THEN read_file(d, store[absolute_path(d)]) ELSE <<>>
=============================================================================
