---------------------------- MODULE RowVisitors -----------------------------
(***************************************************************************)
(* What the readers of the log share: visitors that pass over a stream of  *)
(* rows, and the deduplicator of file actions.  An entry of a stream is a  *)
(* row and whether it was read from a commit file (is_log_batch).          *)
(*                                                                         *)
(* SequencesExt has FlattenSeq and the like, but its context is too large  *)
(* for the proofs.                                                         *)
(***************************************************************************)
EXTENDS Integers, Sequences, Functions

(* What a visitor has gathered when it has passed the whole stream.         *)
Visit(Step(_, _), start, stream) ==
    LET after[i \in 0..Len(stream)] == IF i = 0 THEN start ELSE Step(after[i - 1], stream[i])
    IN after[Len(stream)]

(* The rows of several files, one after the other.                          *)
FlattenSeq(files) == Visit(LAMBDA acc, rows : acc \o rows, <<>>, files)

(* The elements of a sequence that are in a set, in their order.            *)
Only(rows, set) ==
    Visit(LAMBDA acc, row : IF row \in set THEN Append(acc, row) ELSE acc, <<>>, rows)

(* FileActionDeduplicator: the first action on a file counts.  The slots of *)
(* checkpoint rows are not recorded, a checkpoint has none twice.           *)
check_and_record_seen(acc, entry) ==
    IF entry.row.slot \in acc.seen
    THEN acc
    ELSE [seen |-> acc.seen \cup {s \in {entry.row.slot} : entry.is_log_batch},
          rows |-> acc.rows \cup {r \in {entry.row} : r.type = "add"}]

(* The adds that are left of a stream if some of its entries are ignored.   *)
Deduplicated(stream, ignored) ==
    Visit(LAMBDA acc, entry :
            IF entry \in ignored THEN acc ELSE check_and_record_seen(acc, entry),
          [seen |-> {}, rows |-> {}], stream).rows

=============================================================================
