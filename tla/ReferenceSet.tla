---------------------------- MODULE ReferenceSet ----------------------------
(* The set in which the FFI keeps the half-built objects of an engine: each   *)
(* is known by an id, and is taken out when it becomes part of another.       *)
(* Source: ffi/src/lib.rs.                                                    *)
EXTENDS Naturals, Sequences

(* No object has id 0: it is what an engine gets for an invalid one.          *)
NewReferenceSet == [map |-> [id \in {} |-> 0], next |-> 1]

(* A set after a visit, with the id of the object that was visited.           *)
Visited(set, id) == [set |-> set, id |-> id]

(* ReferenceSet::insert                                                       *)
insert(set, value) ==
    Visited([map |-> [id \in DOMAIN set.map \cup {set.next} |-> IF id = set.next THEN value ELSE set.map[id]],
             next |-> set.next + 1],
            set.next)

(* ReferenceSet::take: the set without the object, and the object if it was   *)
(* there.                                                                     *)
take(set, id) ==
    [set |-> [set EXCEPT !.map = [i \in DOMAIN set.map \ {id} |-> set.map[i]]],
     value |-> IF id \in DOMAIN set.map THEN <<set.map[id]>> ELSE <<>>]

=============================================================================
