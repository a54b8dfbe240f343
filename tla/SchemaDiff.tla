----------------------------- MODULE SchemaDiff -----------------------------
(* The difference between two schemas of a table with column mapping, whose   *)
(* fields are matched by id.                                                  *)
(* Source: kernel/src/schema/diff.rs.                                         *)
EXTENDS TableSchema

(* collect_all_fields_with_paths: the fields of arrays are below "element".   *)
RECURSIVE FieldsWithPaths(_, _)
FieldsWithPaths(fields, parent) ==
    LET path(f) == Append(parent, f.name)
        below(f) == IF f.type = "array" THEN Append(path(f), "element") ELSE path(f)
    IN  UNION {{[field |-> f, path |-> path(f), id |-> f.id]} \cup FieldsWithPaths(f.kids, below(f)) :
               f \in Range(fields)}

(* get_field_id_for_path and build_field_map_by_id: each field has an id of   *)
(* its own.                                                                   *)
IdsAreUsable(all) == \A a, b \in all : a.id # 0 /\ (a.id = b.id => a.path = b.path)

has_added_ancestor(path, paths) == \E n \in 1..(Len(path) - 1) : SubSeq(path, 1, n) \in paths


filter_ancestor_fields(changes) ==
    {c \in changes : ~has_added_ancestor(c.path, {d.path : d \in changes})}

(* classify_data_type_change: changes within structs and arrays of structs    *)
(* are those of the fields in them.                                           *)
TypeChanges(before, after) == IF before.type = after.type THEN {} ELSE {"TypeChanged"}

(* compute_field_update                                                       *)
ChangeTypes(before, after) ==
    (IF before.name # after.name THEN {"Renamed"} ELSE {})
    \cup (CASE ~before.nullable /\ after.nullable -> {"NullabilityLoosened"}
            [] before.nullable /\ ~after.nullable -> {"NullabilityTightened"}
            [] OTHER -> {})
    \cup TypeChanges(before, after)
    \cup (IF before.comment # after.comment THEN {"MetadataChanged"} ELSE {})

(* validate_physical_name                                                     *)
PhysicalNameIsKept(before, after) == before.phys # "" /\ before.phys = after.phys

is_breaking_change_type(type) == type \in {"TypeChanged", "NullabilityTightened", "MetadataChanged"}

(* The assertions of a debug build: no field of both schemas is below a path  *)
(* at which a field was added or removed.                                     *)
AssertionsHold(pairs, added, removed) ==
    \A p \in pairs : /\ ~has_added_ancestor(p[2].path, {f.path : f \in added})
                     /\ ~has_added_ancestor(p[2].path, {f.path : f \in removed})

(* compute_schema_diff, which fails, panics or has a result. A field that is  *)
(* in both schemas is a pair; the ones that did not change are left out. If   *)
(* one pair fails and another one panics, the order of a hash set decides     *)
(* which comes first; here it is the failure.                                 *)
compute_schema_diff(before, after, debug) ==
    LET ids(all) == {f.id : f \in all}
        without(all, others) == filter_ancestor_fields({f \in all : f.id \notin ids(others)})
        updates(pairs) ==
            {[path |-> p[2].path, id |-> p[2].id, changes |-> ChangeTypes(p[1].field, p[2].field)] : p \in pairs}
        breaking(added, updated) ==
            \/ \E f \in added : ~f.field.nullable
            \/ \E u \in updated : \E type \in u.changes : is_breaking_change_type(type)
        result(added, removed, updated) ==
            [outcome |-> "ok", added |-> {[path |-> f.path, id |-> f.id] : f \in added},
             removed |-> {[path |-> f.path, id |-> f.id] : f \in removed},
             updated |-> updated, breaking |-> breaking(added, updated)]
        diff(b, a, pairs) ==
            IF ~IdsAreUsable(b) \/ ~IdsAreUsable(a) \/ \E p \in pairs : ~PhysicalNameIsKept(p[1].field, p[2].field)
            THEN [outcome |-> "error"]
            ELSE IF debug /\ ~AssertionsHold(pairs, without(a, b), without(b, a)) THEN [outcome |-> "panic"]
            ELSE result(without(a, b), without(b, a), {u \in updates(pairs) : u.changes # {}})
        matched(b, a) == diff(b, a, {p \in b \X a : p[1].id = p[2].id})
    IN  matched(FieldsWithPaths(before, <<>>), FieldsWithPaths(after, <<>>))

=============================================================================
