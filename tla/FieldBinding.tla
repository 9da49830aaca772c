---------------------------- MODULE FieldBinding ----------------------------
(***************************************************************************)
(* How the columns of a data file bind to the columns of the table         *)
(* (crates/lakehouse-engine/src/scan/field_id_projection.rs,               *)
(* partition_values.rs, types/widening.rs).                                *)
(*                                                                         *)
(* A name is <<letters, spelling>>: equal letters fold to one uppercase    *)
(* name.  A logical field is [name, id, physical, type, nullable, default, *)
(* members, column]; a file field is [name, id, type, members, column].    *)
(* column says which column of the table's history a field is: no          *)
(* operation reads it, only the properties do.  members are the fields of  *)
(* a struct, one level deep; lists, maps and deeper members are left out.  *)
(* A name-mapping entry is [names, id, fields].                            *)
(***************************************************************************)
EXTENDS Integers, Sequences, FiniteSets, FiniteSetsExt, SequencesExt, Selection

NoId == 0
NoName == <<"", 0>>
Fold(name) == name[1]
First(indices) == IF indices = {} THEN 0 ELSE Min(indices)

\* widens_to with the representable types: a value of the first reads as the second.
Widenings == {<<"int", "long">>, <<"int", "decimal">>, <<"long", "decimal">>, <<"date", "micros">>}

admits(physical, logical) ==
    \/ physical = "null"
    \/ physical = logical
    \/ <<physical, logical>> \in Widenings
    \/ physical = "uuid" /\ logical = "text"

-----------------------------------------------------------------------------
binds_by_identity(l) == l.id = NoId /\ l.physical = NoName

\* Mutant: a field-id-bound column also binds by its current name.
claim_by_name_too(p, mapped_id, logical) ==
    LET with(id) == First({i \in DOMAIN logical : id # NoId /\ logical[i].id = id})
        named == First({i \in DOMAIN logical : logical[i].name = p.name})
        embedded == with(p.id)
        renamed == with(mapped_id)
    IN  CASE embedded # 0 -> embedded
          [] embedded = 0 /\ renamed # 0 -> renamed
          [] OTHER -> named

claim_logical(p, mapped_id, logical) ==
    LET with(id) == First({i \in DOMAIN logical : id # NoId /\ logical[i].id = id})
        declared == First({i \in DOMAIN logical : logical[i].physical = p.name})
        named == First({i \in DOMAIN logical :
                           binds_by_identity(logical[i]) /\ logical[i].name = p.name})
        embedded == with(p.id)
        renamed == with(mapped_id)
    IN  CASE embedded # 0 -> embedded
          [] embedded = 0 /\ declared # 0 -> declared
          [] embedded = 0 /\ declared = 0 /\ renamed # 0 -> renamed
          [] OTHER -> named

carries_field_ids(fields) ==
    \E i \in DOMAIN fields :
        \/ fields[i].id # NoId
        \/ \E j \in DOMAIN fields[i].members : fields[i].members[j].id # NoId

mapping_entry(mapping, name) == {e \in mapping : name \in e.names}
mapped_field_id(mapping, name) ==
    IF mapping_entry(mapping, name) = {} THEN NoId
    ELSE (CHOOSE e \in mapping_entry(mapping, name) : TRUE).id
mapped(mapping, name) == UNION {e.fields : e \in mapping_entry(mapping, name)}

\* The name mapping applies only to a file that carries no field id at any depth.
MappingFor(side, fields) == IF carries_field_ids(fields) THEN {} ELSE side.mapping

ExactClaims(side, logical, fields) ==
    [j \in DOMAIN fields |->
        claim_logical(fields[j],
            mapped_field_id(MappingFor(side, fields), fields[j].name), logical)]

\* The unclaimed fields and identity columns that are equal but for letter case.
FoldGroup(exact, logical, fields, letters) ==
    [files |-> {j \in DOMAIN fields : exact[j] = 0 /\ Fold(fields[j].name) = letters},
     table |-> {i \in DOMAIN logical :
                  /\ binds_by_identity(logical[i])
                  /\ Fold(logical[i].name) = letters
                  /\ \A j \in DOMAIN fields : exact[j] # i}]

claim_by_case_fold(exact, logical, fields) ==
    [j \in DOMAIN fields |->
        LET group == FoldGroup(exact, logical, fields, Fold(fields[j].name))
        IN  IF exact[j] = 0 /\ group.files = {j} /\ Cardinality(group.table) = 1
            THEN CHOOSE i \in group.table : TRUE
            ELSE exact[j]]

ensure_unambiguous(side, logical, fields) ==
    \A j \in DOMAIN fields :
        LET group == FoldGroup(ExactClaims(side, logical, fields), logical, fields,
                               Fold(fields[j].name))
        IN  \/ group.files = {} \/ group.table = {}
            \/ Cardinality(group.files) = 1 /\ Cardinality(group.table) = 1

\* The file field each table column reads, 0 when the file supplies none.  Every
\* other field is renamed out of the way of the delegate, which binds by name.
bind_columns(side, logical, fields) ==
    LET claims == claim_by_case_fold(ExactClaims(side, logical, fields), logical, fields)
    IN  [i \in DOMAIN logical |-> First({j \in DOMAIN fields : claims[j] = i})]

\* The members of a struct bind by the same keys; the first claim keeps a slot.
claim_struct_slots(members, logical_members, mapping) ==
    [i \in DOMAIN logical_members |->
        First({j \in DOMAIN members :
            claim_logical(members[j], mapped_field_id(mapping, members[j].name),
                          logical_members) = i})]

-----------------------------------------------------------------------------
\* A value is where it comes from: a column of the file with its struct members
\* (0 for a null-filled one), a logged partition value, a default or NULL.
Value(kind, column, members, text) ==
    [kind |-> kind, column |-> column, members |-> members, text |-> text]
NullValue == Value("null", 0, <<>>, "")
Failure == Value("failure", 0, <<>>, "")

FieldValue(side, fields, j, l) ==
    LET f == fields[j]
        slots == claim_struct_slots(f.members, l.members,
                    mapped(MappingFor(side, fields), f.name))
        source(s) == IF s = 0 THEN 0 ELSE f.members[s].column
    IN  CASE f.type = "struct" /\ l.members # <<>> ->
               Value("file", f.column, [i \in DOMAIN slots |-> source(slots[i])], "")
          [] f.type # "struct" /\ admits(f.type, l.type) -> Value("file", f.column, <<>>, "")
          [] OTHER -> Failure

\* Every encoded default decodes under its column's type, read or not.
reconstruct_initial_defaults(logical) == \A l \in ToSet(logical) : l.default # "bad"

AbsentValue(l) ==
    CASE l.default # "" -> Value("default", 0, <<>>, l.default)
      [] l.default = "" /\ l.nullable -> NullValue
      [] OTHER -> Failure

partition_value(logged) ==
    CASE logged \in {"none", ""} -> NullValue
      [] logged = "bad" -> Failure
      [] OTHER -> Value("partition", 0, <<>>, logged)

-----------------------------------------------------------------------------
\* The partition columns of a file: the listed ones and its own declared keys.
PartitionColumns(side, entry) ==
    ToSet(side.partition_columns)
        \cup {n \in DOMAIN entry.partition : \E i \in DOMAIN side.logical : side.logical[i].name = n}

PartitionedScanGroups_split(side) ==
    /\ \A i, j \in DOMAIN side.partition_columns :
         side.partition_columns[i] = side.partition_columns[j] => i = j
    /\ \A e \in ToSet(side.entries) : \A n \in PartitionColumns(side, e) :
         Cardinality({i \in DOMAIN side.logical : side.logical[i].name = n}) = 1

partition_values_for(side, entry) ==
    [n \in PartitionColumns(side, entry) |->
        IF n \in DOMAIN entry.partition THEN partition_value(entry.partition[n]) ELSE Failure]

\* The columns a file is asked for: its partition columns have left its schema.
FileColumns(side, entry) ==
    Selected(side.logical, {l \in ToSet(side.logical) : l.name \notin PartitionColumns(side, entry)})

\* What one row of the file reads as.
ReadRow(side, entry) ==
    LET logical == FileColumns(side, entry)
        source == bind_columns(side, logical, entry.fields)
        at(n) == CHOOSE i \in DOMAIN logical : logical[i].name = n
    IN  [n \in side.reads |->
          CASE n \in PartitionColumns(side, entry) -> partition_values_for(side, entry)[n]
            [] n \notin PartitionColumns(side, entry) /\ source[at(n)] # 0 ->
                 FieldValue(side, entry.fields, source[at(n)], logical[at(n)])
            [] OTHER -> AbsentValue(logical[at(n)])]

\* The file opens and every column the query reads has a value.
Readable(side, entry) ==
    /\ ensure_unambiguous(side, FileColumns(side, entry), entry.fields)
    /\ \A n \in side.reads : ReadRow(side, entry)[n] # Failure
=============================================================================
