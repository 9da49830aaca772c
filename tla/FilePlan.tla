------------------------------ MODULE FilePlan ------------------------------
(***************************************************************************)
(* The planning of one table's files, from the CREATE that declares its    *)
(* columns to the references that prune its files, while the table's       *)
(* writers go on (crates/lakehouse-engine/src/adapter/pushdown/format/,    *)
(* adapter/parquet_directory.rs, adapter/direct_storage.rs).               *)
(*                                                                         *)
(* source is the table as its writers left it:                             *)
(*   format     iceberg, delta, unity, glue or direct                      *)
(*   mode       Delta's column-mapping mode: none, id or name              *)
(*   protocol   Delta's [version, features]                                *)
(*   schema     column identity -> [name, physical, type, was, nullable,   *)
(*              change, annotated]                                         *)
(*   parts      the partition columns, in order                            *)
(*   log        the actions of the commits, oldest first, each             *)
(*              [op, file, key]; key tells two adds of one path apart      *)
(*   registered Glue's partitions, [location, value, parquet, own_bucket]  *)
(*   located    whether its metadata names a storage location              *)
(*   sampled    whether a direct-storage CREATE reads one footer only      *)
(* A file is [path, dir, segments, kind, rows, stats, parts, deletes]:     *)
(* rows are functions from column identities to values, parts the logged   *)
(* partition values by physical name, segments its key=value directories.  *)
(* notes is the declared schema: the fields that can be read, the names of *)
(* the refused columns and those of the partition columns.  A field's      *)
(* column is its identity when it was declared, which only the properties  *)
(* read.  The type variant stands for every type that is not read.         *)
(***************************************************************************)
EXTENDS FilePruning, FiniteSets, FiniteSetsExt, Functions

CONSTANTS Sources,        \* the tables a CREATE may meet
          Changes(_),     \* what a writer may turn a table into, in one commit
          Filters,        \* the filters a reference may carry
          MaxCommits      \* bound on the commits

VARIABLES source, notes, loaded, planned, commits
vars == <<source, notes, loaded, planned, commits>>

NoKey == 0
NoName == ""

-----------------------------------------------------------------------------
(* Objects below a directory (parquet_directory.rs)                        *)

Live(log) ==
    LET latest(path) == Max({i \in DOMAIN log : log[i].file.path = path})
        paths == {log[i].file.path : i \in DOMAIN log}
    IN  {log[latest(p)].file : p \in {q \in paths : log[latest(q)].op = "add"}}

\* A set of files or of plan entries, in the order of their paths.
ByPath(files) ==
    CHOOSE s \in [1 .. Cardinality(files) -> files] :
        IsInjective(s) /\ \A i, j \in DOMAIN s : i < j => s[i].path <= s[j].path

\* Hidden and zero-byte objects are never data files; only a Glue location names its direct
\* children, whatever their extension.
AnyDepth == <<"**">>
list_location_files(log, location) ==
    ByPath({f \in Live(log) : /\ f.kind \notin {"hidden", "empty"}
                              /\ IF location = AnyDepth THEN f.kind # "extensionless"
                                 ELSE f.dir = location})

Upper(key) == IF key = "p" THEN "P" ELSE key
SegmentKeys(f) == {f.segments[i].key : i \in DOMAIN f.segments}

\* The deepest segment of a key gives the value.
SegmentValue(f, key) ==
    LET at == {i \in DOMAIN f.segments : Upper(f.segments[i].key) = Upper(key)}
    IN  IF at = {} THEN Null ELSE f.segments[Max(at)].value

ensure_one_spelling_per_declared_key(files, declared) ==
    \A d \in declared :
        Cardinality({k \in UNION {SegmentKeys(files[i]) : i \in DOMAIN files} : Upper(k) = Upper(d)}) <= 1

\* Mutant: only the files the filter keeps are checked.
kept_then_checked(files, declared, filter, types) ==
    LET values(f) == [k \in declared |-> SegmentValue(f, k)]
        kept == Selected(files, {f \in ToSet(files) : keeps(filter, types, values(f))})
    IN  IF ~ensure_one_spelling_per_declared_key(kept, declared) THEN None
        ELSE Some([i \in DOMAIN kept |-> [path |-> kept[i].path, deletes |-> {}, parts |-> values(kept[i])]])

\* Every file is checked before any is kept, so that no filter hides a conflict.
kept_files(files, declared, filter, types) ==
    LET values(f) == [k \in declared |-> SegmentValue(f, k)]
        kept == Selected(files, {f \in ToSet(files) : keeps(filter, types, values(f))})
    IN  IF ~ensure_one_spelling_per_declared_key(files, declared) THEN None
        ELSE Some([i \in DOMAIN kept |-> [path |-> kept[i].path, deletes |-> {}, parts |-> values(kept[i])]])

-----------------------------------------------------------------------------
(* CREATE, REFRESH and SET: the column notes                               *)

Field(name, id, physical, column, type, nullable) ==
    [name |-> name, id |-> id, physical |-> physical, column |-> column,
     type |-> type, nullable |-> nullable]

\* Type first, then recorded type changes, then the binding key.
walk_field(field, mode) ==
    CASE field.type = "variant"                    -> "type"
      [] field.change = "unsupported"              -> "change"
      [] mode # "none" /\ ~field.annotated         -> "annotation"
      [] OTHER                                     -> "mapped"

\* Mutant: either mapped mode records both keys.
both_keys(column, field, mode) ==
    [id |-> IF mode # "none" THEN column ELSE NoKey,
     physical |-> IF mode = "name" THEN field.physical ELSE NoName]

binding_key(column, field, mode) ==
    [id |-> IF mode = "id" THEN column ELSE NoKey,
     physical |-> IF mode = "name" THEN field.physical ELSE NoName]

classify_spark_schema(schema, mode, nullable) ==
    {LET key == binding_key(c, schema[c], mode)
     IN  Field(schema[c].name, key.id, key.physical, c, schema[c].type,
               schema[c].nullable \/ nullable) :
        c \in {d \in DOMAIN schema : walk_field(schema[d], mode) = "mapped"}}

\* A Parquet table's columns are nullable, because a file may lack one.
catalog_declaration(t) ==
    [fields |-> classify_spark_schema(t.schema, t.mode, t.format # "delta"),
     refused |-> {t.schema[c].name : c \in {d \in DOMAIN t.schema : walk_field(t.schema[d], t.mode) # "mapped"}},
     parts |-> [i \in DOMAIN t.parts |-> t.schema[t.parts[i]].name]]

iceberg_declaration(t) ==
    [fields |-> {Field(t.schema[c].name, c, NoName, c, t.schema[c].type, t.schema[c].nullable) :
                    c \in {d \in DOMAIN t.schema : t.schema[d].type # "variant"}},
     refused |-> {t.schema[c].name : c \in {d \in DOMAIN t.schema : t.schema[d].type = "variant"}},
     parts |-> <<>>]

\* The columns the read footers declare, less those named like a key any path carries; a read
\* file that stores such a column without the segment is refused.  The files agree on a column's
\* type and spelling: SchemaOK leaves out the types that do not widen and the names that collide,
\* which refuse the CREATE, and hive_partitioning = false, which only takes the keys away.
SchemaFold(t, read, keys) ==
    LET stored(f) == DOMAIN f.rows[1]
        named(c, names) == \E k \in names : Upper(k) = Upper(t.schema[c].name)
        all == UNION {stored(read[i]) : i \in DOMAIN read}
    IN  IF \E i \in DOMAIN read : \E c \in stored(read[i]) :
              named(c, keys) /\ ~named(c, SegmentKeys(read[i]))
        THEN None
        ELSE Some({c \in all : ~named(c, keys)})

\* The folded columns, then the keys of the paths read: every file's, or the first one's.  Only a
\* folded column is refused.
resolve_parquet_directory(t) ==
    LET files == list_location_files(t.log, AnyDepth)
        read == IF t.sampled THEN SubSeq(files, 1, 1) ELSE files
        keys(listed) == UNION {SegmentKeys(listed[i]) : i \in DOMAIN listed}
        declared == keys(read)
        folded == SchemaFold(t, read, keys(files))
        named(k) == CHOOSE c \in DOMAIN t.schema : Upper(t.schema[c].name) = Upper(k)
    IN  IF files = <<>> \/ ~ensure_one_spelling_per_declared_key(files, declared) \/ folded = None
        THEN None
        ELSE Some([fields |->
                      {Field(t.schema[c].name, NoKey, NoName, c, t.schema[c].type, TRUE) :
                          c \in {d \in folded[1] : t.schema[d].type # "variant"}}
                      \cup {Field(k, NoKey, NoName, named(k), "text", TRUE) : k \in declared},
                   refused |-> {t.schema[c].name : c \in {d \in folded[1] : t.schema[d].type = "variant"}},
                   parts |-> SetToSeq(declared)])

Names(declared) == {d.name : d \in declared.fields}

\* A table of which nothing can be read, or whose partition values no scan could carry, is refused
\* whole.
ensure_scannable(declared) ==
    /\ declared.fields # {} \/ declared.refused = {}
    /\ ToSet(declared.parts) \cap declared.refused = {}

declared_schema(t) ==
    CASE t.format = "iceberg" -> Some(iceberg_declaration(t))
      [] t.format = "direct"  -> resolve_parquet_directory(t)
      [] OTHER                -> Some(catalog_declaration(t))

-----------------------------------------------------------------------------
(* Iceberg (iceberg.rs)                                                    *)

refuse_date_promotion(t) ==
    \E c \in DOMAIN t.schema : t.schema[c].type = "timestamp" /\ "date" \in t.schema[c].was

refuse_relaxed_nullability(t, declared) ==
    \E d \in declared.fields :
        /\ ~d.nullable
        /\ d.id \in DOMAIN t.schema
        /\ t.schema[d.id].nullable

classify_planned_file(f) == f.kind = "parquet" /\ \A d \in f.deletes : d.kind \in {"positions", "vector"}

StatsOf(f, c) ==
    LET values == {f.rows[i][c] : i \in DOMAIN f.rows}
        known == values \ {Null}
    IN  IF ~f.stats \/ c \notin DOMAIN f.rows[1] THEN None
        ELSE Some([low |-> IF known = {} THEN Null ELSE Min(known),
                   high |-> IF known = {} THEN Null ELSE Max(known), nulls |-> Null \in values])

\* External: iceberg-rust's scan of the current snapshot.
plan_file_tasks(t, predicate) ==
    ByPath({f \in Live(t.log) :
              predicate = None \/ MightHold(predicate[1], [c \in DOMAIN t.schema |-> StatsOf(f, c)])})

\* The identity values of the spec a file was written with, under the declared names.
identity_partition_values(t, f, declared) ==
    LET of(d) == d.id \in DOMAIN f.parts
    IN  [n \in {d.name : d \in {e \in declared.fields : of(e)}} |->
            f.parts[(CHOOSE d \in declared.fields : d.name = n /\ of(d)).id]]

iceberg_columns(t, declared) ==
    [n \in {d.name : d \in {e \in declared.fields : e.id \in DOMAIN t.schema}} |->
        LET d == CHOOSE e \in declared.fields : e.name = n IN [id |-> d.id, type |-> t.schema[d.id].type]]

prune_iceberg(t, declared, filter) ==
    LET predicate == IF filter = None \/ t.log = <<>> THEN None
                     ELSE to_iceberg_predicate(filter[1], iceberg_columns(t, declared))
        tasks == plan_file_tasks(t, predicate)
    IN  IF \/ refuse_relaxed_nullability(t, declared)
           \/ \E i \in DOMAIN tasks : ~classify_planned_file(tasks[i])
        THEN None
        ELSE Some([i \in DOMAIN tasks |->
                     [path |-> tasks[i].path, deletes |-> tasks[i].deletes,
                      parts |-> identity_partition_values(t, tasks[i], declared)]])

-----------------------------------------------------------------------------
(* Delta (delta_protocol.rs, delta_replay.rs, delta_table.rs)              *)

AllowListed == {"columnMapping", "deletionVectors", "timestampNtz", "typeWidening",
                "typeWidening-preview", "v2Checkpoint", "vacuumProtocolCheck"}

\* features is None for a legacy protocol, whose list is absent.
ensure_readable(protocol) ==
    /\ protocol.version \in 1 .. 3
    /\ IF protocol.features = None THEN protocol.version # 3
       ELSE protocol.features[1] \subseteq AllowListed

\* External: delta_kernel's replay, newest first; an action hides the older ones of its key.
ReplayedRows(log) ==
    LET n == Len(log)
        newest_first == [i \in 1 .. n |-> log[n + 1 - i]]
    IN  [i \in 1 .. n |->
           [file |-> newest_first[i].file,
            add |-> newest_first[i].op = "add",
            selected |-> \A j \in 1 .. i - 1 : <<newest_first[j].file.path, newest_first[j].key>>
                                                # <<newest_first[i].file.path, newest_first[i].key>>]]

\* Mutant: every selected add of a path is listed.
append_every_add(rows) ==
    {rows[i].file : i \in {k \in DOMAIN rows : rows[k].add /\ rows[k].selected}}

\* The first selected add of a path is its latest.
append_active_files(rows) ==
    LET listed == {i \in DOMAIN rows : rows[i].add /\ rows[i].selected}
        first(i) == \A j \in listed : j < i => rows[j].file.path # rows[i].file.path
    IN  {rows[i].file : i \in {k \in listed : first(k)}}

\* External: the kernel skips by a file's statistics and its logged partition values.
KernelStats(t, f, c) ==
    IF t.schema[c].physical \in DOMAIN f.parts
    THEN LET v == f.parts[t.schema[c].physical] IN Some([low |-> v, high |-> v, nulls |-> v = Null])
    ELSE StatsOf(f, c)

active_files(t, predicate) ==
    LET rows == ReplayedRows(t.log)
        skips(f) == /\ predicate # None
                    /\ ~MightHold(predicate[1], [c \in DOMAIN t.schema |-> KernelStats(t, f, c)])
    IN  ByPath(append_active_files([i \in DOMAIN rows |->
            [rows[i] EXCEPT !.selected = @ /\ ~skips(rows[i].file)]]))

\* By its recorded physical name or field id; by its name only when it records neither.
snapshot_field(schema, d) ==
    {c \in DOMAIN schema :
        IF d.physical # NoName THEN schema[c].physical = d.physical
        ELSE IF d.id # NoKey THEN c = d.id
        ELSE Upper(schema[c].name) = Upper(d.name)}

ensure_binding_keys_follow_mode(declared, mode) ==
    \A d \in declared.fields :
        (d.id # NoKey) = (mode = "id") /\ (d.physical # NoName) = (mode = "name")

\* The declared partition columns are the log's, in the log's order.
checked_partition_fields(t, declared) ==
    [i \in DOMAIN declared.parts |->
        UNION {snapshot_field(t.schema, d) : d \in {e \in declared.fields : e.name = declared.parts[i]}}]
    = [i \in DOMAIN t.parts |-> {t.parts[i]}]

\* Mutant: a column's nullability is never compared with the log's.
relaxed_unchecked(t, declared) == TRUE

ensure_no_relaxed_nullability(t, declared) ==
    \A d \in declared.fields :
        d.nullable \/ \A c \in snapshot_field(t.schema, d) : ~t.schema[c].nullable

delta_columns(t, declared) ==
    LET current(d) == snapshot_field(t.schema, d)
        bound == {d \in declared.fields : current(d) # {}}
    IN  [n \in {d.name : d \in bound} |->
            LET c == CHOOSE c \in current(CHOOSE d \in bound : d.name = n) : TRUE
            IN  [id |-> c, type |-> t.schema[c].type]]

\* The log's partition values, under the declared names.
logged_keys(t, i) == IF t.mode = "none" THEN t.schema[t.parts[i]].name ELSE t.schema[t.parts[i]].physical
logged_values(t, declared, f) ==
    [n \in {declared.parts[i] : i \in {j \in DOMAIN t.parts : logged_keys(t, j) \in DOMAIN f.parts}} |->
        f.parts[logged_keys(t, CHOOSE i \in DOMAIN t.parts : declared.parts[i] = n)]]

prune_delta(t, declared, filter) ==
    LET predicate == IF filter = None THEN None
                     ELSE to_delta_predicate(filter[1], delta_columns(t, declared))
        files == active_files(t, predicate)
    IN  IF \/ ~ensure_binding_keys_follow_mode(declared, t.mode)
           \/ ~checked_partition_fields(t, declared)
           \/ ~ensure_no_relaxed_nullability(t, declared)
        THEN None
        ELSE Some([i \in DOMAIN files |->
                     [path |-> files[i].path, deletes |-> files[i].deletes, parts |-> logged_values(t, declared, files[i])]])

-----------------------------------------------------------------------------
(* Parquet directories and Glue partitions                                 *)

partition_column_types(declared) ==
    [n \in ToSet(declared.parts) |-> (CHOOSE d \in declared.fields : d.name = n).type]

\* Direct storage declares its keys as text, and says so by declaring no type.
prune_directory(t, declared, filter) ==
    kept_files(list_location_files(t.log, AnyDepth), ToSet(declared.parts), filter,
               IF t.format = "direct" THEN <<>> ELSE partition_column_types(declared))

\* A kept partition that cannot be read faithfully fails the query.
plan_glue_partitions(t, declared, filter) ==
    LET values(p) == [n \in ToSet(declared.parts) |-> p.value]
        kept == {p \in t.registered : keeps(filter, partition_column_types(declared), values(p))}
        entries(p) == {[path |-> f.path, deletes |-> {}, parts |-> values(p)] :
                          f \in ToSet(list_location_files(t.log, p.location))}
    IN  IF \E p \in kept : ~p.parquet \/ ~p.own_bucket THEN None
        ELSE Some(ByPath(UNION {entries(p) : p \in kept}))

-----------------------------------------------------------------------------
(* Opening and pruning                                                     *)

prune(t, declared, filter) ==
    CASE t.format = "iceberg" -> prune_iceberg(t, declared, filter)
      [] t.format = "delta"   -> prune_delta(t, declared, filter)
      [] t.format = "glue"    -> plan_glue_partitions(t, declared, filter)
      [] OTHER                -> prune_directory(t, declared, filter)

\* What the table is opened for: its location, then its format's gate.
opens(t) ==
    /\ t.located
    /\ t.format = "delta" => ensure_readable(t.protocol)
    /\ t.format = "iceberg" => ~refuse_date_promotion(t)

-----------------------------------------------------------------------------
(* External: what the writers of a table keep to.                          *)

Formats == {"iceberg", "delta", "unity", "glue", "direct"}
Plain(t) == t.format \in {"unity", "glue", "direct"}
Values == {Null} \cup 0 .. Largest
Listed(t) == {f \in Live(t.log) : f.kind \notin {"hidden", "empty", "extensionless"}}
KeyOf(t, c) == Upper(t.schema[c].name)

\* Columns have ids, and names and bound names of their own.
SchemaOK(t) ==
    /\ DOMAIN t.schema \subseteq Int \ {NoKey}
    /\ \A c \in DOMAIN t.schema :
         /\ t.schema[c].physical # NoName
         /\ t.format # "iceberg" /\ t.mode = "none" => t.schema[c].physical = t.schema[c].name
    /\ \A c, d \in DOMAIN t.schema :
         c # d => /\ KeyOf(t, c) # KeyOf(t, d)
                  /\ t.format # "iceberg" => t.schema[c].physical # t.schema[d].physical
    /\ t.parts \in Seq(DOMAIN t.schema)

\* The rows of a file have the same columns; a Glue table's files may be newer than its schema.
FileOK(t, f) ==
    /\ f.path \in Int
    /\ f.segments \in Seq([key : STRING, value : Values \cup {Junk}])
    /\ f.rows \in Seq([DOMAIN f.rows[1] -> Values]) \ {<<>>}
    /\ t.format # "glue" => DOMAIN f.rows[1] \subseteq DOMAIN t.schema
    /\ Plain(t) => f.deletes = {}
    /\ t.format = "iceberg" =>
         /\ f.kind \in {"parquet", "orc"}
         /\ \A d \in f.deletes : d.kind \in {"positions", "vector", "equality"}
         /\ \A c \in DOMAIN f.parts : \A i \in DOMAIN f.rows :
              c \in DOMAIN f.rows[i] /\ f.rows[i][c] = f.parts[c]
    /\ t.format = "delta" =>
         f.parts \in [{t.schema[c].physical : c \in ToSet(t.parts)} -> Values]

\* No live file holds a NULL in a required column.
RequiredOK(t, f) ==
    \A c \in DOMAIN t.schema :
        \/ t.schema[c].nullable
        \/ IF t.format = "delta" /\ c \in ToSet(t.parts) THEN f.parts[t.schema[c].physical] # Null
           ELSE c \in DOMAIN f.rows[1] /\ \A i \in DOMAIN f.rows : f.rows[i][c] # Null

\* A path is written once: a second add changes its deletes.  A remove names every earlier add.
DeltaLogOK(log) ==
    \A i, j \in DOMAIN log : log[i].file.path = log[j].file.path =>
        /\ \A field \in {"rows", "stats", "parts"} : log[i].file[field] = log[j].file[field]
        /\ i < j /\ log[i].op = "add" /\ log[j].op = "remove" =>
             \E k \in i + 1 .. Len(log) : log[k].file.path = log[i].file.path /\ log[k].key = log[i].key

\* A directory is partitioned by the keys that its paths carry; a column is one of them if it is
\* stored in a file as well.
DirectoryOK(t) ==
    LET keys == {Upper(k) : k \in UNION {SegmentKeys(f) : f \in Listed(t)}}
    IN  /\ keys \subseteq {KeyOf(t, c) : c \in ToSet(t.parts)}
        /\ \A c \in ToSet(t.parts), f \in Listed(t) : c \in DOMAIN f.rows[1] => KeyOf(t, c) \in keys

\* No two partitions are registered at one location: each would list its files.
RegisteredOK(t) ==
    /\ IsFiniteSet(t.registered)
    /\ \A p \in t.registered : p.location # AnyDepth /\ p.value \in Values \cup {Junk}
    /\ \A p, q \in t.registered : p.location = q.location => p = q

Consistent(t) ==
    /\ DOMAIN t = {"format", "mode", "protocol", "schema", "parts", "log", "registered", "located", "sampled"}
    /\ t.format \in Formats /\ t.mode \in {"none", "id", "name"}
    /\ t.format # "delta" => t.mode = "none"
    /\ t.log \in Seq([op : {"add", "remove"}, file : {t.log[i].file : i \in DOMAIN t.log},
                       key : {t.log[i].key : i \in DOMAIN t.log}])
    /\ SchemaOK(t)
    /\ \A i \in DOMAIN t.log : FileOK(t, t.log[i].file)
    /\ t.format = "delta" => DeltaLogOK(t.log)
    /\ t.format = "direct" => DirectoryOK(t)
    /\ RegisteredOK(t)
WellFormed(t) == Consistent(t) /\ \A f \in Live(t.log) : RequiredOK(t, f)

\* No column is dropped; what a file calls a column never changes, so without a column mapping no
\* name does either; a mapping stays.
Evolves(t, u) ==
    /\ u.format = t.format
    /\ t.mode \in {"none", u.mode}
    /\ \A c \in DOMAIN t.schema : c \in DOMAIN u.schema /\ u.schema[c].physical = t.schema[c].physical
    /\ Plain(t) => u.parts = t.parts

ASSUME SourcesAssumption == \A t \in Sources : WellFormed(t)
ASSUME FiltersAssumption == Filters \subseteq Trees

-----------------------------------------------------------------------------
(* The statement                                                           *)

Init ==
    /\ source \in Sources
    /\ notes = None
    /\ loaded = None
    /\ planned = None
    /\ commits = 0

\* A commit after a prune cannot change what was planned, so none is taken before the plan is used.
Commit ==
    /\ planned = None /\ commits < MaxCommits
    /\ source' \in {t \in Changes(source) : WellFormed(t) /\ Evolves(source, t)}
    /\ commits' = commits + 1
    /\ UNCHANGED <<notes, loaded, planned>>

\* CREATE, REFRESH or SET: a source whose columns cannot be declared leaves the notes as they are.
Declare ==
    /\ loaded = None
    /\ notes' = IF declared_schema(source) = None THEN notes ELSE declared_schema(source)
    /\ UNCHANGED <<source, loaded, planned, commits>>

\* The notes are parsed before the table is loaded; either failing fails every reference.
Open ==
    /\ loaded = None /\ notes # None
    /\ loaded' = Some([table |-> source, opened |-> ensure_scannable(notes[1]) /\ opens(source)])
    /\ UNCHANGED <<source, notes, planned, commits>>

\* One reference prunes the opened table; only Glue lists its files anew.
Prune ==
    /\ loaded # None /\ loaded[1].opened /\ planned = None
    /\ \E filter \in {None} \cup {Some(f) : f \in {g \in Filters : ColumnsOf(g) \subseteq Names(notes[1])}} :
         LET t == IF loaded[1].table.format = "glue" THEN [loaded[1].table EXCEPT !.log = source.log]
                  ELSE loaded[1].table
         IN  planned' = Some([table |-> t, filter |-> filter, files |-> prune(t, notes[1], filter)])
    /\ UNCHANGED <<source, notes, loaded, commits>>

\* The plan goes into the scan; another reference to the table may follow.
EndReference ==
    /\ planned # None
    /\ planned' = None
    /\ UNCHANGED <<source, notes, loaded, commits>>

EndStatement ==
    /\ loaded # None /\ planned = None
    /\ loaded' = None
    /\ UNCHANGED <<source, notes, planned, commits>>

Next == Commit \/ Declare \/ Open \/ Prune \/ EndReference \/ EndStatement
Spec == Init /\ [][Next]_vars

-----------------------------------------------------------------------------
(* Properties                                                              *)

Answered == planned # None /\ planned[1].files # None
PrunedTable == planned[1].table
Entries == planned[1].files[1]
FileAt(path) == CHOOSE f \in Live(PrunedTable.log) : f.path = path
Deleted(deletes) == UNION {d.positions : d \in deletes}
LivePositions(f) == DOMAIN f.rows \ Deleted(f.deletes)

\* The files the table consists of; a Glue table has only its registered locations' files.
TableFiles ==
    LET t == PrunedTable
        data == {f \in Live(t.log) : f.kind \notin {"hidden", "empty"}}
    IN  CASE t.format = "glue" -> {f \in data : \E p \in t.registered : p.location = f.dir}
          [] t.format \in {"unity", "direct"} -> {f \in data : f.kind # "extensionless"}
          [] OTHER -> Live(t.log)

\* A column's value in a row: a partition column's is the directory's, the registration's or the log's.
TrueValue(f, i, c) ==
    LET t == PrunedTable
        stored == IF c \in DOMAIN f.rows[i] THEN f.rows[i][c] ELSE Null
    IN  CASE t.format \in {"unity", "direct"} /\ c \in ToSet(t.parts) -> SegmentValue(f, t.schema[c].name)
          [] t.format = "glue" /\ c \in ToSet(t.parts) ->
               (CHOOSE p \in t.registered : p.location = f.dir).value
          [] t.format = "delta" /\ c \in ToSet(t.parts) -> f.parts[t.schema[c].physical]
          [] OTHER -> stored

\* The scan binds a declared column by its key and lets a carried partition value stand for it.
ReadValue(e, i, d) ==
    LET f == FileAt(e.path)
        stored == {c \in DOMAIN f.rows[i] \cap DOMAIN PrunedTable.schema :
                     IF d.id # NoKey THEN c = d.id
                     ELSE PrunedTable.schema[c].physical = IF d.physical # NoName THEN d.physical ELSE d.name}
    IN  IF d.name \in DOMAIN e.parts THEN e.parts[d.name]
        ELSE IF stored = {} THEN Null ELSE f.rows[i][CHOOSE c \in stored : TRUE]

\* f32 holds every number that a filter of an Iceberg table compares with a float column.
NarrowsNothing ==
    planned # None /\ PrunedTable.format = "iceberg" /\ planned[1].filter # None =>
        FloatsExact(planned[1].filter[1], iceberg_columns(PrunedTable, notes[1]))

Matches(row) == planned[1].filter = None \/ Truth(planned[1].filter[1], row) = "T"
DeclaredField(n) == CHOOSE d \in notes[1].fields : d.name = n

\* A planned file is a live file of the opened table, and its partition values are
\* keyed by declared names.
TypeOK ==
    /\ source.format \in {"iceberg", "delta", "unity", "glue", "direct"}
    /\ commits \in 0 .. MaxCommits
    /\ Answered => \A e \in ToSet(Entries) :
          /\ e.path \in {f.path : f \in Live(PrunedTable.log)}
          /\ DOMAIN e.parts \subseteq Names(notes[1])
          /\ Range(e.parts) \subseteq {Null, Junk} \cup 0 .. Largest

\* The rows of the planned files that pass the filter are exactly the rows of the opened table that
\* pass it, whatever was renamed, re-added, deleted or left without statistics since the CREATE:
\* no file with a matching row is pruned, no stale delete vector or column binding is used.
AnswerIsSnapshot ==
    Answered =>
        UNION {{<<e.path, i>> : i \in {j \in DOMAIN FileAt(e.path).rows \ Deleted(e.deletes) :
                    Matches([n \in Names(notes[1]) |-> ReadValue(e, j, DeclaredField(n))])}} :
                 e \in ToSet(Entries)}
        = UNION {{<<f.path, i>> : i \in {j \in LivePositions(f) :
                    Matches([n \in Names(notes[1]) |-> TrueValue(f, j, DeclaredField(n).column)])}} :
                 f \in TableFiles}

\* No file is planned twice: not for a path added again without a remove, nor for a partition
\* whose location lies below another's (no two are registered at one location: RegisteredOK).
EachFilePlannedOnce ==
    Answered => IsInjective([i \in DOMAIN Entries |-> Entries[i].path])

\* A column planned as NOT NULL holds no NULL in a planned file: DataFusion folds IS NULL to false
\* on it, so a declaration older than the source's relaxation would drop rows.
RequiredNeverNull ==
    Answered => \A e \in ToSet(Entries) : \A d \in notes[1].fields :
        d.nullable \/ \A i \in DOMAIN FileAt(e.path).rows : ReadValue(e, i, d) # Null

\* A filter never decides whether a declaration that disagrees with the table is refused; it can only
\* spare an unreadable file or partition that it prunes.
RefusalIgnoresFilter ==
    planned # None =>
        LET unfiltered == prune(PrunedTable, notes[1], None)
        IN  IF PrunedTable.format \in {"iceberg", "glue"} THEN unfiltered # None => Answered
            ELSE Answered <=> unfiltered # None

\* A table that nobody changed since it was declared, that holds nothing this engine cannot read and
\* that is not refused whole (it has a readable column, and no refused one partitions it), is opened
\* and planned.
FreshDeclarationServed ==
    LET t == loaded[1].table
        refused(c) == IF t.format \in {"iceberg", "direct"} THEN t.schema[c].type = "variant"
                      ELSE walk_field(t.schema[c], t.mode) # "mapped"
        readable ==
            /\ t.located /\ ensure_readable(t.protocol)
            /\ \A f \in Live(t.log) : f.kind # "orc" /\ \A d \in f.deletes : d.kind # "equality"
            /\ \A p \in t.registered : p.parquet /\ p.own_bucket
            /\ \A c \in DOMAIN t.schema : t.schema[c].was = {}
            /\ "P" \notin UNION {SegmentKeys(f) : f \in Live(t.log)}
            /\ IF t.format = "direct" THEN \A f \in Listed(t) : \E c \in DOMAIN f.rows[1] : ~refused(c)
               ELSE \E c \in DOMAIN t.schema : ~refused(c)
            /\ t.format \notin {"iceberg", "direct"} => \A c \in ToSet(t.parts) : ~refused(c)
    IN  loaded # None /\ notes = declared_schema(t) /\ readable =>
            /\ loaded[1].opened
            /\ planned # None /\ PrunedTable = t => Answered
=============================================================================
