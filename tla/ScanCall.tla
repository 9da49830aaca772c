------------------------------ MODULE ScanCall ------------------------------
(***************************************************************************)
(* One call of the scan UDF (crates/lakehouse-engine/src/scan/mod.rs,      *)
(* raw_scan.rs, join_scan.rs, scan_table.rs, row_deletes.rs, emit.rs,      *)
(* store_router.rs): the file lists register, both sides of a join collect *)
(* their row deletes concurrently within one connection budget and one     *)
(* memory pool, and the batches of the live rows are emitted.              *)
(*                                                                         *)
(* A call is [sides, connections, pool]; a side is [root, entries, content,*)
(* logical, mapping, partition_columns, reads].  A task of a side waits    *)
(* for a permit, reads, decodes batch by batch and is done.                *)
(***************************************************************************)
EXTENDS RowDeletes, FieldBinding

CONSTANTS
    Calls,       \* the calls an instance makes
    MaxFaults    \* bound on the store failures of a call

\* The shape of a delete mechanism and of a side: the positions are row numbers,
\* a positional-delete file that a side lists has its row groups in content.
MechanismShape(side, m) ==
    /\ m.kind \in {"posfile", "delta", "puffin", "equality"}
    /\ m.kind \in {"delta", "puffin"} => m.positions \subseteq Nat /\ IsFiniteSet(m.positions)
    /\ m.kind = "puffin" => m.start \in Nat /\ m.end \in Nat /\ m.size \in Nat
    /\ m.kind = "posfile" =>
         LET groups == side.content[m.path.id]
         IN  /\ groups \in Seq(Range(groups))
             /\ \A g \in DOMAIN groups :
                  /\ groups[g].rows \in Seq([file : Nat, pos : Int, null : BOOLEAN])
                  /\ groups[g].low \in Int /\ groups[g].high \in Int
\* A root is the directories of a table_root's key, <<>> for a table at the root of
\* its container.  An empty table_root has the root that is above no path.
NoRoot == <<"">>
SideShape(side) ==
    /\ side.root \in Seq(STRING)
    /\ side.entries \in Seq(EntriesOf(side))
    /\ \A e \in EntriesOf(side) :
         /\ e.groups \in Seq(Nat)
         /\ IsFiniteSet(e.deletes)
         /\ \A m \in e.deletes : MechanismShape(side, m)

\* What the writers of a table grant.  A snapshot holds a file once; the file_path
\* statistics of a row group, where present, bound its rows; a positional-delete
\* file that names a file of the list is listed with that file.
NamesFile(side, m, f) ==
    \E g \in ToSet(side.content[m.path.id]) : \E r \in ToSet(g.rows) : ~r.null /\ r.file = f
SideConsistent(side) ==
    /\ \A e, d \in EntriesOf(side) : e.path.id = d.path.id => e = d
    /\ \A m \in {d \in Mechanisms(side) : d.kind = "posfile"} :
         /\ \A g \in ToSet(side.content[m.path.id]) : \A r \in ToSet(g.rows) :
              ~r.null /\ g.low <= g.high => g.low <= r.file /\ r.file <= g.high
         /\ \A e \in EntriesOf(side) : NamesFile(side, m, e.path.id) =>
              \E d \in e.deletes : d.kind = "posfile" /\ d.path = m.path

\* How the formats store a column: under its field id, in a file without ids under
\* a name the mapping gives that id, under its physical name, or under its own
\* name when it declares neither.
StoredAs(l, f, mapping) ==
    \/ l.id # NoId /\ f.id = l.id
    \/ l.physical # NoName /\ f.name = l.physical
    \/ l.id # NoId /\ \E m \in mapping : f.name \in m.names /\ m.id = l.id
    \/ binds_by_identity(l) /\ f.name = l.name

\* A field stored as a column is that column's; a mapping gives a name one id.  A
\* dropped column's name is therefore not given to another column while a file
\* without field ids keeps it: the scan binds such a field to the current column.
KeysTell(logical, fields, mapping) ==
    /\ logical \in Seq(ToSet(logical)) /\ fields \in Seq(ToSet(fields))
    /\ \A i, k \in DOMAIN logical : logical[i].column = logical[k].column => i = k
    /\ \A m, n \in mapping : m.names \cap n.names # {} => m = n
    /\ \A f \in ToSet(fields) : f.name # NoName
    /\ \A l \in ToSet(logical) : \A f \in ToSet(fields) :
         StoredAs(l, f, mapping) => f.column = l.column

\* A struct column stays a struct and its members are stored by their keys.
MembersConsistent(l, f, mapping) ==
    /\ f.type = "struct"
    /\ KeysTell(l.members, f.members, mapping)
    /\ \A m \in ToSet(l.members) : \A p \in ToSet(f.members) :
         p.column = m.column => StoredAs(m, p, mapping)

\* A file stores a column once, by its key; a column without one may be spelled in
\* other letter case, and the only field with its letters is it.
FileConsistent(side, e) ==
    LET mapping == MappingFor(side, e.fields)
    IN  /\ KeysTell(side.logical, e.fields, mapping)
        /\ \A l \in ToSet(side.logical) : \A j \in DOMAIN e.fields :
             LET f == e.fields[j]
                 alike == {k \in DOMAIN e.fields : Fold(e.fields[k].name) = Fold(l.name)}
             IN  /\ f.column = l.column =>
                      /\ \A k \in DOMAIN e.fields : e.fields[k].column = l.column => k = j
                      /\ StoredAs(l, f, mapping) \/ (binds_by_identity(l) /\ j \in alike)
                      /\ l.members # <<>> => MembersConsistent(l, f, mapped(mapping, f.name))
                 /\ binds_by_identity(l) /\ alike = {j} => f.column = l.column

\* A virtual table has a column name once, in uppercase letters; all columns of a
\* table bind by keys or none does; a query reads columns of the table.
SchemaConsistent(side) ==
    /\ \A i, k \in DOMAIN side.logical :
         Fold(side.logical[i].name) = Fold(side.logical[k].name) => i = k
    /\ \A l, k \in ToSet(side.logical) : binds_by_identity(l) => binds_by_identity(k)
    /\ side.reads \subseteq {l.name : l \in ToSet(side.logical)}
    /\ \A e \in EntriesOf(side) : FileConsistent(side, e)

ASSUME ScanCallAssumption ==
    /\ MaxFaults \in Nat /\ MaxGap \in Nat /\ MaxRequest \in Nat
    /\ \A c \in Calls :
         /\ c.sides \in Seq(ToSet(c.sides)) /\ c.sides # <<>>
         /\ c.connections \in Nat
         /\ \A s \in DOMAIN c.sides :
              SideShape(c.sides[s]) /\ SideConsistent(c.sides[s]) /\ SchemaConsistent(c.sides[s])

VARIABLES
    call,       \* the call
    outcome,    \* "running", "done" or "failed"
    stage,      \* per side: how far its planning is
    tasks,      \* per side: the spawned tasks and their progress
    sets,       \* per side: the position sets the finished stages left
    plans,      \* per side: the access plans by data file
    reserved,   \* per side: the bytes its reservation holds
    asked,      \* the store requests: side, path and the credential used
    emitted,    \* per side: the rows handed to the query
    todo,       \* per side: the row groups still to be read
    faults      \* store failures so far

vars == <<call, outcome, stage, tasks, sets, plans, reserved, asked, emitted, todo, faults>>
planning == <<stage, tasks, sets, plans>>

Sides == DOMAIN call.sides
Side(s) == call.sides[s]
Entry(s, f) == CHOOSE e \in EntriesOf(Side(s)) : e.path.id = f

NoSets == <<>>          \* the empty function
Pending == {"waiting", "reading", "decoding"}

-----------------------------------------------------------------------------
\* Mutant: the connection count is used as it is.
unclamped_limiter == call.connections

\* Clamped to 1: a semaphore without permits would block every read.
delete_path_read_limiter == Max({1, call.connections})

HoldsPermit(t, at) == at = "reading" \/ (at = "decoding" /\ HoldsWhileDecoding(t))
PermitHolders ==
    UNION {{<<s, t>> : t \in {u \in DOMAIN tasks[s] : HoldsPermit(u, tasks[s][u].at)}} : s \in Sides}

-----------------------------------------------------------------------------
\* The stores.  A store is <<host, container>>; DataFusion's registry drops the
\* container, so it serves one store per host.
side_store_url(side) == side.entries[1].path.store
registry_key(store) == store[1]
Key(path) == [root |-> path.root, id |-> path.id]

\* Fact side first; a dimension side without files contributes none.
present_sides == {s \in Sides : s = 1 \/ Side(s).entries # <<>>}

\* Mutant: two containers of one account are told apart by nothing.
any_containers ==
    \A s \in present_sides : Side(s).entries # <<>>

\* Sides whose stores only the container tells apart would share a registry slot.
validate_sides_share_one_store ==
    /\ \A s \in present_sides : Side(s).entries # <<>>
    /\ \A s, r \in present_sides :
         registry_key(side_store_url(Side(s))) = registry_key(side_store_url(Side(r)))
            => side_store_url(Side(s)) = side_store_url(Side(r))

\* A side's files share one store root; a Delta sidecar is not checked.
validate_uniform_object_store_files(side) ==
    \A e \in EntriesOf(side) : \A p \in {e.path} \cup UNION {object_store_path(m) : m \in e.deletes} :
        p.store = side_store_url(side)

\* The paths a side's routed store owns: the files and delete files of its list.
owned(s) ==
    {Key(e.path) : e \in EntriesOf(Side(s))}
        \cup {Key(p) : p \in UNION {object_store_path(m) : m \in Mechanisms(Side(s))}}

\* The sides behind the store a side's reads resolve to: the registry keeps the
\* store that registered last under the key.
group_sides_by_store_url(s) ==
    LET rivals == {r \in present_sides :
                     registry_key(side_store_url(Side(r))) = registry_key(side_store_url(Side(s)))}
    IN  {r \in present_sides : side_store_url(Side(r)) = side_store_url(Side(Max(rivals)))}

\* The side whose store, and credential, serves a path: the first side that
\* enumerates it, else the one with the longest root above it, else none.  NoRoot
\* is above no path: no directory has the empty name.
owning_side(group, path) ==
    LET listed == {s \in group : Key(path) \in owned(s)}
        under == {s \in group : IsPrefix(Side(s).root, path.root)}
        longest == {s \in under : \A u \in under : Len(Side(u).root) <= Len(Side(s).root)}
    IN  CASE listed # {} -> Min(listed)
          [] listed = {} /\ under # {} -> Min(longest)
          [] OTHER -> 0

\* A scan without a dimension side has one store and no router.
route(s, path) ==
    IF Cardinality(present_sides) = 1 THEN 1 ELSE owning_side(group_sides_by_store_url(s), path)

\* The objects there are.  A request carries the key only: it finds the object of
\* that key in the container of the side it is routed to.
Objects ==
    UNION {{e.path : e \in EntriesOf(Side(s))} \cup
           UNION {IF m.kind = "delta" THEN {m.sidecar} ELSE {m.path} : m \in Mechanisms(Side(s))} :
              s \in Sides}
Found(s, path) ==
    /\ route(s, path) # 0
    /\ \E o \in Objects : Key(o) = Key(path) /\ o.store = side_store_url(Side(route(s, path)))
Request(s, path) == [by |-> s, path |-> path, as |-> route(s, path)]

-----------------------------------------------------------------------------
TotalReserved == SumFunction(reserved)
Fits(bytes) == TotalReserved + bytes <= call.pool

Fail ==
    /\ outcome' = "failed"
    /\ UNCHANGED <<call, stage, tasks, sets, plans, reserved, asked, emitted, todo, faults>>

\* The tasks of a new stage; those without a read start computing.
Spawn(s, new, left) ==
    tasks' = [tasks EXCEPT ![s] =
        [t \in new |-> [at |-> IF Reads(t) THEN "waiting" ELSE "decoding",
                        left |-> left[t], found |-> NoSets]]]
Nothing(new) == [t \in new |-> {}]

AllDone(s) == \A t \in DOMAIN tasks[s] : tasks[s][t].at = "done"
Enter(s, next) == stage' = [stage EXCEPT ![s] = next]

-----------------------------------------------------------------------------
Init ==
    /\ call \in Calls
    /\ outcome = "running"
    /\ stage = [s \in Sides |-> "unbuilt"]
    /\ tasks = [s \in Sides |-> <<>>]
    /\ sets = [s \in Sides |-> {}]
    /\ plans = [s \in Sides |-> <<>>]
    /\ reserved = [s \in Sides |-> 0]
    /\ asked = {}
    /\ emitted = [s \in Sides |-> {}]
    /\ todo = [s \in Sides |-> {}]
    /\ faults = 0

\* One store per side and a router where the registry would keep only one.
BuildSessionContext ==
    /\ outcome = "running"
    /\ \A s \in Sides : stage[s] = "unbuilt"
    /\ IF validate_sides_share_one_store
       THEN /\ stage' = [s \in Sides |-> "registering"]
            /\ UNCHANGED <<call, outcome, tasks, sets, plans, reserved, asked, emitted, todo, faults>>
       ELSE Fail

\* register_file_list, one side after the other: an empty file list, a path under
\* another store root, a malformed default or an inconsistent partition column
\* fails the call.  A side without a logical schema is one whose columns do not
\* matter: inferring the schema of its first file is left out, since the planner
\* sends the columns of every table it does not refuse.
RegisterFileList(s) ==
    LET side == Side(s)
    IN  /\ outcome = "running"
        /\ stage[s] = "registering"
        /\ \A r \in 1 .. s - 1 : stage[r] = "registered"
        /\ IF /\ side.entries # <<>>
              /\ validate_uniform_object_store_files(side)
              /\ reconstruct_initial_defaults(side.logical)
              /\ PartitionedScanGroups_split(side)
           THEN /\ Enter(s, "registered")
                /\ UNCHANGED <<call, outcome, tasks, sets, plans, reserved, asked, emitted, todo, faults>>
           ELSE Fail

\* partitioned_files up to its first read: the partition values convert, then
\* every mechanism must be applicable, then the opens and the vector reads start.
StartPartitionedFiles(s) ==
    LET side == Side(s)
        convertible == \A e \in EntriesOf(side) : \A n \in PartitionColumns(side, e) :
                          partition_values_for(side, e)[n] # Failure
        reads == delete_file_opens(side) \cup delta_vector_reads(side) \cup iceberg_vector_reads(side)
        left == [t \in reads |-> IF t.op = "open" THEN InTail(side, t.path) ELSE {}]
    IN  /\ outcome = "running"
        /\ stage[s] = "registered"
        /\ \A r \in Sides : stage[r] # "registering"
        /\ \/ /\ ~convertible
              /\ Fail
           \/ /\ convertible /\ Mechanisms(side) = {}
              /\ Enter(s, "ready")
              /\ UNCHANGED <<call, outcome, tasks, sets, plans, reserved, asked, emitted, todo, faults>>
           \/ /\ convertible /\ Mechanisms(side) # {}
              /\ \E m \in Mechanisms(side) : ~applicable_delete_mechanism(m)
              /\ Fail
           \/ /\ convertible /\ Mechanisms(side) # {}
              /\ \A m \in Mechanisms(side) : applicable_delete_mechanism(m)
              /\ Spawn(s, reads, left)
              /\ Enter(s, "opening")
              /\ UNCHANGED <<call, outcome, sets, plans, reserved, asked, emitted, todo, faults>>

\* Mutant: each side counts its own permits.
AcquirePerSide(s, t) ==
    /\ outcome = "running"
    /\ tasks[s][t].at = "waiting"
    /\ Cardinality({h \in PermitHolders : h[1] = s}) < delete_path_read_limiter
    /\ tasks' = [tasks EXCEPT ![s][t].at = "reading"]
    /\ UNCHANGED <<call, outcome, stage, sets, plans, reserved, asked, emitted, todo, faults>>

\* A waiting task gets a permit and sends its request to the store that owns the path.
Acquire(s, t) ==
    /\ outcome = "running"
    /\ tasks[s][t].at = "waiting"
    /\ Cardinality(PermitHolders) < delete_path_read_limiter
    /\ IF ~Found(s, t.path)
       THEN Fail
       ELSE /\ tasks' = [tasks EXCEPT ![s][t].at = "reading"]
            /\ asked' = asked \cup {Request(s, t.path)}
            /\ UNCHANGED <<call, outcome, stage, sets, plans, reserved, emitted, todo, faults>>

\* The response arrives; only a row-group read keeps its permit while it decodes.
Arrive(s, t) ==
    /\ outcome = "running"
    /\ tasks[s][t].at = "reading"
    /\ tasks' = [tasks EXCEPT ![s][t].at = "decoding"]
    /\ UNCHANGED <<call, outcome, stage, sets, plans, reserved, asked, emitted, todo, faults>>

\* A request fails for good, in the delete path or in the scan itself.
StoreFails ==
    /\ outcome = "running"
    /\ faults < MaxFaults
    /\ \/ \E s \in Sides : \E t \in DOMAIN tasks[s] : tasks[s][t].at = "reading"
       \/ \E s \in Sides : todo[s] # {}
    /\ faults' = faults + 1
    /\ outcome' = "failed"
    /\ UNCHANGED <<call, stage, tasks, sets, plans, reserved, asked, emitted, todo>>

\* A task ends with what it found, its bytes reserved; a full pool fails the call.
Finish(s, t, found, bytes) ==
    IF Fits(bytes)
    THEN /\ tasks' = [tasks EXCEPT ![s][t] = [at |-> "done", left |-> {}, found |-> found]]
         /\ reserved' = [reserved EXCEPT ![s] = @ + bytes]
         /\ UNCHANGED <<call, outcome, stage, sets, plans, asked, emitted, todo, faults>>
    ELSE Fail

\* decode_row_groups: one batch joins its sets before the next one is decoded.
DecodeBatch(s, t) ==
    LET side == Side(s)
        g == Min(tasks[s][t].left)
        group == side.content[t.path.id][g]
        found == add_positions(tasks[s][t].found, side, group)
        growth == Sizes(found) - Sizes(tasks[s][t].found)
    IN  /\ outcome = "running"
        /\ t.op \in {"open", "group"}
        /\ tasks[s][t].at = "decoding"
        /\ tasks[s][t].left # {}
        /\ IF Malformed(side, group) \/ ~Fits(growth)
           THEN Fail
           ELSE /\ tasks' = [tasks EXCEPT ![s][t].left = @ \ {g}, ![s][t].found = found]
                /\ reserved' = [reserved EXCEPT ![s] = @ + growth]
                /\ UNCHANGED <<call, outcome, stage, sets, plans, asked, emitted, todo, faults>>

EndDecode(s, t) ==
    /\ outcome = "running"
    /\ t.op \in {"open", "group"}
    /\ tasks[s][t].at = "decoding"
    /\ tasks[s][t].left = {}
    /\ Finish(s, t, tasks[s][t].found, 0)

\* A vector must lie in the bytes its request read and hold as many positions as declared.
DecodeVectors(s, t) ==
    LET found == decode_vectors(t.members)
        held(m) == m.vector.kind = "puffin" => t.from <= m.vector.start /\ m.vector.end <= t.to
    IN  /\ outcome = "running"
        /\ t.op = "vector"
        /\ tasks[s][t].at = "decoding"
        /\ IF \A m \in t.members : Decodes(m) /\ held(m)
           THEN Finish(s, t, found, Sizes(found))
           ELSE Fail

\* All opens and vectors are in: the remaining row groups are read.  The sets a
\* stage leaves are a family, one member per task that found any.
SpawnRowGroups(s) ==
    LET left == [t \in row_group_reads(Side(s)) |-> {t.group}]
    IN  /\ outcome = "running"
        /\ stage[s] = "opening" /\ AllDone(s)
        /\ sets' = [sets EXCEPT ![s] = {[task |-> t, found |-> tasks[s][t].found] : t \in DOMAIN tasks[s]}]
        /\ Spawn(s, row_group_reads(Side(s)), left)
        /\ Enter(s, "grouping")
        /\ UNCHANGED <<call, outcome, plans, reserved, asked, emitted, todo, faults>>

\* union_by_data_file: one task per data file that any task found positions for.
SpawnUnions(s) ==
    LET all == sets[s] \cup {[task |-> t, found |-> tasks[s][t].found] : t \in DOMAIN tasks[s]}
        files == UNION {DOMAIN r.found : r \in all}
        unions == {Task("union", Entry(s, f).path) : f \in files}
    IN  /\ outcome = "running"
        /\ stage[s] = "grouping" /\ AllDone(s)
        /\ sets' = [sets EXCEPT ![s] = all]
        /\ Spawn(s, unions, Nothing(unions))
        /\ Enter(s, "uniting")
        /\ UNCHANGED <<call, outcome, plans, reserved, asked, emitted, todo, faults>>

SetsOf(s, f) == {r \in sets[s] : f \in DOMAIN r.found}
Union(s, f) == UNION {r.found[f] : r \in SetsOf(s, f)}
BytesOf(s, f) == SumFunction([r \in SetsOf(s, f) |-> Size(r.found[f])])

\* Mutant: the reservation keeps the bytes of the sets that were merged.
UniteUntracked(s, t) ==
    /\ outcome = "running"
    /\ t.op = "union"
    /\ tasks[s][t].at = "decoding"
    /\ Finish(s, t, [f \in {t.path.id} |-> Union(s, t.path.id)], 0)

Unite(s, t) ==
    LET f == t.path.id
    IN  /\ outcome = "running"
        /\ t.op = "union"
        /\ tasks[s][t].at = "decoding"
        /\ Finish(s, t, [x \in {f} |-> Union(s, f)], Size(Union(s, f)) - BytesOf(s, f))

\* The rest of partitioned_files: no positions at all drops the reservation, else
\* the files with deletes read their footers and get an access plan.
SpawnPlans(s) ==
    LET united == {[task |-> t, found |-> tasks[s][t].found] : t \in DOMAIN tasks[s]}
        builds == {Task("plan", t.path) : t \in {u \in DOMAIN tasks[s] : tasks[s][u].found[u.path.id] # {}}}
    IN  /\ outcome = "running"
        /\ stage[s] = "uniting" /\ AllDone(s)
        /\ sets' = [sets EXCEPT ![s] = united]
        /\ IF united = {}
           THEN /\ tasks' = [tasks EXCEPT ![s] = <<>>]
                /\ reserved' = [reserved EXCEPT ![s] = 0]
                /\ Enter(s, "ready")
           ELSE /\ Spawn(s, builds, Nothing(builds))
                /\ Enter(s, "building")
                /\ UNCHANGED reserved
        /\ UNCHANGED <<call, outcome, plans, asked, emitted, todo, faults>>

BuildPlan(s, t) ==
    LET f == t.path.id
        plan == build_access_plan(Entry(s, f).groups, Union(s, f))
    IN  /\ outcome = "running"
        /\ t.op = "plan"
        /\ tasks[s][t].at = "decoding"
        /\ IF Fits(access_plan_bytes(plan))
           THEN /\ tasks' = [tasks EXCEPT ![s][t].at = "done"]
                /\ plans' = [plans EXCEPT ![s] = [x \in DOMAIN @ \cup {f} |-> IF x = f THEN plan ELSE @[x]]]
                /\ reserved' = [reserved EXCEPT ![s] = @ + access_plan_bytes(plan)]
                /\ UNCHANGED <<call, outcome, stage, sets, asked, emitted, todo, faults>>
           ELSE Fail

PositionBytes(s) == SumFunction([r \in sets[s] |-> Sizes(r.found)])

\* The position sets go; the reservation keeps what the access plans hold.
EndPlans(s) ==
    /\ outcome = "running"
    /\ stage[s] = "building" /\ AllDone(s)
    /\ reserved' = [reserved EXCEPT ![s] = @ - PositionBytes(s)]
    /\ sets' = [sets EXCEPT ![s] = {}]
    /\ tasks' = [tasks EXCEPT ![s] = <<>>]
    /\ Enter(s, "ready")
    /\ UNCHANGED <<call, outcome, plans, asked, emitted, todo, faults>>

-----------------------------------------------------------------------------
GroupsOf(s) == UNION {{<<e.path.id, g>> : g \in DOMAIN e.groups} : e \in EntriesOf(Side(s))}

\* Every side is planned: the stream opens.
StartStream ==
    /\ outcome = "running"
    /\ \A s \in Sides : stage[s] = "ready"
    /\ stage' = [s \in Sides |-> "streaming"]
    /\ todo' = [s \in Sides |-> GroupsOf(s)]
    /\ UNCHANGED <<call, outcome, tasks, sets, plans, reserved, asked, emitted, faults>>

Access(s, f, g) ==
    IF f \in DOMAIN plans[s] THEN plans[s][f][g] ELSE [access |-> "scan", selectors |-> <<>>]

\* emit_one_batch over one row group: the file opens and binds its columns, the
\* values are coerced strictly, the rows leave.  Any failure fails the call.
EmitBatch(s, f, g) ==
    LET e == Entry(s, f)
        rows == SelectedRows(e.groups, g, Access(s, f, g))
    IN  /\ outcome = "running"
        /\ <<f, g>> \in todo[s]
        /\ IF ~Found(s, e.path) \/ ~Readable(Side(s), e) \/ (rows # {} /\ g \in e.unfit)
           THEN Fail
           ELSE /\ todo' = [todo EXCEPT ![s] = @ \ {<<f, g>>}]
                /\ emitted' = [emitted EXCEPT ![s] = @ \cup
                     {[file |-> f, row |-> r, values |-> ReadRow(Side(s), e)] : r \in rows}]
                /\ asked' = asked \cup {Request(s, e.path)}
                /\ UNCHANGED <<call, outcome, stage, tasks, sets, plans, reserved, faults>>

EndStream ==
    /\ outcome = "running"
    /\ \A s \in Sides : stage[s] = "streaming" /\ todo[s] = {}
    /\ outcome' = "done"
    /\ reserved' = [s \in Sides |-> 0]
    /\ UNCHANGED <<call, stage, tasks, sets, plans, asked, emitted, todo, faults>>

\* After a failure the join sets drop: a task ends at its next await and lets go
\* of its permit; the reservation goes with the last of its side.
Abort(s, t) ==
    /\ outcome = "failed"
    /\ tasks' = [tasks EXCEPT ![s] = [u \in DOMAIN @ \ {t} |-> @[u]]]
    /\ reserved' = [reserved EXCEPT ![s] = IF DOMAIN tasks[s] = {t} THEN 0 ELSE @]
    /\ UNCHANGED <<call, outcome, stage, sets, plans, asked, emitted, todo, faults>>

\* The providers drop with the session of the failed call.
DropProviders(s) ==
    /\ outcome = "failed"
    /\ DOMAIN tasks[s] = {} /\ reserved[s] # 0
    /\ reserved' = [reserved EXCEPT ![s] = 0]
    /\ UNCHANGED <<call, outcome, stage, tasks, sets, plans, asked, emitted, todo, faults>>

TaskStep(s, t) ==
    \/ Acquire(s, t)
    \/ Arrive(s, t)
    \/ DecodeBatch(s, t)
    \/ EndDecode(s, t)
    \/ DecodeVectors(s, t)
    \/ Unite(s, t)
    \/ BuildPlan(s, t)
    \/ Abort(s, t)

SideStep(s) ==
    \/ RegisterFileList(s)
    \/ StartPartitionedFiles(s)
    \/ SpawnRowGroups(s)
    \/ SpawnUnions(s)
    \/ SpawnPlans(s)
    \/ EndPlans(s)
    \/ DropProviders(s)
    \/ \E t \in DOMAIN tasks[s] : TaskStep(s, t)
    \/ \E b \in todo[s] : EmitBatch(s, b[1], b[2])

Steps ==
    \/ BuildSessionContext
    \/ \E s \in Sides : SideStep(s)
    \/ StartStream
    \/ EndStream

Next == Steps \/ StoreFails

\* The runtime drives every runnable task and every response ends in time or in
\* an error (the store client has its own timeouts); a fault never has to happen.
Spec == Init /\ [][Next]_vars /\ WF_vars(Steps)
-----------------------------------------------------------------------------
TaskStates == {"waiting", "reading", "decoding", "done"}

\* The shape of a call in progress; no more reads hold a permit than the limiter
\* gave out, both sides counted.
TypeOK ==
    /\ outcome \in {"running", "done", "failed"}
    /\ \A s \in Sides :
         /\ stage[s] \in {"unbuilt", "registering", "registered", "opening", "grouping", "uniting",
                          "building", "ready", "streaming"}
         /\ \A t \in DOMAIN tasks[s] :
              /\ tasks[s][t].at \in TaskStates
              /\ \A f \in DOMAIN tasks[s][t].found : tasks[s][t].found[f] \subseteq Nat
         /\ DOMAIN plans[s] \subseteq Assigned(Side(s))
         /\ reserved[s] \in Nat
         /\ todo[s] \subseteq GroupsOf(s)
    /\ Cardinality(PermitHolders) <= Max({1, call.connections})
    /\ faults \in 0 .. MaxFaults

\* What a delete file or vector says of a file, whatever was read of it.
DeletedBy(side, e, m) ==
    CASE m.kind = "posfile" ->
         {r.pos : r \in {q \in UNION {ToSet(g.rows) : g \in ToSet(side.content[m.path.id])} :
                            ~q.null /\ q.file = e.path.id}}
      [] m.kind = "equality" -> {}
      [] OTHER -> m.positions

\* Casts that change or lose values.
Lossy == {<<"text", "long">>, <<"decimal", "long">>, <<"decimal", "int">>, <<"long", "int">>}

\* What a row of the file is, by the column each field was written for.
TrueRow(side, e) ==
    LET logical(n) == CHOOSE l \in ToSet(side.logical) : l.name = n
        of(n) == {j \in DOMAIN e.fields : e.fields[j].column = logical(n).column}
        members(j, l) == [i \in DOMAIN l.members |->
            IF \E m \in ToSet(e.fields[j].members) : m.column = l.members[i].column
            THEN l.members[i].column ELSE 0]
    IN  [n \in side.reads |->
          CASE n \in PartitionColumns(side, e) -> partition_values_for(side, e)[n]
            [] n \notin PartitionColumns(side, e) /\ of(n) # {} ->
                 IF <<e.fields[Min(of(n))].type, logical(n).type>> \in Lossy THEN Failure
                 ELSE Value("file", logical(n).column, members(Min(of(n)), logical(n)), "")
            [] n \notin PartitionColumns(side, e) /\ of(n) = {} /\ logical(n).default # "" ->
                 Value("default", 0, <<>>, logical(n).default)
            [] OTHER -> IF logical(n).nullable THEN NullValue ELSE Failure]

LiveRows(s) ==
    UNION {{<<e.path.id, r>> :
              r \in (0 .. FirstRow(e.groups, Len(e.groups) + 1) - 1)
                      \ UNION {DeletedBy(Side(s), e, m) : m \in e.deletes}} :
              e \in EntriesOf(Side(s))}

\* Whatever order the delete reads finish in, a call that succeeds has emitted
\* every row no mechanism deletes and no other; a call that fails after some
\* batches has emitted no deleted row either.
ExactlyLiveRows ==
    \A s \in Sides :
        LET rows == {<<r.file, r.row>> : r \in emitted[s]}
        IN  rows \subseteq LiveRows(s) /\ (outcome = "done" => rows = LiveRows(s))

\* An emitted value comes from the column the table means, whatever the file
\* calls it: across renames, drops and re-added names, files without field ids,
\* letter case, struct members, defaults and partition values.  In a file without
\* ids a name is one column's (KeysTell): a dropped column's name given to another
\* column reads the dropped values, as the binding documents of itself.
ValuesAsWritten ==
    \A s \in Sides : \A r \in emitted[s] : r.values = TrueRow(Side(s), Entry(s, r.file))

TaskBytes(s) ==
    SumFunction([t \in DOMAIN tasks[s] |->
        IF stage[s] = "uniting" /\ tasks[s][t].at # "done"
        THEN BytesOf(s, t.path.id) ELSE Sizes(tasks[s][t].found)])
PlanBytes(s) == SumFunction([f \in DOMAIN plans[s] |-> access_plan_bytes(plans[s][f])])
HeldBytes(s) ==
    TaskBytes(s) + (IF stage[s] = "uniting" THEN 0 ELSE PositionBytes(s)) + PlanBytes(s)

\* The reservation of a side is at every step what its position sets and access
\* plans hold: no set is unreserved while it lives, and none stays reserved.
MemoryAccounted ==
    outcome = "running" => \A s \in Sides : reserved[s] = HeldBytes(s)

\* The paths in a side's file list, and whether one of them has the key of a path:
\* a request carries no more than the key.
Listed(s) ==
    UNION {{e.path} \cup {m.path : m \in {d \in e.deletes : d.kind # "delta"}} : e \in EntriesOf(Side(s))}
Enumerates(s, path) == \E p \in Listed(s) : Key(p) = Key(path)

\* Two tables of one account have one store in the registry: a listed file is
\* still read from the container it names, every request goes out with a
\* credential that covers its key, and with the asking side's own unless the
\* other table lists the key or has its root at least as near.
OwnCredential ==
    \A a \in asked :
        LET above(s) == IsPrefix(Side(s).root, a.path.root)
        IN  /\ a.path \in Listed(a.by) => side_store_url(Side(a.as)) = a.path.store
            /\ Len(call.sides) > 1 => Enumerates(a.as, a.path) \/ above(a.as)
            /\ \/ a.as = a.by
               \/ Enumerates(a.as, a.path)
               \/ ~above(a.by)
               \/ Len(Side(a.as).root) >= Len(Side(a.by).root)

Unappliable(side) ==
    \/ \E m \in Mechanisms(side) :
         \/ m.kind = "equality"
         \/ m.kind = "puffin" /\ m.end > m.size
         \/ m.kind = "delta" /\ ~m.sound
         \/ m.kind \in {"delta", "puffin"} /\ Cardinality(m.positions) # m.cardinality
         \/ m.kind = "posfile" /\ \E g \in ToSet(side.content[m.path.id]) : Malformed(side, g)

\* A mechanism the scan cannot apply, a vector that disagrees with its declared
\* cardinality or a malformed position is never skipped: no row leaves.
UnappliedNeverServed ==
    (\E s \in Sides : Unappliable(Side(s))) =>
        outcome # "done" /\ \A s \in Sides : emitted[s] = {}

\* A side whose files every reader of the table format could read.
Sound(side) ==
    /\ ~Unappliable(side)
    /\ reconstruct_initial_defaults(side.logical) /\ PartitionedScanGroups_split(side)
    /\ validate_uniform_object_store_files(side)
    /\ \A e \in EntriesOf(side) :
         /\ e.unfit = {}
         /\ \A n \in PartitionColumns(side, e) : partition_values_for(side, e)[n] # Failure
         /\ \A n \in side.reads : TrueRow(side, e)[n] # Failure
         /\ \A j, k \in DOMAIN e.fields : Fold(e.fields[j].name) = Fold(e.fields[k].name) => j = k
         /\ \A j \in DOMAIN e.fields : \A l \in ToSet(side.logical) :
              e.fields[j].column = l.column =>
                 IF e.fields[j].type = "struct" THEN l.members # <<>> ELSE admits(e.fields[j].type, l.type)
         /\ \A m \in e.deletes : m.kind = "delta" =>
              \/ m.sidecar = Inline
              \/ m.sidecar.store = e.path.store /\ IsPrefix(side.root, m.sidecar.root)

\* Every side is sound and no two stores differ in their container alone.
SoundCall ==
    /\ \A s \in Sides : Side(s).entries # <<>> /\ Sound(Side(s))
    /\ \A s, r \in Sides :
         LET of(x) == side_store_url(Side(x))
         IN  registry_key(of(s)) = registry_key(of(r)) => of(s) = of(r)

\* The bytes the next step of a task that computes adds to its reservation.
Asks(s, t) ==
    LET r == tasks[s][t]
        batch == Side(s).content[t.path.id][Min(r.left)]
        f == t.path.id
    IN  CASE t.op \in {"open", "group"} ->
               IF r.left = {} THEN 0
               ELSE Sizes(add_positions(r.found, Side(s), batch)) - Sizes(r.found)
          [] t.op = "vector" -> Sizes(decode_vectors(t.members))
          [] t.op = "union" -> Size(Union(s, f)) - BytesOf(s, f)
          [] t.op = "plan" -> access_plan_bytes(build_access_plan(Entry(s, f).groups, Union(s, f)))
PoolFull ==
    \E s \in Sides : \E t \in DOMAIN tasks[s] : tasks[s][t].at = "decoding" /\ ~Fits(Asks(s, t))

\* Nothing but a store failure or a full pool fails a call over sound files,
\* however few connections it has.
ServableIsServed ==
    [][outcome = "running" /\ outcome' = "failed" /\ faults' = faults /\ SoundCall => PoolFull]_vars

\* The call ends with either side's reads waiting on one permit, and a failed one
\* has given every permit and byte back.
CallEnds ==
    <>(\/ outcome = "done"
       \/ /\ outcome = "failed"
          /\ \A s \in Sides : DOMAIN tasks[s] = {} /\ reserved[s] = 0)
=============================================================================
