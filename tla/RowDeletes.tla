----------------------------- MODULE RowDeletes -----------------------------
(***************************************************************************)
(* What a scan reads to apply row-position deletes                         *)
(* (crates/lakehouse-engine/src/scan/row_deletes.rs, deletion_vectors.rs)  *)
(* and the Parquet access plan it builds from them.                        *)
(*                                                                         *)
(* A path is [store, root, id]: the object-store root, the directories of  *)
(* its key and a number that orders paths as their bytes do.  A file entry *)
(* is [path, groups, deletes, fields, partition, unfit]; groups[g] is the  *)
(* row count of row group g.                                               *)
(* A delete mechanism has a kind and                                       *)
(*   "posfile"   the path of a positional-delete file                      *)
(*   "delta"     sidecar (a path or Inline), positions, cardinality, sound *)
(*   "puffin"    path, start, end, size, positions, cardinality            *)
(*   "equality"  the path of an equality-delete file.                      *)
(* A positional-delete file is a sequence of row groups [rows, low, high,  *)
(* tail]: rows [file, pos, null], the file_path statistics (low > high     *)
(* when absent) and whether the footer request brought the group's bytes.  *)
(***************************************************************************)
EXTENDS Integers, Sequences, FiniteSets, FiniteSetsExt, SequencesExt, Functions

CONSTANTS
    MaxGap,        \* bytes between two blobs one request may span
    MaxRequest     \* bytes of one merged Puffin request

Inline == [store |-> <<"", "">>, root |-> <<>>, id |-> 0]

EntriesOf(side) == ToSet(side.entries)
Assigned(side) == {e.path.id : e \in EntriesOf(side)}
Mechanisms(side) == UNION {e.deletes : e \in EntriesOf(side)}
Members(side, kind) ==
    UNION {{[file |-> e.path.id, vector |-> m] : m \in {d \in e.deletes : d.kind = kind}} :
              e \in EntriesOf(side)}

\* The serialized size of a position set: an empty one still has a header.
Size(positions) == 1 + Cardinality(positions)
Sizes(found) == SumFunction([f \in DOMAIN found |-> Size(found[f])])

-----------------------------------------------------------------------------
\* sound: the descriptor names a payload long enough and a sidecar URL that parses.
resolve_descriptor(m) == m.cardinality >= 0 /\ m.sound
resolve_manifest_vector(m) == m.end <= m.size

\* Mutant: an equality delete is skipped instead of refused.
equality_skipped(m) ==
    CASE m.kind = "delta" -> resolve_descriptor(m)
      [] m.kind = "puffin" -> resolve_manifest_vector(m)
      [] OTHER -> TRUE

applicable_delete_mechanism(m) ==
    CASE m.kind = "delta" -> resolve_descriptor(m)
      [] m.kind = "puffin" -> resolve_manifest_vector(m)
      [] OTHER -> m.kind = "posfile"

\* The object a mechanism names itself: a Delta sidecar is not one.
object_store_path(m) == IF m.kind = "delta" THEN {} ELSE {m.path}

\* A decoded vector must hold as many positions as the log or manifest declares.
Decodes(m) == Cardinality(m.vector.positions) = m.vector.cardinality

-----------------------------------------------------------------------------
\* The tasks of each stage.  from and to bound a Puffin request.
Task(op, path) == [op |-> op, path |-> path, group |-> 0, members |-> {}, from |-> 0, to |-> 0]

delete_file_opens(side) ==
    {Task("open", m.path) : m \in {d \in Mechanisms(side) : d.kind = "posfile"}}

delta_vector_reads(side) ==
    LET vectors == Members(side, "delta")
        sidecars == {m.vector.sidecar : m \in vectors} \ {Inline}
        read(path, members) == [Task("vector", path) EXCEPT !.members = members]
    IN  {read(p, {m \in vectors : m.vector.sidecar = p}) : p \in sidecars}
          \cup {read(Inline, {m}) : m \in {v \in vectors : v.vector.sidecar = Inline}}

\* The blob that sorts last by its start; blobs that start alike sort in any order.
Furthest(blobs) == CHOOSE m \in blobs : \A n \in blobs : n.vector.start <= m.vector.start
OwnRequest(m) ==
    [Task("vector", m.vector.path) EXCEPT
        !.members = {m}, !.from = m.vector.start, !.to = m.vector.end]

\* Mutant: a request ends where its last blob ends.
join_to_last_end(m, requests) ==
    LET last == Last(requests)
    IN  IF /\ requests # <<>>
           /\ m.vector.start - last.to <= MaxGap
           /\ m.vector.end - last.from <= MaxRequest
        THEN [requests EXCEPT ![Len(requests)] = [last EXCEPT !.to = m.vector.end, !.members = last.members \cup {m}]]
        ELSE Append(requests, OwnRequest(m))

\* A blob joins the open request while the gap and the length allow.
join_request(m, requests) ==
    LET last == Last(requests)
        to == Max({last.to, m.vector.end})
    IN  IF /\ requests # <<>>
           /\ m.vector.start - last.to <= MaxGap
           /\ to - last.from <= MaxRequest
        THEN [requests EXCEPT ![Len(requests)] = [last EXCEPT !.to = to, !.members = last.members \cup {m}]]
        ELSE Append(requests, OwnRequest(m))

\* The blobs of a file join in the order of their starts.
merge_blob_ranges(blobs) ==
    ToSet(MapThenFoldSet(join_request, <<>>, LAMBDA m : m, Furthest, blobs))

iceberg_vector_reads(side) ==
    LET vectors == Members(side, "puffin")
    IN  UNION {merge_blob_ranges({m \in vectors : m.vector.path = p}) :
                  p \in {m.vector.path : m \in vectors}}

delete_row_group_may_match(group, side) ==
    group.low > group.high \/ \E f \in Assigned(side) : group.low <= f /\ f <= group.high

\* The groups of a delete file that may hold a delete of an assigned data file.
Relevant(side, path) ==
    {g \in DOMAIN side.content[path.id] :
        delete_row_group_may_match(side.content[path.id][g], side)}
InTail(side, path) == {g \in Relevant(side, path) : side.content[path.id][g].tail}

row_group_reads(side) ==
    UNION {{[Task("group", o.path) EXCEPT !.group = g] :
               g \in Relevant(side, o.path) \ InTail(side, o.path)} :
              o \in delete_file_opens(side)}

\* Tasks that read from the store take a permit first; the others only compute.
Reads(t) == t.op \in {"open", "group", "plan"} \/ (t.op = "vector" /\ t.path # Inline)
\* A row group is decoded as it streams in, under its permit.
HoldsWhileDecoding(t) == t.op = "group"

-----------------------------------------------------------------------------
\* The rows of one decoded batch that name an assigned data file.
Applying(side, group) ==
    {r \in ToSet(group.rows) : ~r.null /\ r.file \in Assigned(side)}
Malformed(side, group) == \E r \in Applying(side, group) : r.pos < 0

\* add_positions: the batch's positions join the sets of the files they name.
add_positions(found, side, group) ==
    LET rows == Applying(side, group)
        old(f) == IF f \in DOMAIN found THEN found[f] ELSE {}
    IN  [f \in DOMAIN found \cup {r.file : r \in rows} |->
            old(f) \cup {r.pos : r \in {q \in rows : q.file = f}}]

decode_vectors(members) ==
    [f \in {m.file : m \in members} |->
        UNION {m.vector.positions : m \in {n \in members : n.file = f}}]

-----------------------------------------------------------------------------
FirstRow(groups, g) == SumFunction([k \in 1 .. g - 1 |-> groups[k]])

\* Alternating skip and select runs over the rows first .. last of one row group;
\* a run starts where deleted and live rows meet.
Selectors(first, last, deletes) ==
    LET heads == {p \in first .. last : p = first \/ (p \in deletes) # (p - 1 \in deletes)}
        runs == Cardinality(heads)
        head(i) == CHOOSE p \in heads : Cardinality({q \in heads : q <= p}) = i
        until(i) == IF i = runs THEN last + 1 ELSE head(i + 1)
    IN  [i \in 1 .. runs |-> [skip |-> head(i) \in deletes, rows |-> until(i) - head(i)]]

\* Mutant: a run of deleted rows is not cut where its row group ends.
plan_with_uncut_runs(groups, deletes) ==
    [g \in DOMAIN groups |->
        LET first == FirstRow(groups, g)
            last == first + groups[g] - 1
            consumed == {p \in first .. last :
                           first > 0 /\ \A q \in first - 1 .. p : q \in deletes}
        IN  IF (first .. last) \cap (deletes \ consumed) = {}
            THEN [access |-> "scan", selectors |-> <<>>]
            ELSE [access |-> "select", selectors |-> Selectors(first, last, deletes \ consumed)]]

build_access_plan(groups, deletes) ==
    [g \in DOMAIN groups |->
        LET first == FirstRow(groups, g)
            last == first + groups[g] - 1
        IN  CASE (first .. last) \cap deletes = {} -> [access |-> "scan", selectors |-> <<>>]
              [] (first .. last) \subseteq deletes -> [access |-> "skip", selectors |-> <<>>]
              [] OTHER -> [access |-> "select", selectors |-> Selectors(first, last, deletes)]]

access_plan_bytes(plan) == SumFunction([g \in DOMAIN plan |-> Len(plan[g].selectors)])

\* The rows DataFusion's opener reads of one row group under its access.
SelectedRows(groups, g, access) ==
    LET first == FirstRow(groups, g)
        all == first .. first + groups[g] - 1
        start(i) == first + SumFunction([k \in 1 .. i - 1 |-> access.selectors[k].rows])
    IN  CASE access.access = "scan" -> all
          [] access.access = "skip" -> {}
          [] OTHER -> UNION {start(i) .. start(i) + access.selectors[i].rows - 1 :
                        i \in {j \in DOMAIN access.selectors : ~access.selectors[j].skip}}
=============================================================================
