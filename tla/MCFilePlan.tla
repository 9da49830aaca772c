----------------------------- MODULE MCFilePlan -----------------------------
(***************************************************************************)
(* Tables of every format with a column a (1) and a partition column p     *)
(* (2), a third column that a rename frees the name a for (3), and the     *)
(* commits writers may make.                                               *)
(***************************************************************************)
EXTENDS FilePlan

Column(name, physical, type, nullable) ==
    [name |-> name, physical |-> physical, type |-> type, was |-> {}, nullable |-> nullable,
     change |-> "none", annotated |-> TRUE]

File(path, segments, dir, kind, rows, stats, parts) ==
    [path |-> path, dir |-> dir, segments |-> segments, kind |-> kind, rows |-> rows,
     stats |-> stats, parts |-> parts, deletes |-> {}]

NoParts == [k \in {} |-> 0]
Add(file, key) == [op |-> "add", file |-> file, key |-> key]
Unlist(file, key) == [op |-> "remove", file |-> file, key |-> key]

Table(format, mode, type, required, log) ==
    LET mapped == mode # "none"
    IN  [format |-> format, mode |-> mode,
         protocol |-> [version |-> IF mapped THEN 3 ELSE 1,
                       features |-> IF mapped THEN Some({"columnMapping"}) ELSE None],
         schema |-> 1 :> Column("a", IF mapped THEN "c1" ELSE "a", type, ~required)
                    @@ 2 :> Column("p", IF mapped THEN "c2" ELSE "p",
                                   IF format = "direct" THEN "text" ELSE "int", TRUE),
         parts |-> <<2>>, log |-> log, registered |-> {}, located |-> TRUE, sampled |-> FALSE]

A(v) == 1 :> v
AP(v, p) == 1 :> v @@ 2 :> p
Seg(v) == <<[key |-> "p", value |-> v]>>

IcebergLog == <<Add(File(1, <<>>, <<>>, "parquet", <<AP(2, 2), AP(4, 2)>>, TRUE, 2 :> 2), 0),
                Add(File(2, <<>>, <<>>, "parquet", <<AP(0, 4), AP(6, 0)>>, TRUE, NoParts), 0)>>
DeltaLog(k) == <<Add(File(1, <<>>, <<>>, "parquet", <<A(2), A(4)>>, TRUE, k :> 2), 0),
                 Add(File(2, <<>>, <<>>, "parquet", <<A(0), A(6)>>, FALSE, k :> 4), 0)>>
DirectoryLog == <<Add(File(1, Seg(2), <<"d">>, "parquet", <<A(2), A(4)>>, FALSE, NoParts), 0),
                  Add(File(2, Seg(2) \o Seg(4), <<"d", "e">>, "parquet", <<A(0), A(6)>>, FALSE, NoParts), 0)>>

\* The first file has no segment and a second stores the column its path names.
UnevenLog == <<Add(File(1, <<>>, <<>>, "parquet", <<A(2), A(4)>>, FALSE, NoParts), 0),
               Add(File(2, Seg(4), <<"d">>, "parquet", <<AP(0, 2), AP(6, 2)>>, FALSE, NoParts), 0)>>

\* Columns of a type that is not read: a, or a and p.
Unread(t, columns) ==
    [t EXCEPT !.schema = [c \in DOMAIN @ |-> IF c \in columns THEN [@[c] EXCEPT !.type = "variant"] ELSE @[c]]]
RefusedSources ==
    {Unread(Table("iceberg", "none", "int", TRUE, IcebergLog), {1, 2}),
     Unread(Table("delta", "name", "int", TRUE, DeltaLog("c2")), {2}),
     Unread(Table("unity", "none", "int", FALSE, DirectoryLog), {1}),
     Unread(Table("unity", "none", "int", FALSE, DirectoryLog), {2}),
     Unread(Table("direct", "none", "int", FALSE, DirectoryLog), {1}),
     Unread([Table("direct", "none", "int", FALSE, SubSeq(UnevenLog, 1, 1)) EXCEPT !.parts = <<>>], {1})}

MCSources ==
    {Table("iceberg", "none", type, TRUE, IcebergLog) : type \in {"int", "float", "text", "date"}}
    \cup {Table("delta", "none", type, TRUE, DeltaLog("p")) : type \in {"decimal", "int"}}
    \cup {Table("delta", mode, "float", TRUE, DeltaLog("c2")) : mode \in {"id", "name"}}
    \cup {Table(format, "none", "int", FALSE, DirectoryLog) : format \in {"unity", "direct"}}
    \cup {[Table("direct", "none", "int", FALSE, UnevenLog) EXCEPT !.sampled = b] : b \in BOOLEAN}
    \cup {[Table("glue", "none", "int", FALSE, DirectoryLog) EXCEPT !.registered =
            {[location |-> <<"d">>, value |-> 2, parquet |-> TRUE, own_bucket |-> TRUE],
             [location |-> <<"d", "e">>, value |-> 4, parquet |-> TRUE, own_bucket |-> TRUE]}]}
    \cup RefusedSources

-----------------------------------------------------------------------------
Key(t) == t.schema[2].physical
Files(t) == {f \in Live(t.log) : f.path = 1}
Push(t, actions) == [t EXCEPT !.log = @ \o actions]
HasPath(t, p) == \E i \in DOMAIN t.log : t.log[i].file.path = p

\* A third file, with a NULL where a may be NULL and the new column where there is one.
Third(t) ==
    LET v == IF t.schema[1].nullable THEN Null ELSE 2
        extra == IF 3 \in DOMAIN t.schema THEN 3 :> 6 ELSE <<>>
    IN  CASE t.format = "iceberg" -> File(3, <<>>, <<>>, "parquet", <<AP(v, 0) @@ extra>>, TRUE, 2 :> 0)
          [] t.format = "delta" /\ t.parts = <<>> -> File(3, <<>>, <<>>, "parquet", <<AP(v, 2)>>, TRUE, NoParts)
          [] t.format = "delta" /\ t.parts # <<>> ->
               File(3, <<>>, <<>>, "parquet", <<A(v) @@ extra>>, TRUE, Key(t) :> Null)
          [] OTHER -> File(3, Seg(Null), <<"f">>, "parquet", <<A(v)>>, FALSE, NoParts)

Appended(t) ==
    IF HasPath(t, 3) THEN {}
    ELSE {Push(t, <<Add(Third(t), 0)>>)}
         \cup IF ~Plain(t) THEN {}
              ELSE {Push(t, <<Add([Third(t) EXCEPT !.kind = k], 0)>>) : k \in {"hidden", "empty", "extensionless"}}
                   \cup {Push(t, <<Add([Third(t) EXCEPT !.segments = s], 0)>>) :
                           s \in {Seg(Junk), <<[key |-> "P", value |-> 4]>>, <<>>}}
                   \cup {Push(t, <<Add([Third(t) EXCEPT !.rows = <<AP(2, 4)>>, !.segments = s], 0)>>) :
                           s \in {Seg(2), <<>>}}

\* A row of the first file is deleted: a delete file, or the file added again with a vector.
Deleting(t) ==
    LET with(f, kind) == [f EXCEPT !.deletes = {[kind |-> kind, positions |-> {1}]}]
    IN  CASE t.format = "iceberg" -> {Push(t, <<Add(with(f, k), 0)>>) : f \in Files(t), k \in {"positions", "equality"}}
          [] t.format = "delta" -> {Push(t, <<Unlist(f, 0), Add(with(f, "vector"), 1)>>) : f \in Files(t)}
                                   \cup {Push(t, <<Add(with(f, "vector"), 1)>>) : f \in Files(t)}
          [] OTHER -> {}

Removed(t) == {Push(t, <<Unlist(f, 0)>>) : f \in {g \in Files(t) : g.deletes = {}}}

\* p is renamed q, or a is renamed b and another column takes the name a.
Renamed(t) ==
    IF Plain(t) \/ (t.format = "delta" /\ t.mode = "none") \/ 3 \in DOMAIN t.schema THEN {}
    ELSE {[t EXCEPT !.schema[2].name = "q"],
          [t EXCEPT !.schema = 3 :> Column("a", IF t.mode = "none" THEN "a" ELSE "c3", "int", TRUE)
                               @@ [@ EXCEPT ![1].name = "b"]]}

Relaxed(t) == IF t.schema[1].nullable THEN {} ELSE {[t EXCEPT !.schema[1].nullable = TRUE]}

Altered(t) ==
    CASE t.format = "iceberg" ->
            (IF t.schema[1].type # "date" THEN {}
             ELSE {[t EXCEPT !.schema[1] = [@ EXCEPT !.type = "timestamp", !.was = {"date"}]]})
            \cup {Push(t, <<Add([f EXCEPT !.kind = "orc"], 0)>>) : f \in Files(t)}
            \cup {[t EXCEPT !.located = FALSE]}
      [] t.format = "delta" ->
            {[t EXCEPT !.protocol = [version |-> 3, features |-> Some({"columnMapping", "catalogManaged"})]],
             [t EXCEPT !.protocol = [version |-> 3, features |-> None]]}
            \cup (IF t.mode # "none" THEN {}
                  ELSE {[t EXCEPT !.mode = "name", !.protocol = [version |-> 2, features |-> None]],
                        [t EXCEPT !.parts = <<>>, !.log = <<Add(File(4, <<>>, <<>>, "parquet", <<AP(2, 4)>>, TRUE, NoParts), 0)>>]})
      [] t.format = "glue" ->
            IF \E p \in t.registered : p.location = <<"f">> THEN {}
            ELSE {[t EXCEPT !.registered =
                     @ \cup {[location |-> <<"f">>, value |-> Null, parquet |-> b, own_bucket |-> o]}] :
                    b \in BOOLEAN, o \in BOOLEAN}
      [] OTHER -> {}

MCChanges(t) == Appended(t) \cup Deleting(t) \cup Removed(t) \cup Renamed(t) \cup Relaxed(t) \cup Altered(t)

-----------------------------------------------------------------------------
Num(v) == [kind |-> "num", v |-> v]
Str(v) == [kind |-> "str", v |-> v]
Cmp(op, col, lit, flipped) == [t |-> "cmp", op |-> op, col |-> col, lit |-> lit, flipped |-> flipped]
And(a, b) == [t |-> "and", args |-> <<a, b>>]
Or(a, b) == [t |-> "or", args |-> <<a, b>>]
Not(a) == [t |-> "not", arg |-> a]
Other == [t |-> "other", col |-> "a"]

Atoms ==
    {Cmp(op, "a", Num(4), FALSE) : op \in {"eq", "ne", "lt", "ge"}}
    \cup {Cmp("gt", "a", Num(2), TRUE), Cmp("le", "a", Num(8), FALSE), Cmp("eq", "a", Str(4), FALSE),
          Cmp("lt", "a", Str(Empty), FALSE), Cmp("le", "p", Num(3), FALSE), Cmp("eq", "p", Num(2), FALSE),
          Cmp("gt", "p", Str(2), FALSE), Cmp("eq", "p", Str(Empty), FALSE),
          [t |-> "null", col |-> "a"], [t |-> "notnull", col |-> "p"],
          [t |-> "in", col |-> "a", lits |-> <<Num(0), Num(2)>>], [t |-> "in", col |-> "p", lits |-> <<Num(4), Num(3)>>],
          [t |-> "between", col |-> "a", low |-> Num(4), high |-> Num(8)],
          [t |-> "between", col |-> "p", low |-> Num(1), high |-> Num(2)], Other}

Parts == <<Cmp("ge", "a", Num(4), FALSE), Cmp("eq", "p", Num(2), FALSE), Cmp("gt", "p", Str(2), FALSE),
           Cmp("lt", "p", Num(3), FALSE), Other,
           [t |-> "between", col |-> "a", low |-> Num(4), high |-> Num(8)]>>
Pairs == {<<Parts[i], Parts[j]>> : <<i, j>> \in {ij \in (1 .. 6) \X (1 .. 6) : ij[1] < ij[2]}}

MCFilters ==
    LET both == {And(ab[1], ab[2]) : ab \in Pairs} \cup {Or(ab[1], ab[2]) : ab \in Pairs}
    IN  Atoms \cup {Not(a) : a \in Atoms} \cup both \cup {Not(a) : a \in both}
=============================================================================
