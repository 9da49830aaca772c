----------------------------- MODULE MCScanCall -----------------------------
(* Calls for ScanCall: delete reads of one or two sides that share permits   *)
(* and memory, and single-file scans over evolved schemas.                   *)
EXTENDS ScanCall

\* A location is a store, <<host, container>>, and the directories of a key.
Path(at, id) == [store |-> Head(at), root |-> Tail(at), id |-> id]
File(root, id, groups, deletes) ==
    [path |-> Path(root, id), groups |-> groups, deletes |-> deletes,
     fields |-> <<>>, partition |-> <<>>, unfit |-> {}]
TableAt(root, entries, content) ==
    [root |-> Tail(root), entries |-> entries, content |-> content, logical |-> <<>>,
     mapping |-> {}, partition_columns |-> <<>>, reads |-> {}]

Posfile(root, id) == [kind |-> "posfile", path |-> Path(root, id)]
Delta(sidecar, positions, cardinality) ==
    [kind |-> "delta", sidecar |-> sidecar, positions |-> positions,
     cardinality |-> cardinality, sound |-> TRUE]
Puffin(root, id, from, to, positions) ==
    [kind |-> "puffin", path |-> Path(root, id), start |-> from, end |-> to, size |-> 9,
     positions |-> positions, cardinality |-> Cardinality(positions)]
Equality(root, id) == [kind |-> "equality", path |-> Path(root, id)]

Row(f, p) == [file |-> f, pos |-> p, null |-> FALSE]
NullRow(f) == [file |-> f, pos |-> 0, null |-> TRUE]
Group(rows, low, high, tail) == [rows |-> rows, low |-> low, high |-> high, tail |-> tail]

Store == <<"account", "one">>
Fact == <<Store, "fact">>
Dim == <<Store, "fact", "dim">>
\* The same keys in another container of the account, and in another account.
Twin == <<<<"account", "two">>, "fact">>
Other == <<<<"other", "one">>, "fact">>

\* One positional-delete file of three row groups, its statistics truncated.
Deletes11 == 11 :> <<Group(<<Row(1, 1), Row(1, 2), NullRow(1), Row(2, 0)>>, 0, 9, FALSE),
                     Group(<<Row(7, 0)>>, 7, 7, FALSE),
                     Group(<<Row(2, 1), Row(2, 0), Row(7, 1)>>, 1, 0, TRUE)>>
FactSide ==
    TableAt(Fact, <<File(Fact, 1, <<2, 2>>, {Posfile(Fact, 11)}),
                    File(Fact, 2, <<3>>, {Posfile(Fact, 11)})>>, Deletes11)
\* Blobs of one Puffin file, the second inside the range of the first.
PuffinSide ==
    TableAt(Fact, <<File(Fact, 1, <<2, 1>>, {Puffin(Fact, 12, 0, 6, {1, 2})}),
                    File(Fact, 2, <<1>>, {Puffin(Fact, 12, 2, 4, {0})}),
                    File(Fact, 3, <<2>>, {Puffin(Fact, 12, 8, 9, {1})})>>, <<>>)
\* The second blob starts the longest gap after the first, the third starts one more.
GapSide ==
    TableAt(Fact, <<File(Fact, 1, <<2>>, {Puffin(Fact, 12, 0, 4, {1})}),
                    File(Fact, 2, <<1>>, {Puffin(Fact, 12, 5, 6, {0})}),
                    File(Fact, 3, <<1>>, {Puffin(Fact, 12, 8, 9, {0})})>>, <<>>)
\* Vectors of one sidecar, an inline one and one that deletes nothing.
DeltaSide(root) ==
    TableAt(root, <<File(root, 1, <<2>>, {Delta(Path(root, 21), {0}, 1)}),
                    File(root, 2, <<1, 1>>, {Delta(Inline, {1}, 1)})>>, <<>>)
PlainSide(root) == TableAt(root, <<File(root, 1, <<1>>, {})>>, <<>>)
Rootless(side) == [side EXCEPT !.root = NoRoot]
BadSides ==
    {TableAt(Fact, <<File(Fact, 1, <<2>>, {Equality(Fact, 31)}), File(Fact, 2, <<1>>, {})>>, <<>>),
     TableAt(Fact, <<File(Fact, 1, <<2>>, {Delta(Inline, {0}, 2)})>>, <<>>),
     TableAt(Fact, <<File(Fact, 1, <<2>>, {Delta(Inline, {}, 0), Delta(Path(Fact, 22), {}, -1)})>>, <<>>),
     TableAt(Fact, <<File(Fact, 1, <<2>>, {Puffin(Fact, 12, 8, 10, {0})})>>, <<>>),
     TableAt(Fact, <<File(Fact, 1, <<2>>, {Posfile(Fact, 13)})>>,
             13 :> <<Group(<<Row(1, 0)>>, 1, 1, TRUE), Group(<<Row(1, -1)>>, 1, 1, FALSE)>>),
     TableAt(Fact, <<>>, <<>>),
     TableAt(Fact, <<File(Fact, 1, <<1>>, {}), File(Other, 2, <<1>>, {})>>, <<>>),
     TableAt(Fact, <<[File(Fact, 1, <<1, 1, 1>>, {Delta(Inline, {1, 2}, 2)}) EXCEPT !.unfit = {1, 2}]>>, <<>>),
     TableAt(Fact, <<File(Fact, 1, <<2>>, {Posfile(Twin, 13)})>>, 13 :> <<Group(<<Row(1, 0)>>, 1, 1, TRUE)>>),
     TableAt(Fact, <<File(Fact, 1, <<2>>, {Delta(Path(Twin, 21), {0}, 1)})>>, <<>>),
     TableAt(Fact, <<File(Fact, 1, <<2>>, {Delta(Path(<<Store, "lost">>, 21), {0}, 1)})>>, <<>>)}

Call(sides, connections, pool) == [sides |-> sides, connections |-> connections, pool |-> pool]
DeleteCalls ==
    {Call(<<FactSide, DeltaSide(Dim)>>, 1, 1000), Call(<<PuffinSide, DeltaSide(Dim)>>, 2, 9),
     Call(<<DeltaSide(Fact), DeltaSide(Dim)>>, 2, 1000)}
    \cup {Call(<<side>>, c, b) : side \in {FactSide, PuffinSide, DeltaSide(Fact)}, c \in {0, 2}, b \in {7, 1000}}
    \cup {Call(<<side>>, 1, 1000) : side \in BadSides \cup {GapSide}}
    \cup {Call(<<side, PlainSide(Dim)>>, 1, 1000) : side \in BadSides}
    \cup {Call(<<PlainSide(Fact), FactSide>>, 2, 1000)}
    \cup {Call(<<Rootless(side), PlainSide(Dim)>>, 1, 1000) : side \in {PlainSide(Fact), DeltaSide(Fact)}}
    \cup {Call(<<PlainSide(Fact), side>>, 1, 1000) : side \in {PlainSide(Twin), DeltaSide(Other)}}

-----------------------------------------------------------------------------
\* Names by letters and spelling, fields by how they bind, columns by number.
N(letters) == <<letters, 1>>
Logical(name, id, column) ==
    [name |-> name, id |-> id, physical |-> NoName, type |-> "long", nullable |-> TRUE,
     default |-> "", members |-> <<>>, column |-> column]
Required(l) == [l EXCEPT !.nullable = FALSE]
Stored(name, id, type, column) ==
    [name |-> name, id |-> id, type |-> type, members |-> <<>>, column |-> column]
Struct(field, members) == [field EXCEPT !.type = "struct", !.members = members]
Mapped(names, id, fields) == [names |-> names, id |-> id, fields |-> fields]

Schema(logical, mapping, files) == [logical |-> logical, mapping |-> mapping, files |-> files]

\* Column 1 was renamed from a to b, then a was added again as column 2.
Iceberg ==
    Schema(<<Logical(N("b"), 1, 1), [Logical(N("a"), 2, 2) EXCEPT !.default = "d"]>>, {},
        {<<Stored(N("a"), 1, "int", 1)>>,
         <<Stored(N("a"), 2, "long", 2), Stored(N("b"), 1, "long", 1)>>,
         <<Stored(N("a"), NoId, "long", 9), Stored(N("b"), 1, "text", 1)>>})
\* A file without ids binds through the mapping of old and new names.
MappedNames ==
    Schema(<<Logical(N("b"), 1, 1), Required(Logical(N("c"), 2, 2))>>,
        {Mapped({N("a"), N("b")}, 1, {}), Mapped({N("c")}, 2, {})},
        {<<Stored(N("a"), NoId, "long", 1), Stored(N("c"), NoId, "int", 2)>>,
         <<Stored(N("a"), NoId, "long", 1)>>,
         <<Stored(N("a"), NoId, "long", 9), Stored(N("x"), 2, "null", 2)>>})
\* Delta name mapping: the physical name outlives the renames.
DeltaNames ==
    Schema(<<[Logical(N("b"), NoId, 1) EXCEPT !.physical = N("a")],
             [Logical(N("a"), NoId, 2) EXCEPT !.physical = N("col-2")]>>, {},
        {<<Stored(N("a"), NoId, "long", 1)>>,
         <<Stored(N("col-2"), NoId, "long", 2), Stored(N("a"), NoId, "long", 1), Stored(N("b"), NoId, "long", 9)>>})
\* No mapping: the name itself, then its letters when they decide.
Identity ==
    Schema(<<Logical(N("a"), NoId, 1), Logical(N("b"), NoId, 2)>>, {},
        {<<Stored(<<"a", 2>>, NoId, "long", 1), Stored(N("b"), NoId, "decimal", 2)>>,
         <<Stored(<<"a", 2>>, NoId, "long", 9), Stored(N("a"), NoId, "long", 1)>>,
         <<Stored(<<"a", 2>>, NoId, "long", 1), Stored(<<"a", 3>>, NoId, "long", 9)>>})
\* The members of a struct by id, by mapping, dropped, added and reordered.
Nested ==
    Schema(<<[Logical(N("s"), 1, 1) EXCEPT !.type = "text",
                !.members = <<Logical(N("x"), 3, 3), Logical(N("y"), 4, 4)>>]>>,
        {Mapped({N("s")}, 1, {Mapped({N("x"), N("w")}, 3, {}), Mapped({N("y")}, 4, {})})},
        {<<Struct(Stored(N("s"), 1, "struct", 1), <<Stored(N("y"), 9, "long", 9), Stored(N("w"), 3, "long", 3)>>)>>,
         <<Struct(Stored(N("s"), NoId, "struct", 1), <<Stored(N("y"), NoId, "long", 4), Stored(N("w"), NoId, "long", 3)>>)>>,
         <<Struct(Stored(N("s"), NoId, "struct", 9), <<Stored(N("x"), 3, "long", 3)>>)>>})
\* A default that does not decode, of a column every file stores.
BadDefault == [Iceberg EXCEPT !.logical[2].default = "bad"]
Schemas == {Iceberg, BadDefault, MappedNames, DeltaNames, Identity, Nested}

NamesOf(schema) == {l.name : l \in ToSet(schema.logical)}
Evolved(schema, reads, fields) ==
    [TableAt(Fact, <<[File(Fact, 1, <<2>>, {Delta(Inline, {0}, 1)}) EXCEPT !.fields = fields]>>, <<>>)
        EXCEPT !.logical = schema.logical, !.mapping = schema.mapping, !.reads = reads]
EvolvedSides ==
    UNION {{Evolved(schema, reads, fields) :
               reads \in {{n} : n \in NamesOf(schema)} \cup {NamesOf(schema)}, fields \in schema.files} :
              schema \in Schemas}

\* Partition columns: listed ones, a key only one file carries, and bad lists.
Partitioned(columns, one, two) ==
    [TableAt(Fact, <<[File(Fact, 1, <<1>>, {}) EXCEPT !.partition = one,
                        !.fields = <<Stored(N("b"), 1, "long", 1), Stored(N("a"), 2, "long", 2)>>],
                     [File(Fact, 2, <<1>>, {}) EXCEPT !.partition = two,
                        !.fields = <<Stored(N("a"), 2, "long", 2)>>]>>, <<>>)
        EXCEPT !.logical = Iceberg.logical, !.reads = NamesOf(Iceberg), !.partition_columns = columns]
PartitionedSides ==
    {Partitioned(<<N("b")>>, N("b") :> v, N("b") :> w) : v, w \in {"x", "none", "", "bad"}}
    \cup {Partitioned(<<>>, N("a") :> "x", N("z") :> "x"),
          Partitioned(<<N("b")>>, (N("b") :> "x") @@ (N("a") :> ""), N("b") :> "y"),
          Partitioned(<<N("z")>>, N("z") :> "x", N("z") :> "y"),
          Partitioned(<<N("b"), N("b")>>, N("b") :> "x", N("b") :> "y"),
          Partitioned(<<N("b"), N("a")>>, N("b") :> "x", N("b") :> "y")}

Made == DeleteCalls \cup {Call(<<side>>, 1, 1000) : side \in EvolvedSides \cup PartitionedSides}
=============================================================================
