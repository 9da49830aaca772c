------------------------------- MODULE MCJoins -------------------------------
(* Requests and contents for Joins: two tables that share their column names.*)
EXTENDS Joins

T(alias) == [table |-> "T", alias |-> alias]
U(alias) == [table |-> "U", alias |-> alias]
TwoTables == <<T("none"), U("none")>>
SelfJoin == <<T("a"), T("b")>>
HalfAliased == <<T("none"), T("b")>>

Col(legs, l, n) == [table |-> legs[l].table, alias |-> legs[l].alias, name |-> n, of |-> l]
Expr(op, cols, render) == [op |-> op, cols |-> cols, render |-> render]
Key(c, kind, ascending, nulls_last) ==
    [col |-> c, kind |-> kind, ascending |-> ascending, nulls_last |-> nulls_last]

\* SELECT l1.k, l2.k FROM l1 JOIN l2 ON l1.k = l2.k
Base(legs, max_bytes) ==
    [legs |-> legs, inner |-> TRUE, max_bytes |-> max_bytes,
     conditions |-> <<Expr("eq", <<Col(legs, 1, "k"), Col(legs, 2, "k")>>, "both")>>,
     filter |-> <<>>, items |-> <<Col(legs, 1, "k"), Col(legs, 2, "k")>>,
     render |-> "both", long |-> FALSE, star |-> FALSE, aggregate |-> FALSE,
     order_by |-> <<>>, limit |-> NoLimit, offset |-> 0, refused |-> {}]
Bases == {Base(legs, b) : legs \in {TwoTables, SelfJoin, HalfAliased}, b \in {0, 1}}

FiltersOf(r) ==
    LET k(l) == Col(r.legs, l, "k")
        v(l) == Col(r.legs, l, "v")
    IN  {<<Expr("ge2", <<v(2)>>, "both")>>,
         <<Expr("ge2", <<v(1)>>, "typed"), Expr("ge2", <<k(2)>>, "exasol")>>,
         <<Expr("either", <<k(1), k(2)>>, "both"), Expr("true", <<>>, "both")>>,
         <<Expr("ge2", <<v(1)>>, "both"), Expr("lt", <<k(1), v(2)>>, "exasol")>>,
         <<Expr("ge2", <<k(1)>>, "nowhere")>>}
Filtered(r) == {[r EXCEPT !.filter = f] : f \in FiltersOf(r)}

Sorted(r, keys, limit, offset) ==
    [r EXCEPT !.order_by = keys, !.limit = limit, !.offset = offset]
Windowed(r) ==
    LET v(nulls_last) == Key(Col(r.legs, 1, "v"), "column", TRUE, nulls_last)
        shown == [r EXCEPT !.items = <<Col(r.legs, 1, "v"), Col(r.legs, 2, "k")>>]
        other == Key(Col(r.legs, 2, "k"), "column", FALSE, FALSE)
    IN  {[r EXCEPT !.limit = 2], Sorted(r, <<other>>, 1, 0), Sorted(r, <<v(TRUE)>>, 1, 0),
         Sorted(shown, <<v(TRUE)>>, 1, 0), Sorted(shown, <<v(FALSE), other>>, 2, 0),
         Sorted(shown, <<v(TRUE), other>>, 1, 1), Sorted(shown, <<other>>, NoLimit, 0),
         Sorted([r EXCEPT !.items = <<Col(r.legs, 1, "k")>>], <<other>>, 1, 0),
         Sorted(r, <<Key(Col(r.legs, 1, "v"), "expr", TRUE, TRUE)>>, 1, 0),
         Sorted(r, <<Key(Col(r.legs, 1, "v"), "nowhere", TRUE, TRUE)>>, 1, 0)}

\* One clause at a time is something a route cannot serve.
Odd(r) ==
    {[r EXCEPT !.inner = FALSE], [r EXCEPT !.long = TRUE],
     [r EXCEPT !.render = "exasol"], [r EXCEPT !.render = "nowhere"],
     [r EXCEPT !.items = <<>>, !.star = TRUE], [r EXCEPT !.items = <<>>, !.aggregate = TRUE],
     [r EXCEPT !.conditions = <<Expr("lt", r.conditions[1].cols, "both")>>],
     [r EXCEPT !.conditions = <<Expr("eq", r.conditions[1].cols, "exasol")>>],
     [r EXCEPT !.conditions = <<Expr("eq", r.conditions[1].cols, "nowhere")>>],
     [r EXCEPT !.conditions = <<Expr("eq", <<Col(r.legs, 1, "k"), Col(r.legs, 1, "v")>>, "both")>>,
               !.items = <<Col(r.legs, 1, "k")>>],
     [r EXCEPT !.items = <<[Col(r.legs, 1, "k") EXCEPT !.table = "T", !.alias = "c",
                              !.of = IF r.legs = TwoTables THEN 1 ELSE NoLeg]>>],
     [r EXCEPT !.refused = {<<"T", "v">>}],
     [r EXCEPT !.refused = {<<r.legs[2].table, "k">>}],
     [r EXCEPT !.refused = {r.legs[2].table} \X {"k", "v"}]}

PairRequests ==
    Bases \cup (UNION {Filtered(r) \cup Windowed(r) \cup Odd(r) : r \in Bases})
      \cup UNION {UNION {Windowed(f) : f \in Filtered(r)} : r \in {Base(SelfJoin, 1)}}

\* Chains of three legs, their conditions and conjuncts in every direction.
Chain(legs, conditions) ==
    [Base(legs, 1) EXCEPT !.conditions = conditions,
                          !.items = [l \in 1 .. 3 |-> Col(legs, l, "k")]]
ChainsOver(legs) ==
    LET k(l) == Col(legs, l, "k")
        on(a, b) == Expr("eq", <<k(a), k(b)>>, "both")
        chain == Chain(legs, <<on(1, 2), on(2, 3)>>)
    IN  {chain, Chain(legs, <<on(1, 2), on(1, 3)>>), Chain(legs, <<on(1, 3), on(2, 3)>>),
         Chain(legs, <<Expr("ge2", <<k(1)>>, "both"), on(1, 2)>>),
         Chain(legs, <<Expr("true", <<>>, "both"), on(3, 1)>>),
         [chain EXCEPT !.filter = <<Expr("ge2", <<Col(legs, 2, "v")>>, "both"), Expr("lt", <<k(1), k(3)>>, "both")>>],
         [chain EXCEPT !.filter = <<Expr("ge2", <<k(3)>>, "typed")>>],
         [chain EXCEPT !.items = <<k(3)>>,
                       !.order_by = <<Key(Col(legs, 1, "v"), "column", TRUE, TRUE)>>, !.limit = 1],
         [chain EXCEPT !.items = <<>>, !.aggregate = TRUE],
         [chain EXCEPT !.items = <<k(1)>>, !.refused = {<<legs[3].table, "k">>}],
         [chain EXCEPT !.conditions = <<on(1, 2), Expr("true", <<>>, "both")>>, !.items = <<k(1)>>,
                       !.refused = {legs[2].table} \X {"k", "v"}]}
ChainRequests ==
    ChainsOver(<<T("a"), T("b"), T("c")>>) \cup ChainsOver(<<T("none"), U("u"), T("b")>>)

TRow(k, v, file) == [k |-> k, v |-> v, file |-> file]
URow(k, v, file) == [k |-> k, v |-> v, file |-> file]
Content(t, u) == [n \in {"T", "U"} |-> IF n = "T" THEN t ELSE u]

PairContents ==
    {Content(<<TRow(1, 2, 1), TRow(2, Blank, 1), TRow(2, 1, 2)>>, <<URow(2, 1, 1), URow(1, 2, 1)>>),
     Content(<<TRow(2, Null, 1), TRow(2, 2, 2)>>, <<URow(2, 2, 1), URow(2, 1, 2)>>),
     Content(<<TRow(2, Blank, 1), TRow(3, 1, 1)>>, <<URow(Null, 1, 1), URow(3, 2, 2)>>),
     Content(<<TRow(1, 1, 1), TRow(Null, 2, 2)>>, <<>>),
     Content(<<>>, <<URow(1, 1, 1)>>)}

ChainContents ==
    {Content(<<TRow(1, 2, 1), TRow(2, Blank, 2)>>, <<URow(2, 1, 1), URow(1, 2, 1)>>),
     Content(<<TRow(2, Null, 1), TRow(2, 2, 1)>>, <<URow(2, 2, 1)>>),
     Content(<<TRow(1, 1, 1), TRow(3, 2, 1)>>, <<>>)}

Requested == PairRequests \cup ChainRequests
Stored == PairContents \cup ChainContents

\* The blanks are in no column that a scan compares.
ASSUME StoredAssumption == NoBlankCompared(Requested, Stored)

\* An empty string on both sides of the join key.
BlankKeyRequests == {Base(TwoTables, 1)}
BlankKeyContents ==
    {Content(<<TRow(Blank, 1, 1), TRow(1, 1, 2)>>, <<URow(Blank, 1, 1), URow(1, 2, 1)>>)}

\* Two columns of one name and different types.
TwoTypeRequests ==
    {[r EXCEPT !.items = <<Col(r.legs, 1, "v"), Col(r.legs, 2, "v")>>] : r \in BlankKeyRequests}

SharedTypes == [n \in {"T", "U"} |-> IF n = "T" THEN [k |-> "VARCHAR", v |-> "VARCHAR"]
                                     ELSE [k |-> "VARCHAR", v |-> "VARCHAR"]]
OwnTypes == [n \in {"T", "U"} |-> IF n = "T" THEN [k |-> "VARCHAR", v |-> "VARCHAR"]
                                  ELSE [k |-> "VARCHAR", v |-> "DATE"]]
=============================================================================
