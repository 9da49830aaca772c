--------------------------- MODULE MCPushdownPlan ---------------------------
EXTENDS PushdownPlan

RequestsOf(shapes, lists, filters, havings, orders) ==
    {[shape |-> shape, items |-> items, filter |-> filter, having |-> having,
      order_by |-> order_by, limit |-> w[1], offset |-> w[2], nested |-> nested,
      refused |-> {}] :
        shape \in shapes, items \in lists, filter \in filters, having \in havings,
        order_by \in orders, w \in {<<NoLimit, 0>>, <<0, 0>>, <<1, 0>>, <<1, 1>>},
        nested \in BOOLEAN}

Key(by) == [by |-> by, ascending |-> TRUE, nulls_last |-> TRUE]
KeyDesc(by) == [by |-> by, ascending |-> FALSE, nulls_last |-> FALSE]

\* Requests Exasol sends: an offset needs an order and never comes with a
\* single-group aggregate, and a nested column matters only to row requests.
Sent(R) ==
    {q \in R : /\ q.offset = 0 \/ (q.order_by # <<>> /\ q.shape # "single")
               /\ q.nested => q.shape = "rows"}

\* Requests without a limit on a table with a refused column, or with no other.
OnRefused(R) ==
    {[q EXCEPT !.refused = c] : c \in {{"k"}, {"v"}, {"k", "v"}}, q \in {q \in R : q.limit = NoLimit /\ ~q.nested}}

RowRequests ==
    Sent(RequestsOf({"rows"}, {<<"k">>, <<"v", "k">>, <<"expr">>, <<"opaque", "k">>},
                    {"none", "rendered", "declined"}, {"none"},
                    {<<>>, <<Key("v")>>, <<KeyDesc("k"), Key("v")>>, <<Key("expr")>>}))
    \cup Sent(RequestsOf({"rows"}, {<<"k">>, <<"nowhere">>}, {"rendered", "nowhere"}, {"none"},
                         {<<>>, <<Key("k"), Key("unrenderable")>>}))
    \cup OnRefused(RequestsOf({"rows"}, {<<"k">>, <<"v">>, <<"opaque">>}, {"none", "rendered"},
                              {"none"}, {<<>>, <<Key("v")>>}))

\* COUNT(*) with a HAVING that only Exasol renders names no column at all.
CountRequests ==
    LET counts == RequestsOf({"single"}, {<<"count">>}, {"none", "rendered"},
                             {"none", "rendered", "outer"}, {<<>>})
    IN  Sent(counts) \cup OnRefused(counts)

AggregateRequests ==
    Sent(RequestsOf({"single"},
                    {<<"count">>, <<"sum", "min">>, <<"max", "avg">>, <<"var_pop", "variance">>,
                     <<"distinct">>, <<"distinct", "count">>, <<"distinct_expr">>, <<"opaque">>},
                    {"none", "rendered", "declined"}, {"none", "rendered"}, {<<>>}))
    \cup Sent(RequestsOf({"group"},
                    {<<"k", "count">>, <<"sum", "count">>, <<"countv", "k", "var_pop">>,
                     <<"opaque", "k">>, <<"k">>},
                    {"none", "rendered"}, {"none", "rendered"},
                    {<<>>, <<Key("k")>>, <<KeyDesc("count"), Key("k")>>}))
    \cup CountRequests
    \cup Sent(RequestsOf({"single", "group"}, {<<"count">>, <<"nowhere">>},
                    {"declined", "nowhere"}, {"rendered", "nowhere"}, {<<>>}))

AllRequests == RowRequests \cup AggregateRequests

\* Tables of at most n rows with these contents, up to the order of rows.
TablesOf(n, contents, shard_count) ==
    LET row(code) == LET c == contents[1 + code \div (shard_count + 1)]
                     IN  [k |-> c[1], v |-> c[2], shard |-> code % (shard_count + 1)]
        codes == 0 .. Len(contents) * (shard_count + 1) - 1
        sorted(len) == {f \in [1 .. len -> codes] :
                          \A i, j \in 1 .. len : i <= j => f[i] <= f[j]}
    IN  UNION {{[i \in 1 .. len |-> row(f[i])] : f \in sorted(len)} : len \in 0 .. n}

SmallTables == TablesOf(3, <<<<1, 2>>, <<2, 1>>, <<2, Null>>, <<2, 2>>, <<Null, 1>>>>, 2)
=============================================================================
