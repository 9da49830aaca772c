---------------------------- MODULE PushdownPlan ----------------------------
(***************************************************************************)
(* One single-table pushdown from request to answer                        *)
(* (crates/lakehouse-engine/src/adapter/pushdown): the adapter routes the  *)
(* request to a plan, every shard's scan call emits rows or partials, and  *)
(* Exasol runs the outer SELECT the adapter wrapped around them.           *)
(*                                                                         *)
(* A table has a key column k and a value column v, both nullable.  A plan *)
(* is what the generated SQL says, not its text.  Where SQL leaves the     *)
(* result open (ties, a LIMIT without ORDER BY) the model chooses freely,  *)
(* in the scan and in Exasol alike.                                        *)
(*                                                                         *)
(* Averages and variances are exact: they are counted in 1/Unit and        *)
(* 1/Unit^2, and Unit is a common multiple of every possible row count.    *)
(***************************************************************************)
EXTENDS Integers, Sequences, FiniteSets, FiniteSetsExt, SequencesExt, Functions

CONSTANTS
    Tables,     \* the table contents to explore, functions from row ids
    Requests,   \* the pushdown requests to explore
    MaxShards,  \* bound on the shards of one pushdown
    Unit

VARIABLES
    stage,      \* "requested", "scanning", "answered", "declined", "failed"
    request,
    table,      \* row id -> [k, v, shard], shard 0 when its file is pruned
    shards,     \* the number of shards, 0 when no file is left after pruning
    plan,
    emitted,    \* what every finished scan call emitted
    answer      \* the rows or groups Exasol returns, in order, and their values

vars == <<stage, request, table, shards, plan, emitted, answer>>

Null == -1
NoLimit == -1
Rows == DOMAIN table
\* An item that no partial covers, and one that neither dialect renders.
Opaque == {"opaque", "nowhere"}
Merging == {"count", "countv", "sum", "min", "max", "avg", "var_pop", "variance"}

\* What a select list or a sort key may name.
Aggregates == Merging \cup {"distinct", "distinct_expr"} \cup Opaque
Names == {"k", "v", "expr", "unrenderable"} \cup Aggregates

\* An offset needs an order and never comes with a single-group aggregate, which
\* selects and sorts by aggregates only.
ASSUME RequestsAssumption ==
    \A q \in Requests :
        /\ q.shape \in {"rows", "single", "group"}
        /\ q.items \in Seq(Names)
        /\ q.shape = "single" =>
             /\ ToSet(q.items) \subseteq Aggregates
             /\ \A i \in DOMAIN q.order_by : q.order_by[i].by \in Aggregates
        /\ q.filter \in {"none", "rendered", "declined", "nowhere"}
        /\ q.having \in {"none", "rendered", "outer", "nowhere"}
        /\ q.order_by \in Seq([by : Names, ascending : BOOLEAN, nulls_last : BOOLEAN])
        /\ q.limit \in Nat \cup {NoLimit}
        /\ q.offset \in Nat
        /\ q.offset # 0 => q.order_by # <<>> /\ q.shape # "single"
        /\ q.nested \in BOOLEAN
        /\ q.refused \subseteq {"k", "v"}

\* Finite contents, and a Unit that every row count divides.
ASSUME TablesAssumption ==
    /\ MaxShards \in Nat
    /\ Unit \in Nat
    /\ \A t \in Tables :
         /\ IsFiniteSet(DOMAIN t)
         /\ \A r \in DOMAIN t :
              /\ t[r].k \in Nat \cup {Null} /\ t[r].v \in Nat \cup {Null}
              /\ t[r].shard \in Nat
         /\ \A n \in 1 .. Cardinality(DOMAIN t) : \E q \in 0 .. Unit : Unit = n * q

-----------------------------------------------------------------------------
(* SQL as Exasol and DataFusion both evaluate it                           *)

\* x comes before y in ORDER BY keys [by, ascending, nulls_last]; x and y are
\* their values of the keys.
Precedes(x, y, keys) ==
    \E i \in DOMAIN keys :
        /\ \A j \in 1 .. i - 1 : x[j] = y[j]
        /\ \/ x[i] = Null /\ y[i] # Null /\ ~keys[i].nulls_last
           \/ x[i] # Null /\ y[i] = Null /\ keys[i].nulls_last
           \/ /\ x[i] # Null /\ y[i] # Null
              /\ IF keys[i].ascending THEN x[i] < y[i] ELSE x[i] > y[i]

\* The values of the keys for every element of S; Val gives one of them.
KeyValues(S, keys, Val(_, _)) ==
    [x \in S |-> [i \in DOMAIN keys |-> Val(x, keys[i].by)]]

\* The number of rows LIMIT and OFFSET leave of n.
WindowSize(n, limit, offset) ==
    LET left == IF n > offset THEN n - offset ELSE 0
    IN  IF limit = NoLimit \/ limit > left THEN left ELSE limit

\* seq is a result of ORDER BY keys LIMIT limit OFFSET offset over the domain of
\* val, which gives the values of the keys.
IsWindow(seq, val, keys, limit, offset) ==
    /\ Len(seq) = WindowSize(Cardinality(DOMAIN val), limit, offset)
    /\ IsInjective(seq) /\ ToSet(seq) \subseteq DOMAIN val
    /\ \A i \in DOMAIN seq :
         /\ Cardinality({x \in DOMAIN val : Precedes(val[x], val[seq[i]], keys)}) < offset + i
         /\ Cardinality({x \in DOMAIN val : ~Precedes(val[seq[i]], val[x], keys)}) >= offset + i

Windows(val, keys, limit, offset) ==
    {seq \in [1 .. WindowSize(Cardinality(DOMAIN val), limit, offset) -> DOMAIN val] :
        IsWindow(seq, val, keys, limit, offset)}

\* The WHERE predicate of every filtered request: k >= 2.
Passes(r) == table[r].k # Null /\ table[r].k >= 2

Valued(R) == {r \in R : table[r].v # Null}
Total(R) == SumFunction([r \in R |-> table[r].v])
Squares(R) == SumFunction([r \in R |-> table[r].v * table[r].v])

\* The squared deviations of R's values from their mean, in 1/Unit^2.
Deviation(R) == Unit * Unit * Squares(R) - (Unit * Unit * Total(R) * Total(R)) \div Cardinality(R)

\* What an aggregate means over the rows V of a set that have a value.
OfValues(a, V) ==
    CASE a \in {"sum"} \cup Opaque -> Total(V)
      [] a = "min" -> Min({table[r].v : r \in V})
      [] a = "max" -> Max({table[r].v : r \in V})
      [] a = "avg" -> (Unit * Total(V)) \div Cardinality(V)
      [] a = "var_pop" -> Deviation(V) \div Cardinality(V)
      [] a = "variance" -> IF Cardinality(V) = 1 THEN 0
                           ELSE Deviation(V) \div (Cardinality(V) - 1)

\* What an aggregate means over a set of rows.
Aggregate(a, R) ==
    CASE a = "count" -> Cardinality(R)
      [] a = "countv" -> Cardinality(Valued(R))
      [] a \in {"distinct", "distinct_expr"} -> Cardinality({table[r].v : r \in Valued(R)})
      [] OTHER -> IF Valued(R) = {} THEN Null ELSE OfValues(a, Valued(R))

\* The groups of R: one for a single-group request, one per key otherwise.
GroupsOf(R) == IF request.shape = "single" THEN {Null} ELSE {table[r].k : r \in R}
RowsOf(g, R) == IF request.shape = "single" THEN R ELSE {r \in R : table[r].k = g}

\* A nested column is declared VARCHAR: Exasol sorts the JSON text the scan
\* emits, not the native value.
TextRank(v) == IF v = Null THEN Null ELSE Unit - v

ColumnValue(r, by) ==
    CASE by = "k" -> table[r].k
      [] by = "v" -> IF request.nested THEN TextRank(table[r].v) ELSE table[r].v
      [] by = "expr" -> IF table[r].v = Null THEN Null ELSE Unit - table[r].v
      [] by = "unrenderable" -> table[r].v

\* The native order a scan sorts by.
ScanValue(r, by) == IF by = "v" THEN table[r].v ELSE ColumnValue(r, by)

\* The HAVING predicate of every request that has one: COUNT(*) >= 2.
GroupPasses(g, R) == request.having = "none" \/ Cardinality(RowsOf(g, R)) >= 2

\* Exasol's own evaluation of the request's clauses over rows R.
NativeIds(R) ==
    IF request.shape = "rows" THEN R ELSE {g \in GroupsOf(R) : GroupPasses(g, R)}
NativeValue(R, id, by) ==
    IF request.shape = "rows" THEN ColumnValue(id, by)
    ELSE IF by = "k" THEN id ELSE Aggregate(by, RowsOf(id, R))
NativeItems(R) ==
    IF request.shape = "rows" THEN <<>>
    ELSE [g \in NativeIds(R) |->
            [a \in ToSet(request.items) \ {"k"} |-> Aggregate(a, RowsOf(g, R))]]

-----------------------------------------------------------------------------
(* Routing: classify_request_shape, project_columns, detect_topn           *)

HasOrderBy == request.order_by # <<>>
SortedBy == {request.order_by[i].by : i \in DOMAIN request.order_by}
Items == ToSet(request.items)
Plans == Items \cap Merging
has_distinct == Items \cap {"distinct", "distinct_expr"} # {}

\* render_having_over_merge: the aggregate must be one of the plans.
HavingOverMerge ==
    request.having = "none" \/ (request.having = "rendered" /\ "count" \in Plans)

\* build_grouped_order_by_clause: a projected group key or a planned aggregate.
GroupedOrderByResolves == SortedBy \subseteq Plans \cup (Items \cap {"k"})

\* detect_group_by_aggregates declines on any item it cannot decompose.
GroupDecomposes == Items \subseteq Merging \cup {"k"}

\* detect_aggregates, and no HAVING that needs the raw rows.
SingleGroupDecomposes ==
    /\ Items \cap Opaque = {}
    /\ request.having = "none" \/ (~has_distinct /\ HavingOverMerge)

classify_request_shape ==
    CASE request.shape = "group" ->
           IF GroupDecomposes /\ GroupedOrderByResolves /\ HavingOverMerge
           THEN "Grouped" ELSE "GroupByWrapper"
      [] request.shape = "single" ->
           IF SingleGroupDecomposes THEN "SingleGroupAgg" ELSE "SingleGroupWrapper"
      [] request.shape = "rows" -> "RowScan"

\* An item the scan cannot emit widens the projection to the full row.
projection_widened == request.shape = "rows" /\ Items \cap Opaque # {}

project_columns == IF projection_widened THEN <<"k", "v">> ELSE request.items

\* Mutant: a shard skips its own first rows for an offset.
TopNWithOffset ==
    /\ request.limit # NoLimit
    /\ request.shape = "rows" /\ HasOrderBy
    /\ SortedBy \subseteq Items \cap {"k", "v"}
    /\ ~(request.nested /\ "v" \in SortedBy)
detect_topn ==
    /\ request.limit # NoLimit
    /\ request.offset = 0
    /\ request.shape = "rows" /\ HasOrderBy
    /\ SortedBy \subseteq Items \cap {"k", "v"}
    /\ ~(request.nested /\ "v" \in SortedBy)

effective_limit == IF HasOrderBy /\ ~detect_topn THEN NoLimit ELSE request.limit

declined_order_by == HasOrderBy /\ ~detect_topn

\* The base columns an item, a sort key or the filter reads.
ColumnsOf(by) ==
    CASE by \in {"k", "v"} -> {by}
      [] by = "count" -> {}
      [] OTHER -> {"v"}

\* collect_all_column_names: the columns any clause of the request names.
Touched ==
    (UNION {ColumnsOf(by) : by \in Items \cup SortedBy})
      \cup (IF request.filter = "none" /\ request.shape # "group" THEN {} ELSE {"k"})

\* The touched columns; the table's first column when none is named.
referenced_columns == IF Touched = {} THEN <<"k">> ELSE SetToSeq(Touched)

\* Mutant: the gate runs after the early return for a table without files.
RefusesAfterEmpty == shards > 0 /\ Touched \cap request.refused # {}

\* ensure_no_refused_column_referenced, before the early return for no files.
TouchesRefused == Touched \cap request.refused # {}

\* A table whose every column is refused is refused whole, whatever is named (and so
\* is one with a refused partition column: FilePlan).
ensure_scannable == ~({"k", "v"} \subseteq request.refused)

\* Mutant: the hidden sort columns are not appended.
NotExtended(projection) == projection

\* Hidden columns for the sort keys a declined ORDER BY needs.
extend_projection_with_sort_keys(projection) ==
    projection \o SetToSeq((UNION {ColumnsOf(by) : by \in SortedBy}) \ ToSet(projection))

-----------------------------------------------------------------------------
(* Plans: the scan every shard runs, and the outer SELECT around them      *)

Scan(kind, filter, order_by, limit, cols) ==
    [kind |-> kind, filter |-> filter, order_by |-> order_by, limit |-> limit, cols |-> cols]

Outer(kind, where, order_by, limit, offset, select) ==
    [kind |-> kind, where |-> where, order_by |-> order_by, limit |-> limit,
     offset |-> offset, select |-> select]

\* qualified_single_table_fallback_pushdown: raw rows, every clause in Exasol.
Wrapper(filter, where) ==
    [scan |-> Scan("rows", filter, <<>>, NoLimit, referenced_columns),
     outer |-> Outer("native", where, request.order_by, request.limit, request.offset,
                     request.items)]

\* build_grouped_aggregate_scan_sql: no LIMIT and no HAVING below the merge.
GroupedPlan ==
    [scan |-> Scan("groups", request.filter # "none", <<>>, NoLimit, <<>>),
     outer |-> Outer("regroup", FALSE, request.order_by, request.limit, request.offset,
                     request.items)]

\* build_count_distinct_scan_sql: distinct values per shard, LIMIT outside.
CountDistinctPlan ==
    [scan |-> Scan("distinct", request.filter # "none", <<>>, NoLimit, <<"v">>),
     outer |-> Outer("count_distinct", FALSE, <<>>, request.limit, 0, request.items)]

\* build_aggregate_scan_sql: one partial row per shard.
SingleGroupPlan ==
    [scan |-> Scan("partials", request.filter # "none", <<>>, NoLimit, <<>>),
     outer |-> Outer("merge", FALSE, <<>>, request.limit, 0, request.items)]

\* build_row_scan_sql, with wrap_declined_order_by around it when the order is
\* not a bounded top-N.
RowScanPlan ==
    IF declined_order_by
    THEN [scan |-> Scan("rows", request.filter # "none", <<>>, effective_limit,
                        extend_projection_with_sort_keys(project_columns)),
          outer |-> Outer("union", FALSE, request.order_by, request.limit, request.offset,
                          project_columns)]
    ELSE [scan |-> Scan("rows", request.filter # "none", request.order_by, effective_limit,
                        project_columns),
          outer |-> Outer("union", FALSE, request.order_by, effective_limit, 0,
                          project_columns)]

\* build_dispatch_sql: a declined filter is looked at before the shape.
DispatchPlan ==
    IF request.filter \in {"declined", "nowhere"} THEN Wrapper(FALSE, TRUE)
    ELSE LET wrapped == Wrapper(request.filter = "rendered", FALSE)
         IN  CASE classify_request_shape = "Grouped" -> GroupedPlan
               [] classify_request_shape = "SingleGroupAgg" ->
                    IF request.items = <<"distinct">> THEN CountDistinctPlan
                    ELSE IF has_distinct THEN wrapped ELSE SingleGroupPlan
               [] classify_request_shape = "RowScan" ->
                    IF projection_widened THEN wrapped ELSE RowScanPlan
               [] classify_request_shape \in {"GroupByWrapper", "SingleGroupWrapper"} -> wrapped

\* empty_result_sql: typed and rowless, but an aggregate without GROUP BY runs
\* over an empty relation.
EmptyPlan ==
    [scan |-> Scan("none", FALSE, <<>>, NoLimit, <<"k", "v">>),
     outer |-> IF classify_request_shape \in {"SingleGroupAgg", "SingleGroupWrapper"}
               THEN Outer("native", FALSE, request.order_by, request.limit, request.offset,
                          request.items)
               ELSE Outer("empty", FALSE, <<>>, NoLimit, 0, request.items)]

CandidatePlan == IF shards = 0 THEN EmptyPlan ELSE DispatchPlan

\* A clause the outer SELECT needs and Exasol's dialect cannot render.
RenderDeclines(p) ==
    \/ p.outer.where /\ request.filter = "nowhere"
    \/ p.outer.kind = "native" /\ (request.having = "nowhere" \/ "nowhere" \in Items)
    \/ \E i \in DOMAIN p.outer.order_by : p.outer.order_by[i].by = "unrenderable"

-----------------------------------------------------------------------------
(* Partials and their merge                                                *)

\* partial_select_items: what one shard computes for an aggregate.
Partial(a, R) ==
    LET V == Valued(R)
        n == Cardinality(V)
    IN  CASE a \in {"count", "countv", "sum", "min", "max"} -> Aggregate(a, R)
          [] a = "avg" -> [sum |-> Aggregate("sum", R), cnt |-> n]
          [] OTHER -> [cnt |-> n,
                       mean |-> IF n = 0 THEN Null ELSE (Unit * Total(V)) \div n,
                       m2 |-> IF n = 0 THEN Null ELSE Deviation(V)]

\* SUM, MIN and MAX over the values f of some shards skip NULLs.
SumOf(f) ==
    LET known == {s \in DOMAIN f : f[s] # Null}
    IN  IF known = {} THEN Null ELSE SumFunction([s \in known |-> f[s]])
LeastOf(f) == LET known == Range(f) \ {Null} IN IF known = {} THEN Null ELSE Min(known)
GreatestOf(f) == LET known == Range(f) \ {Null} IN IF known = {} THEN Null ELSE Max(known)

\* stat_merge with with_stat_grand_means: Chan's merge of (cnt, mean, m2).
stat_merge(a, p) ==
    LET n == SumOf([s \in DOMAIN p |-> p[s].cnt])
        full == {s \in DOMAIN p : p[s].cnt > 0}
        shift == LeastOf([s \in DOMAIN p |-> p[s].mean])
        gmean == shift + SumOf([s \in full |-> p[s].cnt * (p[s].mean - shift)]) \div n
        m2 == SumOf([s \in full |-> p[s].m2])
                + SumOf([s \in full |-> p[s].cnt * (p[s].mean - gmean) * (p[s].mean - gmean)])
    IN  IF n = 0 THEN Null
        ELSE IF a = "var_pop" THEN m2 \div n
        ELSE IF n = 1 THEN 0 ELSE m2 \div (n - 1)

\* merge_select_items over the partials p of the shards that emitted one.
Merge(a, p) ==
    CASE a \in {"count", "countv", "sum"} -> SumOf(p)
      [] a = "min" -> LeastOf(p)
      [] a = "max" -> GreatestOf(p)
      [] a = "avg" ->
           LET n == SumOf([s \in DOMAIN p |-> p[s].cnt])
           IN  IF n = 0 THEN Null
               ELSE (Unit * SumOf([s \in DOMAIN p |-> p[s].sum])) \div n
      [] OTHER -> stat_merge(a, p)

\* The group keys any shard emitted, and a group's merged value.
EmittedGroups == UNION {DOMAIN emitted[s] : s \in DOMAIN emitted}
Merged(g, a) ==
    Merge(a, [s \in {t \in DOMAIN emitted : g \in DOMAIN emitted[t]} |-> emitted[s][g][a]])
MergedGroups ==
    {g \in EmittedGroups : request.having = "none" \/ Merged(g, "count") >= 2}
MergedValue(g, by) == IF by = "k" THEN g ELSE Merged(g, by)

-----------------------------------------------------------------------------
Init ==
    /\ stage = "requested"
    /\ request \in Requests
    /\ table \in Tables
    /\ shards \in 0 .. MaxShards
    /\ \A r \in Rows : table[r].shard <= shards
    /\ \A r \in Rows : table[r].shard = 0 => request.filter # "none" /\ ~Passes(r)
    /\ plan = <<>>
    /\ emitted = <<>>
    /\ answer = <<>>

PlanRequest ==
    /\ stage = "requested"
    /\ ensure_scannable /\ ~TouchesRefused
    /\ ~RenderDeclines(CandidatePlan)
    /\ plan' = CandidatePlan
    /\ stage' = "scanning"
    /\ UNCHANGED <<request, table, shards, emitted, answer>>

\* A hard error: Exasol does not re-plan, so the statement fails.
DeclineRequest ==
    /\ stage = "requested"
    /\ ~ensure_scannable \/ TouchesRefused \/ RenderDeclines(CandidatePlan)
    /\ stage' = "declined"
    /\ UNCHANGED <<request, table, shards, plan, emitted, answer>>

\* The rows a shard's scan reads.
ShardRows(s) == {r \in Rows : table[r].shard = s /\ (plan.scan.filter => Passes(r))}

\* Everything the scan call of shard s may emit.
ScanOutputs(s) ==
    LET R == ShardRows(s)
        groups == [g \in GroupsOf(R) |-> [a \in Plans |-> Partial(a, RowsOf(g, R))]]
    IN  CASE plan.scan.kind = "rows" ->
               {ToSet(seq) : seq \in Windows(KeyValues(R, plan.scan.order_by, ScanValue),
                                             plan.scan.order_by, plan.scan.limit, 0)}
          [] plan.scan.kind = "distinct" -> {{table[r].v : r \in Valued(R)}}
          [] plan.scan.kind = "partials" -> {groups}
          [] plan.scan.kind = "groups" ->
               {[g \in ToSet(seq) |-> groups[g]] :
                  seq \in Windows([g \in DOMAIN groups |-> <<>>], <<>>, plan.scan.limit, 0)}

Unscanned == 1 .. shards \ DOMAIN emitted

\* A refused column is absent from the logical schema the scan registers.
ColumnsResolve == ToSet(plan.scan.cols) \cap request.refused = {}

\* run_scan for one shard; the calls run side by side on the cluster.
RunScan(s, output) ==
    /\ stage = "scanning"
    /\ ColumnsResolve
    /\ s \in Unscanned
    /\ emitted' = [t \in DOMAIN emitted \cup {s} |-> IF t = s THEN output ELSE emitted[t]]
    /\ UNCHANGED <<stage, request, table, shards, plan, answer>>

\* One failing scan call fails the statement.
ScanFails ==
    /\ stage = "scanning"
    /\ Unscanned # {}
    /\ stage' = "failed"
    /\ UNCHANGED <<request, table, shards, plan, emitted, answer>>

\* The raw rows the outer SELECT reads.
EmittedRows ==
    {r \in UNION {emitted[s] : s \in DOMAIN emitted} : plan.outer.where => Passes(r)}

Result(seq, items) == [ids |-> seq, items |-> items]

\* Exasol evaluates the outer SELECT over what the scans emitted.
Answers ==
    LET out == plan.outer
        Shown(S, Val(_, _)) ==
            Windows(KeyValues(S, out.order_by, Val), out.order_by, out.limit, out.offset)
    IN  CASE out.kind = "union" ->
               {Result(seq, <<>>) : seq \in Shown(EmittedRows, ColumnValue)}
          [] out.kind = "native" ->
               LET R == EmittedRows
                   Val(id, by) == NativeValue(R, id, by)
               IN  {Result(seq, NativeItems(R)) : seq \in Shown(NativeIds(R), Val)}
          [] out.kind \in {"merge", "regroup"} ->
               LET items == [g \in MergedGroups |-> [a \in Plans |-> Merged(g, a)]]
               IN  {Result(seq, items) : seq \in Shown(MergedGroups, MergedValue)}
          [] out.kind = "count_distinct" ->
               LET values == UNION {emitted[s] : s \in DOMAIN emitted}
                   items == [g \in {Null} |-> [a \in {"distinct"} |-> Cardinality(values)]]
               IN  {Result(seq, items) : seq \in Shown({Null}, LAMBDA g, by : Null)}
          [] out.kind = "empty" -> {Result(<<>>, <<>>)}

AnswerStatement(result) ==
    /\ stage = "scanning"
    /\ Unscanned = {}
    /\ answer' = result
    /\ stage' = "answered"
    /\ UNCHANGED <<request, table, shards, plan, emitted>>

Ended ==
    /\ stage \in {"answered", "declined", "failed"}
    /\ UNCHANGED vars

Next ==
    \/ PlanRequest
    \/ DeclineRequest
    \/ \E s \in Unscanned :
         stage = "scanning" /\ \E output \in ScanOutputs(s) : RunScan(s, output)
    \/ ScanFails
    \/ /\ stage = "scanning" /\ Unscanned = {}
       /\ \E result \in Answers : AnswerStatement(result)
    \/ Ended

Spec == Init /\ [][Next]_vars

-----------------------------------------------------------------------------
\* The stages, and what is known in each.
TypeOK ==
    /\ stage \in {"requested", "scanning", "answered", "declined", "failed"}
    /\ DOMAIN emitted \subseteq 1 .. shards
    /\ stage \in {"requested", "declined"} => emitted = <<>>

\* The answer is one the request's SQL allows over the whole table: no row or
\* group is lost, doubled or misplaced by sharding, pushing the limit down,
\* merging partials or taking a fallback, and every aggregate has its value.
AnswerIsTheQuery ==
    stage = "answered" =>
        LET R == {r \in Rows : request.filter = "none" \/ Passes(r)}
            ids == NativeIds(R)
            Val(id, by) == NativeValue(R, id, by)
        IN  /\ IsWindow(answer.ids, KeyValues(ids, request.order_by, Val), request.order_by,
                        request.limit, request.offset)
            /\ request.shape # "rows" =>
                 \A i \in DOMAIN answer.ids : \A a \in Items \ {"k"} :
                    answer.items[answer.ids[i]][a] = NativeItems(R)[answer.ids[i]][a]

\* Exasol checks the returned columns by position (sqlCode 04000) and binds the
\* outer clauses against what the scan emits: the plan shows exactly the select
\* list and reads no column and no partial its scan leaves out.
PositionalShape ==
    stage = "scanning" =>
        /\ plan.outer.select = request.items
        /\ plan.outer.kind \in {"union", "native"} =>
             UNION {ColumnsOf(plan.outer.order_by[i].by) : i \in DOMAIN plan.outer.order_by}
               \subseteq ToSet(plan.scan.cols)
        /\ plan.outer.kind = "native" =>
             (UNION {ColumnsOf(by) : by \in Items}) \cup (IF plan.outer.where THEN {"k"} ELSE {})
               \subseteq ToSet(plan.scan.cols)
        /\ plan.outer.kind \in {"merge", "regroup"} =>
             /\ request.having # "none" => "count" \in Plans
             /\ \A i \in DOMAIN plan.outer.order_by : plan.outer.order_by[i].by \in Plans \cup {"k"}

\* A request fails in planning only over a clause Exasol's own dialect cannot
\* render, a refused column it names or a table with no other column, so that
\* every other fallback answers it; and no request that names a refused column,
\* or reads a table without another, is answered, not even with the empty result
\* of a table whose every file was pruned.
DeclinesExactlyUnanswerable ==
    LET refuses == Touched \cap request.refused # {} \/ request.refused = {"k", "v"}
    IN  /\ stage = "declined" =>
             \/ "nowhere" \in {request.filter, request.having} \cup Items
             \/ "unrenderable" \in SortedBy
             \/ refuses
        /\ stage = "answered" => ~refuses

\* specs/delta/delta-type-mapping/spec.md: a refused column fails only the
\* requests that name it, so no planned scan reads a column it cannot resolve.
RefusalScopedToNamed == stage = "scanning" /\ shards > 0 => ColumnsResolve
=============================================================================
