-------------------------------- MODULE Joins --------------------------------
(***************************************************************************)
(* One join pushdown from request to answer                                *)
(* (crates/lakehouse-engine/src/adapter/pushdown/joins, scan/join_scan.rs):*)
(* every leg is resolved and pruned by its own conjuncts, then the join is *)
(* either broadcast (each shard of the larger side joins the whole smaller *)
(* side inside the scan) or each leg is scanned alone and Exasol joins.    *)
(*                                                                         *)
(* A leg is one occurrence of a table in the FROM tree.  A column node     *)
(* carries a table name and an alias; its field `of` is the occurrence SQL *)
(* means by it, which only the properties read.  An expression is an       *)
(* operation over column nodes and the dialects that can express it:       *)
(*   "both", "typed" (DataFusion renders it but its types decline),        *)
(*   "exasol" (only Exasol's dialect), "nowhere".                          *)
(* A joined row maps every leg to a row id.                                *)
(***************************************************************************)
EXTENDS Integers, Sequences, FiniteSets, FiniteSetsExt, SequencesExt

CONSTANTS
    Contents,   \* the table contents to explore: table -> row id -> cells and file
    Requests,   \* the join requests to explore
    Types       \* table -> column -> declared Exasol type

VARIABLES
    stage,      \* "requested", "resolved", "scanning", or how it ended
    request,
    data,
    kept,       \* the files of every leg that pruning leaves
    plan,
    emitted,    \* what every finished scan call emitted
    answer

vars == <<stage, request, data, kept, plan, emitted, answer>>

Null == -1
\* An empty string or NaN: a value to DataFusion, NULL once emitted to Exasol.
Blank == 0
NoLimit == -1
NoLeg == 0
Unattributable == -1

\* The columns an operation reads.
Operations == {<<"eq", 2>>, <<"lt", 2>>, <<"ge2", 1>>, <<"either", 2>>, <<"true", 0>>}

\* A column node names a column of a table of the FROM tree, and SQL means the
\* occurrence with its alias, or the only one of its table; NoLeg if there is none.
NodeOf(legs, c) ==
    /\ \E l \in DOMAIN legs : legs[l].table = c.table
    /\ c.name \in DOMAIN Types[c.table]
    /\ c.of # NoLeg =>
         /\ c.of \in DOMAIN legs
         /\ legs[c.of].table = c.table
         /\ \/ legs[c.of].alias = c.alias
            \/ \A l \in DOMAIN legs \ {c.of} : legs[l].table # c.table
    /\ c.of = NoLeg =>
         \A l \in DOMAIN legs : legs[l].table = c.table =>
           /\ legs[l].alias # c.alias
           /\ \E m \in DOMAIN legs \ {l} : legs[m].table = c.table

IsList(s) == s \in Seq(ToSet(s))

\* A tree of inner joins has one condition less than legs, and SQL tells the
\* occurrences of one table apart by their aliases.
ASSUME RequestsAssumption ==
    \A q \in Requests :
        /\ IsList(q.legs) /\ IsList(q.conditions) /\ IsList(q.filter)
        /\ IsList(q.items) /\ IsList(q.order_by)
        /\ Len(q.legs) = Len(q.conditions) + 1
        /\ \A l \in DOMAIN q.legs : q.legs[l].table \in DOMAIN Types
        /\ \A l, m \in DOMAIN q.legs :
             q.legs[l].table = q.legs[m].table /\ q.legs[l].alias = q.legs[m].alias => l = m
        /\ \A e \in ToSet(q.conditions) \cup ToSet(q.filter) :
             /\ IsList(e.cols) /\ <<e.op, Len(e.cols)>> \in Operations
             /\ \A c \in ToSet(e.cols) : NodeOf(q.legs, c)
        /\ \A c \in ToSet(q.items) : NodeOf(q.legs, c)
        /\ \A key \in ToSet(q.order_by) :
             /\ NodeOf(q.legs, key.col)
             /\ key.ascending \in BOOLEAN /\ key.nulls_last \in BOOLEAN
        /\ q.limit \in Nat \cup {NoLimit} /\ q.offset \in Nat

\* A table has finitely many rows, with a value in each column.
ASSUME ContentsAssumption ==
    \A d \in Contents : \A n \in DOMAIN Types :
        /\ IsFiniteSet(DOMAIN d[n])
        /\ \A r \in DOMAIN d[n] : \A c \in DOMAIN Types[n] : d[n][r][c] \in Int

Legs == DOMAIN request.legs
TableOf(l) == request.legs[l].table
Columns(l) == DOMAIN Types[TableOf(l)]
RowsOf(l) == DOMAIN data[TableOf(l)]
Row(l, r) == data[TableOf(l)][r]
FilesOf(l) == {Row(l, r).file : r \in RowsOf(l)}
Tuples == {t \in [Legs -> UNION {RowsOf(l) : l \in Legs}] : \A l \in Legs : t[l] \in RowsOf(l)}

-----------------------------------------------------------------------------
(* SQL                                                                     *)

\* emit_batch: what a cell becomes when it crosses to Exasol.
Emit(v) == IF v = Blank THEN Null ELSE v

\* A predicate is TRUE of the values of its columns; NULL makes it unknown.
IsTrue(e, x) ==
    CASE e.op = "eq" -> x[1] # Null /\ x[1] = x[2]
      [] e.op = "lt" -> x[1] # Null /\ x[2] # Null /\ x[1] < x[2]
      [] e.op = "ge2" -> x[1] >= 2
      [] e.op = "either" -> x[1] >= 2 \/ x[2] >= 2
      [] e.op = "true" -> TRUE

\* x comes before y in ORDER BY keys; x and y are their values of the keys.
Before(x, y, keys) ==
    \E i \in DOMAIN keys :
        /\ \A j \in 1 .. i - 1 : x[j] = y[j]
        /\ \/ x[i] = Null /\ y[i] # Null /\ ~keys[i].nulls_last
           \/ x[i] # Null /\ y[i] = Null /\ keys[i].nulls_last
           \/ /\ x[i] # Null /\ y[i] # Null
              /\ IF keys[i].ascending THEN x[i] < y[i] ELSE x[i] > y[i]

\* The sets of rows that ORDER BY keys LIMIT limit OFFSET offset can leave of the
\* domain of val, which gives a row's key values.
Windows(val, keys, limit, offset) ==
    LET S == DOMAIN val
        n == Cardinality(S)
        skip == IF offset < n THEN offset ELSE n
        size == IF limit = NoLimit \/ limit > n - skip THEN n - skip ELSE limit
        Ahead(A, B) == \A a \in A, b \in B : ~Before(val[b], val[a], keys)
    IN  {W \in kSubset(size, S) :
           \E P \in kSubset(skip, S \ W) :
               Ahead(P, W) /\ Ahead(P \cup W, S \ (P \cup W))}

-----------------------------------------------------------------------------
(* attribution.rs: which leg owns a column node                            *)

resolve_column(c) ==
    LET matching == {l \in Legs : TableOf(l) = c.table}
        same == {l \in matching : request.legs[l].alias = c.alias}
        owners == IF Cardinality(matching) = 1 THEN matching ELSE same
    IN  CASE matching = {} -> NoLeg
          [] matching # {} /\ owners = {} -> Unattributable
          [] matching # {} /\ owners # {} -> Min(owners)

legs_referenced(e) == {resolve_column(c) : c \in ToSet(e.cols)}

\* The leg a conjunct is local to: all its columns, and at least one, are there.
conjunct_leg(e) ==
    IF Cardinality(legs_referenced(e)) = 1 /\ legs_referenced(e) \subseteq Legs
    THEN Min(legs_referenced(e))
    ELSE NoLeg

\* The earliest point of the join chain with every leg of e in scope.
attachment_leg(e) ==
    IF e.cols # <<>> /\ legs_referenced(e) \subseteq Legs
    THEN Max(legs_referenced(e))
    ELSE NoLeg

\* qualify: the leg and column a node is rendered as.
Qualified(c) == <<resolve_column(c), c.name>>

\* A predicate over the values DataFusion reads, and over those Exasol receives.
Natively(e, t) ==
    IsTrue(e, [i \in DOMAIN e.cols |->
                 Row(resolve_column(e.cols[i]), t[resolve_column(e.cols[i])])[e.cols[i].name]])
InExasol(e, t) ==
    IsTrue(e, [i \in DOMAIN e.cols |->
            Emit(Row(resolve_column(e.cols[i]), t[resolve_column(e.cols[i])])[e.cols[i].name])])

-----------------------------------------------------------------------------
(* rendering.rs: where every conjunct of the filter is applied             *)

Conjuncts == DOMAIN request.filter

leg_local_filter(F, l) == {i \in F : conjunct_leg(request.filter[i]) = l}

cross_leg_residual_filter(F) == {i \in F : conjunct_leg(request.filter[i]) = NoLeg}

renderable_only == {i \in Conjuncts : request.filter[i].render \in {"both", "typed"}}

declined_only == Conjuncts \ renderable_only

\* type_screened_leg_filter: what the leg applies; its complement is residual.
TypeAccepted(F) == {i \in F : request.filter[i].render = "both"}

\* Every column node of every clause.
ColumnNodes ==
    ToSet(request.items)
      \cup (UNION {ToSet(e.cols) : e \in ToSet(request.filter) \cup ToSet(request.conditions)})
      \cup {key.col : key \in ToSet(request.order_by)}

\* The columns a leg's fan-out emits; the whole row when no clause names one.
referenced_leg_columns(l) ==
    LET names == {c.name : c \in {n \in ColumnNodes : resolve_column(n) = l}}
    IN  IF request.star \/ names = {} THEN Columns(l) ELSE names

-----------------------------------------------------------------------------
(* planning.rs: the window, the sides and the gate for refused columns     *)

carries_aggregation_clause == request.aggregate

\* Only Exasol can apply the window: an aggregate, an OFFSET without an order, a
\* key that is not a plain column.
PostProcessed ==
    \/ carries_aggregation_clause
    \/ request.order_by = <<>> /\ request.offset # 0
    \/ \E i \in DOMAIN request.order_by : request.order_by[i].kind # "column"

classify_join_window ==
    CASE PostProcessed -> "post"
      [] ~PostProcessed /\ request.order_by # <<>> -> "ordered"
      [] ~PostProcessed /\ request.order_by = <<>> ->
           IF request.limit = NoLimit THEN "unbounded" ELSE "bare"

\* Every file has the same size.
total_bytes(l) == Cardinality(kept[l])

\* select_broadcast_sides: a tie makes the first leg the dimension.
dimension_leg == IF total_bytes(1) <= total_bytes(2) THEN 1 ELSE 2
fact_leg == 3 - dimension_leg

\* The parse of a leg's column notes: a table whose every column is refused is an
\* error, whatever the join names (so is a refused partition column: FilePlan).
ensure_scannable(l) == \E n \in Columns(l) : <<TableOf(l), n>> \notin request.refused
AllScannable == \A l \in Legs : ensure_scannable(l)

\* ensure_no_side_refuses_a_referenced_column, charged by table name.
SideRefuses ==
    \E l \in Legs : \E n \in Columns(l) :
        /\ <<TableOf(l), n>> \in request.refused
        /\ request.star \/ \E c \in ColumnNodes : c.table = TableOf(l) /\ c.name = n

-----------------------------------------------------------------------------
(* sql_builders.rs: the two plans and the empty result                     *)

Outer(order_by, limit, offset) == [order_by |-> order_by, limit |-> limit, offset |-> offset]

NoPlan == [kind |-> "none"]

\* The select list as the answer's columns; SELECT * lists each leg in turn.
FullRow ==
    FlattenSeq([l \in Legs |-> [i \in 1 .. Cardinality(Columns(l)) |->
                                  <<l, SetToSeq(Columns(l))[i]>>]])
Projection ==
    IF request.star THEN FullRow
    ELSE [i \in DOMAIN request.items |-> Qualified(request.items[i])]

\* bound_sort_key: the leg and the column must both be projected.
bound_sort_key(key) == Qualified(key.col) \in ToSet(Projection)

broadcast_eligible ==
    /\ Len(request.legs) = 2
    /\ request.conditions[1].op = "eq"
    /\ classify_join_window # "post"
    /\ total_bytes(dimension_leg) <= request.max_bytes

\* render_broadcast_join is not declined: condition, filter and select list all
\* render in DataFusion, and no output name is too long for Exasol.
render_broadcast_join ==
    /\ request.conditions[1].render \in {"both", "typed"}
    /\ TypeAccepted(Conjuncts) = Conjuncts
    /\ request.render = "both"
    /\ ~request.long

\* place_broadcast_window: a shard may cut only what LIMIT without OFFSET cuts.
place_broadcast_window ==
    LET capped == \/ classify_join_window = "bare"
                  \/ request.limit # NoLimit /\ request.offset = 0
    IN  [cap |-> IF capped THEN request.limit ELSE NoLimit,
         order_by |-> IF capped THEN request.order_by ELSE <<>>,
         outer |-> Outer(request.order_by, request.limit, request.offset)]

\* classify_where_filter: the whole filter or none of it.
BroadcastFilter == IF TypeAccepted(Conjuncts) = Conjuncts THEN Conjuncts ELSE {}

\* build_broadcast_join_sql
BroadcastPlan ==
    [kind |-> "broadcast", fact |-> fact_leg, filter |-> BroadcastFilter,
     cap |-> place_broadcast_window.cap, order_by |-> place_broadcast_window.order_by,
     outer |-> place_broadcast_window.outer]

BroadcastServes ==
    /\ broadcast_eligible
    /\ render_broadcast_join
    /\ \A i \in DOMAIN request.order_by : bound_sort_key(request.order_by[i])

\* What the outer WHERE applies: cross-leg, declined and type-declined conjuncts.
Residual ==
    cross_leg_residual_filter(renderable_only)
      \cup declined_only
      \cup ((UNION {leg_local_filter(renderable_only, l) : l \in Legs})
              \ TypeAccepted(Conjuncts))

\* build_n_scan_join_from: on[l] holds the conditions of the join point of leg l.
JoinPoint(i) ==
    LET l == attachment_leg(request.conditions[i])
    IN  IF l = 1 THEN 2 ELSE l

\* build_n_scan_join_sql
NScanPlan ==
    [kind |-> "nscan",
     filters |-> [l \in Legs |-> TypeAccepted(leg_local_filter(renderable_only, l))],
     cols |-> [l \in Legs |-> referenced_leg_columns(l)],
     on |-> [l \in Legs |-> {i \in DOMAIN request.conditions : l > 1 /\ JoinPoint(i) = l}],
     where |-> {i \in DOMAIN request.conditions : JoinPoint(i) = NoLeg},
     residual |-> Residual,
     outer |-> Outer(request.order_by, request.limit, request.offset)]

\* Some clause of the outer SELECT, or of the WHERE over it, cannot be rendered.
OuterDeclines ==
    \/ request.render = "nowhere"
    \/ \E i \in DOMAIN request.order_by : request.order_by[i].kind = "nowhere"
    \/ \E c \in ColumnNodes : resolve_column(c) = Unattributable

\* Mutant: a conjunct DataFusion declines is not tried in Exasol's dialect.
DeclinesAnyResidual ==
    \/ OuterDeclines
    \/ \E i \in DOMAIN request.conditions : request.conditions[i].render = "nowhere"
    \/ \E i \in Residual : request.filter[i].render # "both"

NScanDeclines ==
    \/ OuterDeclines
    \/ \E i \in DOMAIN request.conditions : request.conditions[i].render = "nowhere"
    \/ \E i \in Residual : request.filter[i].render = "nowhere"

\* EmptyRelation::join for an aggregate; typed and rowless otherwise.
EmptyPlan == [kind |-> "empty", outer |-> Outer(<<>>, NoLimit, 0)]

PlannedJoin ==
    IF \E l \in Legs : kept[l] = {} THEN EmptyPlan
    ELSE IF BroadcastServes THEN BroadcastPlan ELSE NScanPlan

\* The hard errors of plan_join once the legs are resolved.
PlanDeclines ==
    \/ SideRefuses
    \/ PlannedJoin.kind = "empty" /\ request.aggregate /\ OuterDeclines
    \/ /\ PlannedJoin.kind # "empty" /\ broadcast_eligible
       /\ \E c \in ColumnNodes : resolve_column(c) \notin Legs
    \/ PlannedJoin.kind = "nscan" /\ NScanDeclines

-----------------------------------------------------------------------------
Init ==
    /\ stage = "requested"
    /\ request \in Requests
    /\ data \in Contents
    /\ kept = <<>>
    /\ plan = NoPlan
    /\ emitted = <<>>
    /\ answer = <<>>

\* collect_join_tree refuses a join node that is not inner.
DeclineShape ==
    /\ stage = "requested"
    /\ ~request.inner
    /\ stage' = "declined"
    /\ UNCHANGED <<request, data, kept, plan, emitted, answer>>

\* The conjuncts a leg is pruned by: raw, so the unrenderable ones prune too.
PruneFilter(l) == leg_local_filter(Conjuncts, l)

\* resolve_one_join_side: pruning may drop a file no row of which passes.
MayKeep(l, F) ==
    \A r \in RowsOf(l) :
        Row(l, r).file \in F
          \/ \E i \in PruneFilter(l) :
               LET e == request.filter[i]
               IN  ~IsTrue(e, [j \in DOMAIN e.cols |-> Row(l, r)[e.cols[j].name]])

ResolveLegs ==
    /\ stage = "requested"
    /\ request.inner /\ AllScannable
    /\ kept' \in {k \in [Legs -> SUBSET UNION {FilesOf(l) : l \in Legs}] :
                    \A l \in Legs : k[l] \subseteq FilesOf(l) /\ MayKeep(l, k[l])}
    /\ stage' = "resolved"
    /\ UNCHANGED <<request, data, plan, emitted, answer>>

\* One leg that does not resolve fails the join.
RefuseLeg ==
    /\ stage = "requested"
    /\ request.inner /\ ~AllScannable
    /\ stage' = "declined"
    /\ UNCHANGED <<request, data, kept, plan, emitted, answer>>

PlanJoin ==
    /\ stage = "resolved"
    /\ ~PlanDeclines
    /\ plan' = PlannedJoin
    /\ stage' = "scanning"
    /\ UNCHANGED <<request, data, kept, emitted, answer>>

DeclineJoin ==
    /\ stage = "resolved"
    /\ PlanDeclines
    /\ stage' = "declined"
    /\ UNCHANGED <<request, data, kept, plan, emitted, answer>>

\* A scan call per file: of the fact side, or of every leg.
ScanCalls ==
    CASE plan.kind = "broadcast" -> {<<plan.fact, f>> : f \in kept[plan.fact]}
      [] plan.kind = "nscan" -> UNION {{<<l, f>> : f \in kept[l]} : l \in Legs}
      [] OTHER -> {}

Unscanned == ScanCalls \ DOMAIN emitted

\* A refused column is not in the schema the scan registers for a leg.
ColumnsResolve(l) ==
    plan.kind = "nscan" => \A n \in plan.cols[l] : <<TableOf(l), n>> \notin request.refused

\* The values the keys of an order take in a joined row, as they are emitted.
SortValues(t, keys) ==
    [i \in DOMAIN keys |->
        Emit(Row(resolve_column(keys[i].col), t[resolve_column(keys[i].col)])[keys[i].col.name])]

\* Mutant: a shard ranks the values it reads, not the values it emits.
NativeSortTarget(t, keys) ==
    [i \in DOMAIN keys |->
        Row(resolve_column(keys[i].col), t[resolve_column(keys[i].col)])[keys[i].col.name]]

\* render_join_sort_target: a shard ranks the value it emits.
render_join_sort_target(t, keys) == SortValues(t, keys)

\* The joined rows of one shard of the fact side, before its order and cap.
ShardJoin(f) ==
    {t \in Tuples :
        /\ Row(plan.fact, t[plan.fact]).file = f
        /\ Row(3 - plan.fact, t[3 - plan.fact]).file \in kept[3 - plan.fact]
        /\ \A e \in ToSet(request.conditions) : Natively(e, t)
        /\ \A i \in plan.filter : Natively(request.filter[i], t)}

\* build_join_sql for a broadcast shard, the filtered rows for a leg's shard.
ScanOutputs(call) ==
    IF plan.kind = "broadcast"
    THEN Windows([t \in ShardJoin(call[2]) |-> render_join_sort_target(t, plan.order_by)],
                 plan.order_by, plan.cap, 0)
    ELSE {{r \in RowsOf(call[1]) :
             /\ Row(call[1], r).file = call[2]
             /\ \A i \in plan.filters[call[1]] :
                  LET e == request.filter[i]
                  IN  IsTrue(e, [j \in DOMAIN e.cols |-> Row(call[1], r)[e.cols[j].name]])}}

\* The scan calls run side by side on the cluster.
RunScan(call, output) ==
    /\ stage = "scanning"
    /\ call \in Unscanned
    /\ ColumnsResolve(call[1])
    /\ emitted' = [c \in DOMAIN emitted \cup {call} |-> IF c = call THEN output ELSE emitted[c]]
    /\ UNCHANGED <<stage, request, data, kept, plan, answer>>

\* One failing scan call fails the statement.
ScanFails ==
    /\ stage = "scanning"
    /\ Unscanned # {}
    /\ stage' = "failed"
    /\ UNCHANGED <<request, data, kept, plan, emitted, answer>>

\* Exasol resolves every name of the generated SQL: a condition names only legs
\* already joined, and an outer clause only columns the scans emit.
SqlResolves ==
    CASE plan.kind = "broadcast" ->
           \A key \in ToSet(plan.outer.order_by) : Qualified(key.col) \in ToSet(Projection)
      [] plan.kind = "nscan" ->
           /\ \A l \in Legs : \A i \in plan.on[l] :
                legs_referenced(request.conditions[i]) \subseteq 1 .. l
           /\ \A c \in ToSet(request.items)
                \cup (UNION {ToSet(e.cols) : e \in ToSet(request.conditions)})
                \cup (UNION {ToSet(request.filter[i].cols) : i \in plan.residual})
                \cup {key.col : key \in ToSet(plan.outer.order_by)} :
                  c.name \in plan.cols[resolve_column(c)]
      [] OTHER -> TRUE

\* The rows Exasol's outer SELECT reads.
Joined ==
    CASE plan.kind = "broadcast" -> UNION {emitted[c] : c \in DOMAIN emitted}
      [] plan.kind = "nscan" ->
           {t \in Tuples :
              /\ \A l \in Legs : \E c \in DOMAIN emitted : c[1] = l /\ t[l] \in emitted[c]
              /\ \A i \in (UNION Range(plan.on)) \cup plan.where : InExasol(request.conditions[i], t)
              /\ \A i \in plan.residual : InExasol(request.filter[i], t)}
      [] OTHER -> {}

CountOf == Cardinality(Joined)

\* empty_result_sql types a select list by the first leg that has the name.
ConcatTypes ==
    [i \in DOMAIN Projection |->
        Types[TableOf(Min({l \in Legs : Projection[i][2] \in Columns(l)}))][Projection[i][2]]]
AnswerTypes ==
    IF plan.kind = "empty" /\ request.render = "both" /\ ~request.star
    THEN ConcatTypes
    ELSE [i \in DOMAIN Projection |-> Types[TableOf(Projection[i][1])][Projection[i][2]]]

Answers ==
    IF request.aggregate
    THEN {[rows |-> {}, cols |-> <<>>, types |-> <<>>, order |-> <<>>, count |-> CountOf]}
    ELSE {[rows |-> W, cols |-> Projection, types |-> AnswerTypes,
           order |-> [i \in DOMAIN plan.outer.order_by |-> Qualified(plan.outer.order_by[i].col)],
           count |-> Null] :
            W \in Windows([t \in Joined |-> SortValues(t, plan.outer.order_by)],
                          plan.outer.order_by, plan.outer.limit, plan.outer.offset)}

\* Exasol evaluates the outer SELECT over what the scans emitted.
Answer ==
    /\ stage = "scanning"
    /\ Unscanned = {}
    /\ SqlResolves
    /\ answer' \in Answers
    /\ stage' = "answered"
    /\ UNCHANGED <<request, data, kept, plan, emitted>>

Done ==
    /\ stage \in {"answered", "declined", "failed"}
    /\ UNCHANGED vars

Next ==
    \/ DeclineShape
    \/ ResolveLegs
    \/ RefuseLeg
    \/ PlanJoin
    \/ DeclineJoin
    \/ \E call \in Unscanned : \E output \in ScanOutputs(call) : RunScan(call, output)
    \/ ScanFails
    \/ Answer
    \/ Done

Spec == Init /\ [][Next]_vars /\ WF_vars(Next)

-----------------------------------------------------------------------------
(* Properties                                                              *)

\* Every stage carries what it should: kept files are files of the leg's table,
\* a scan call that emitted is one the plan makes.
TypeOK ==
    /\ stage \in {"requested", "resolved", "scanning", "answered", "declined", "failed"}
    /\ stage \in {"resolved", "scanning", "answered", "failed"} =>
         \A l \in Legs : kept[l] \subseteq FilesOf(l)
    /\ stage \in {"scanning", "answered", "failed"} =>
         /\ plan.kind \in {"broadcast", "nscan", "empty"}
         /\ DOMAIN emitted \subseteq ScanCalls
         /\ plan.kind = "broadcast" => \A c \in DOMAIN emitted : emitted[c] \subseteq Tuples
         /\ plan.kind = "nscan" => \A c \in DOMAIN emitted : emitted[c] \subseteq RowsOf(c[1])

\* What SQL means: every column is the cell of the occurrence it names.
Meant(c, t) == Emit(Row(c.of, t[c.of])[c.name])
TheJoin ==
    {t \in Tuples :
        \A e \in ToSet(request.conditions) \cup ToSet(request.filter) :
            IsTrue(e, [i \in DOMAIN e.cols |-> Meant(e.cols[i], t)])}
MeantColumn(c) == <<c.of, c.name>>

\* plan_join's answer is the answer of the join itself, evaluated by Exasol over
\* the emitted values: the rows ORDER BY, LIMIT and OFFSET leave of the joined and
\* filtered rows, every select item and sort key taken from its own occurrence,
\* whichever route, side, pruning, shard cut or placement of a conjunct served it.
\* The SQL names only what is in scope: no condition is attached before its legs,
\* and the narrowing of referenced_leg_columns drops nothing an outer clause reads.
AnswerIsJoin ==
    /\ stage = "scanning" => SqlResolves
    /\ stage = "answered" =>
        IF request.aggregate
        THEN answer.count = Cardinality(TheJoin)
        ELSE /\ answer.rows \in
                  Windows([t \in TheJoin |->
                             [i \in DOMAIN request.order_by |-> Meant(request.order_by[i].col, t)]],
                          request.order_by, request.limit, request.offset)
             /\ plan.kind # "empty" =>
                  /\ answer.order = [i \in DOMAIN request.order_by |->
                                       MeantColumn(request.order_by[i].col)]
                  /\ ~request.star =>
                       answer.cols = [i \in DOMAIN request.items |-> MeantColumn(request.items[i])]

\* What a comparison must not meet for DataFusion to decide it as Exasol does: an
\* empty string or NaN on both sides of an equality, or on one of an inequality.
ReadsBlank(d, c) == \E r \in DOMAIN d[c.table] : d[c.table][r][c.name] = Blank
DecidedAlike(d, e) ==
    /\ e.op = "eq" => ~ReadsBlank(d, e.cols[1]) \/ ~ReadsBlank(d, e.cols[2])
    /\ e.op = "lt" => ~ReadsBlank(d, e.cols[1]) /\ ~ReadsBlank(d, e.cols[2])

\* It meets none in the comparisons that DataFusion may be given.
NoBlankCompared(asked, stored) ==
    \A q \in asked, d \in stored :
        /\ \A e \in ToSet(q.conditions) : e.render \in {"both", "typed"} => DecidedAlike(d, e)
        /\ \A e \in ToSet(q.filter) : e.render = "both" => DecidedAlike(d, e)

RefusedNamed ==
    \E l \in Legs : \E n \in Columns(l) :
        /\ <<TableOf(l), n>> \in request.refused
        /\ request.star \/ \E c \in ColumnNodes : c.of = l /\ c.name = n

RefusedWhole ==
    \E l \in Legs : \A n \in Columns(l) : <<TableOf(l), n>> \in request.refused

\* A join fails in plan_join only for what no route can serve: it is not inner, a
\* column belongs to no leg, it names a refused column or reads a table that has no
\* other, or a clause has no rendering.  A broadcast that cannot be built always
\* falls back, and a join that names a column a format reader refused on any side,
\* or one of whose tables has no other column, is never planned, not even when a
\* side has no files left.
DeclinesExactlyUnservable ==
    /\ stage = "declined" =>
         \/ ~request.inner
         \/ RefusedNamed \/ RefusedWhole
         \/ \E c \in ColumnNodes : c.of = NoLeg
         \/ request.render = "nowhere"
         \/ \E e \in ToSet(request.conditions) \cup ToSet(request.filter) : e.render = "nowhere"
         \/ \E key \in ToSet(request.order_by) : key.kind = "nowhere"
    /\ stage \in {"scanning", "answered"} => ~RefusedNamed /\ ~RefusedWhole

\* The typed empty result has the column types of the non-empty one: every select
\* item is declared with the type of the occurrence it names.
EmptyTypesAsDeclared ==
    stage = "answered" /\ ~request.star =>
        answer.types = [i \in DOMAIN answer.cols |->
                          Types[TableOf(request.items[i].of)][request.items[i].name]]

=============================================================================
