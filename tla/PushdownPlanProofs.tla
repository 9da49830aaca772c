------------------------- MODULE PushdownPlanProofs -------------------------
(***************************************************************************)
(* The plan of a single-table pushdown answers the request, whatever the   *)
(* table, its shards and the order of the scans: the windows that shards   *)
(* cut are enough for the window the query asks for, and the partials that *)
(* they compute merge to the aggregates over all rows.                     *)
(***************************************************************************)
EXTENDS PushdownPlan, Induction

-----------------------------------------------------------------------------
(* The invariant                                                           *)

\* What every state knows: the pruned rows, the plan the request calls for, and
\* that every scan and the answer are ones the plan allows.
Pruned ==
    /\ request \in Requests /\ table \in Tables /\ shards \in Nat
    /\ \A r \in Rows :
         /\ table[r].shard <= shards
         /\ table[r].shard = 0 => request.filter # "none" /\ ~Passes(r)

Declined == ~ensure_scannable \/ TouchesRefused \/ RenderDeclines(CandidatePlan)

Planned ==
    /\ stage \in {"requested", "scanning", "answered", "declined", "failed"}
    /\ stage \in {"requested", "declined"} => emitted = <<>>
    /\ stage = "declined" => Declined
    /\ stage \in {"scanning", "answered"} => plan = CandidatePlan /\ ~Declined

ScansAllowed ==
    stage \in {"scanning", "answered"} =>
        \A s \in DOMAIN emitted : emitted[s] \in ScanOutputs(s)

AnswerAllowed ==
    stage = "answered" => DOMAIN emitted = 1 .. shards /\ answer \in Answers

IInv ==
    /\ Pruned /\ Planned
    /\ DOMAIN emitted \subseteq 1 .. shards
    /\ ScansAllowed /\ AnswerAllowed

\* The invariant holds of every request before it is planned.
LEMMA InitInv == Init => IInv
<1> SUFFICES ASSUME Init PROVE IInv
  OBVIOUS
<1>1. shards \in Nat
  BY TablesAssumption DEF Init
<1>2. Pruned
  BY <1>1 DEF Init, Pruned
<1>3. Planned /\ DOMAIN emitted \subseteq 1 .. shards
  BY DEF Init, Planned
<1>4. ScansAllowed /\ AnswerAllowed
  BY DEF Init, ScansAllowed, AnswerAllowed
<1> QED
  BY <1>2, <1>3, <1>4 DEF IInv

\* The request, the table and the number of shards never change, so neither does
\* what is planned of them.
LEMMA Same ==
  ASSUME UNCHANGED <<request, table, shards>>
  PROVE  /\ Pruned' = Pruned /\ CandidatePlan' = CandidatePlan /\ Declined' = Declined
<1>1. CandidatePlan' = CandidatePlan
  BY DEF CandidatePlan, EmptyPlan, DispatchPlan, Wrapper, GroupedPlan, CountDistinctPlan,
         SingleGroupPlan, RowScanPlan, classify_request_shape, projection_widened,
         project_columns, declined_order_by, effective_limit, detect_topn, HasOrderBy,
         SortedBy, Items, Plans, has_distinct, HavingOverMerge, GroupedOrderByResolves,
         GroupDecomposes, SingleGroupDecomposes, referenced_columns, Touched,
         extend_projection_with_sort_keys
<1>2. RenderDeclines(CandidatePlan)' = RenderDeclines(CandidatePlan)
  BY <1>1 DEF RenderDeclines, Items
<1>3. TouchesRefused' = TouchesRefused /\ ensure_scannable' = ensure_scannable
  BY DEF TouchesRefused, ensure_scannable, Touched, Items, SortedBy
<1>4. Pruned' = Pruned
  BY DEF Pruned, Rows, Passes
<1> QED
  BY <1>1, <1>2, <1>3, <1>4 DEF Declined

\* What a scan may emit depends on the plan, the request and the table alone.
LEMMA SameScan ==
  ASSUME UNCHANGED <<request, table, plan>>, NEW s
  PROVE  ScanOutputs(s)' = ScanOutputs(s)
BY DEF ScanOutputs, ShardRows, Rows, Passes, Plans, Items, Partial, Aggregate, OfValues,
       Valued, Total, Deviation, Squares, RowsOf, GroupsOf, ScanValue, ColumnValue, TextRank,
       KeyValues

\* And what Exasol may answer on what was emitted.
LEMMA SameAnswers ==
  ASSUME UNCHANGED <<request, table, plan, emitted>>
  PROVE  Answers' = Answers
BY DEF Answers, EmittedRows, Passes, NativeIds, NativeItems, NativeValue, GroupPasses, Plans, Items,
       Aggregate, OfValues, Valued, Total, Deviation, Squares, RowsOf, GroupsOf, ColumnValue,
       TextRank, KeyValues, MergedGroups, EmittedGroups, Merged, MergedValue

\* Every step of the adapter, of a scan call and of Exasol keeps the invariant.
LEMMA StepInv == IInv /\ [Next]_vars => IInv'
<1> SUFFICES ASSUME IInv, [Next]_vars PROVE IInv'
  OBVIOUS
<1>0. UNCHANGED <<request, table, shards>>
  BY DEF Next, vars, PlanRequest, DeclineRequest, RunScan, ScanFails, AnswerStatement, Ended
<1>1. Pruned' /\ CandidatePlan' = CandidatePlan /\ Declined' = Declined
  BY <1>0, Same DEF IInv
<1>2. CASE PlanRequest
  <2>1. stage = "requested" /\ emitted = <<>> /\ emitted' = <<>> /\ stage' = "scanning"
    BY <1>2 DEF PlanRequest, IInv, Planned
  <2>2. Planned'
    BY <1>1, <1>2, <2>1 DEF PlanRequest, Planned, Declined
  <2>3. ScansAllowed' /\ AnswerAllowed' /\ DOMAIN emitted' \subseteq 1 .. shards'
    BY <2>1 DEF ScansAllowed, AnswerAllowed
  <2> QED
    BY <1>1, <2>2, <2>3 DEF IInv
<1>3. CASE DeclineRequest
  <2>1. stage = "requested" /\ emitted = <<>> /\ emitted' = <<>> /\ stage' = "declined"
    BY <1>3 DEF DeclineRequest, IInv, Planned
  <2>2. Planned'
    BY <1>1, <1>3, <2>1 DEF DeclineRequest, Planned, Declined
  <2>3. ScansAllowed' /\ AnswerAllowed' /\ DOMAIN emitted' \subseteq 1 .. shards'
    BY <2>1 DEF ScansAllowed, AnswerAllowed
  <2> QED
    BY <1>1, <2>2, <2>3 DEF IInv
<1>4. ASSUME NEW s \in Unscanned, NEW output \in ScanOutputs(s), RunScan(s, output)
      PROVE  IInv'
  <2>1. /\ stage = "scanning" /\ stage' = "scanning" /\ UNCHANGED <<plan, request, table, shards>>
        /\ emitted' = [t \in DOMAIN emitted \cup {s} |-> IF t = s THEN output ELSE emitted[t]]
    BY <1>4 DEF RunScan
  <2>2. Planned'
    BY <1>1, <2>1 DEF IInv, Planned
  <2>3. DOMAIN emitted' \subseteq 1 .. shards'
    BY <2>1 DEF IInv, Unscanned
  <2>4. ASSUME NEW t \in DOMAIN emitted' PROVE emitted'[t] \in ScanOutputs(t)'
    <3>1. ScanOutputs(t)' = ScanOutputs(t)
      BY <2>1, SameScan
    <3>2. emitted'[t] \in ScanOutputs(t)
      BY <2>1, <2>4 DEF IInv, ScansAllowed
    <3> QED
      BY <3>1, <3>2
  <2>5. ScansAllowed' /\ AnswerAllowed'
    BY <2>1, <2>4 DEF ScansAllowed, AnswerAllowed
  <2> QED
    BY <1>1, <2>2, <2>3, <2>5 DEF IInv
<1>5. CASE ScanFails
  <2>1. stage' = "failed" /\ emitted' = emitted
    BY <1>5 DEF ScanFails
  <2> QED
    BY <1>0, <1>1, <2>1 DEF IInv, Planned, ScansAllowed, AnswerAllowed
<1>6. ASSUME NEW result \in Answers, Unscanned = {}, AnswerStatement(result)
      PROVE  IInv'
  <2>1. /\ stage = "scanning" /\ stage' = "answered" /\ answer' = result
        /\ UNCHANGED <<plan, request, table, shards, emitted>>
    BY <1>6 DEF AnswerStatement
  <2>2. Planned' /\ DOMAIN emitted' \subseteq 1 .. shards'
    BY <1>1, <2>1 DEF IInv, Planned
  <2>3. ASSUME NEW t \in DOMAIN emitted' PROVE emitted'[t] \in ScanOutputs(t)'
    <3>1. ScanOutputs(t)' = ScanOutputs(t)
      BY <2>1, SameScan
    <3> QED
      BY <2>1, <3>1 DEF IInv, ScansAllowed
  <2>4. answer' \in Answers'
    BY <2>1, SameAnswers
  <2>5. DOMAIN emitted' = 1 .. shards'
    BY <1>6, <2>1 DEF IInv, Unscanned
  <2>6. ScansAllowed' /\ AnswerAllowed'
    BY <2>3, <2>4, <2>5 DEF ScansAllowed, AnswerAllowed
  <2> QED
    BY <1>1, <2>2, <2>6 DEF IInv
<1>7. CASE UNCHANGED vars
  <2>1. UNCHANGED <<stage, request, table, shards, plan, emitted, answer>>
    BY <1>7 DEF vars
  <2>2. Planned' /\ DOMAIN emitted' \subseteq 1 .. shards'
    BY <1>1, <2>1 DEF IInv, Planned
  <2>3. ASSUME NEW t PROVE ScanOutputs(t)' = ScanOutputs(t)
    BY <2>1, SameScan
  <2>4. Answers' = Answers
    BY <2>1, SameAnswers
  <2>5. ScansAllowed' /\ AnswerAllowed'
    BY <2>1, <2>3, <2>4 DEF ScansAllowed, AnswerAllowed, IInv
  <2> QED
    BY <1>1, <2>2, <2>5 DEF IInv
<1> QED
  BY <1>2, <1>3, <1>4, <1>5, <1>6, <1>7 DEF Next, Ended

\* The invariant holds in every reachable state.
THEOREM Invariance == Spec => []IInv
BY InitInv, StepInv, PTL DEF Spec

\* No clause is declined that Exasol could have evaluated: the outer SELECT's
\* order is the request's or none.
LEMMA OrderOfPlan ==
  ASSUME request.shape \in {"rows", "single", "group"}
  PROVE  /\ CandidatePlan.outer.order_by \in {request.order_by, <<>>}
<1>1. classify_request_shape \in
        {"Grouped", "GroupByWrapper", "SingleGroupAgg", "SingleGroupWrapper", "RowScan"}
  BY DEF classify_request_shape
<1> QED
  BY <1>1 DEF CandidatePlan, EmptyPlan, DispatchPlan, Wrapper, GroupedPlan, CountDistinctPlan,
     SingleGroupPlan, RowScanPlan, Outer

\* A request fails in planning only over a clause no dialect renders, a refused
\* column it names or a table with no other column, and one that names a refused
\* column or reads a table without another is never answered, for every request,
\* table and number of shards.
THEOREM DeclinesExact == Spec => []DeclinesExactlyUnanswerable
<1>1. IInv => DeclinesExactlyUnanswerable
  <2> SUFFICES ASSUME IInv PROVE DeclinesExactlyUnanswerable
    OBVIOUS
  <2> DEFINE refuses == Touched \cap request.refused # {} \/ request.refused = {"k", "v"}
  <2>0. request.shape \in {"rows", "single", "group"} /\ request.refused \subseteq {"k", "v"}
    BY RequestsAssumption DEF IInv, Pruned
  <2>1. ASSUME stage = "declined"
        PROVE  \/ "nowhere" \in {request.filter, request.having} \cup Items
               \/ "unrenderable" \in SortedBy
               \/ refuses
    <3>1. Declined
      BY <2>1 DEF IInv, Planned
    <3>2. CASE TouchesRefused \/ ~ensure_scannable
      BY <2>0, <3>2 DEF TouchesRefused, ensure_scannable
    <3>3. CASE RenderDeclines(CandidatePlan)
      <4> DEFINE p == CandidatePlan
      <4>1. p.outer.order_by \in {request.order_by, <<>>}
        BY <2>0, OrderOfPlan
      <4> HIDE DEF p
      <4>2. \/ request.filter = "nowhere"
            \/ request.having = "nowhere" \/ "nowhere" \in Items
            \/ \E i \in DOMAIN p.outer.order_by : p.outer.order_by[i].by = "unrenderable"
        BY <3>3 DEF RenderDeclines, p
      <4> QED
        BY <4>1, <4>2 DEF SortedBy
    <3> QED
      BY <3>1, <3>2, <3>3 DEF Declined
  <2>2. ASSUME stage = "answered" PROVE ~refuses
    BY <2>2 DEF IInv, Planned, Declined, TouchesRefused, ensure_scannable
  <2> QED
    BY <2>1, <2>2 DEF DeclinesExactlyUnanswerable
<1> QED
  BY <1>1, Invariance, PTL

\* A sequence without repetitions is as long as the set of its elements, and one
\* as long as its set holds every element.
LEMMA RangeSize ==
  ASSUME NEW S, IsFiniteSet(S), NEW n \in Nat, NEW q \in [1 .. n -> S], IsInjective(q)
  PROVE  /\ Cardinality(ToSet(q)) = n /\ IsFiniteSet(ToSet(q))
         /\ ToSet(q) \subseteq S
         /\ n = Cardinality(S) => ToSet(q) = S
<1> DEFINE I == 1 .. n
           T == ToSet(q)
<1>1. IsFiniteSet(I) /\ Cardinality(I) = n
  BY FS_Interval
<1>2. T \subseteq S /\ q \in [I -> T] /\ \A y \in T : \E i \in I : q[i] = y
  BY DEF ToSet
<1>3. q \in Injection(I, S) /\ q \in Injection(I, T) /\ q \in Surjection(I, T)
  BY <1>2 DEF Injection, Surjection, IsInjective
<1> HIDE DEF I, T
<1>4. IsFiniteSet(T) /\ Cardinality(T) = n
  BY <1>1, <1>3, FS_Surjection
<1>5. n = Cardinality(S) => T = S
  BY <1>2, <1>4, FS_Subset
<1> QED
  BY <1>2, <1>4, <1>5 DEF T

\* SetToSeq lists every element of a finite set.
LEMMA SetToSeqLists ==
  ASSUME NEW S, IsFiniteSet(S)
  PROVE  /\ SetToSeq(S) \in [1 .. Cardinality(S) -> S]
         /\ ToSet(SetToSeq(S)) = S
<1> DEFINE n == Cardinality(S)
           I == 1 .. n
<1>1. n \in Nat /\ ExistsBijection(I, S)
  BY FS_CardinalityType
<1>2. \E f \in [I -> S] : IsInjective(f)
  BY <1>1 DEF ExistsBijection, Bijection, Injection
<1>3. SetToSeq(S) = CHOOSE f \in [I -> S] : IsInjective(f)
  BY DEF SetToSeq
<1> HIDE DEF n, I
<1>4. SetToSeq(S) \in [I -> S] /\ IsInjective(SetToSeq(S))
  BY <1>2, <1>3
<1>5. ToSet(SetToSeq(S)) = S
  BY <1>1, <1>4, RangeSize DEF n, I
<1> QED
  BY <1>4, <1>5 DEF n, I

\* A table has two columns.
LEMMA TwoColumns == IsFiniteSet({"k", "v"})
<1>1. {"k", "v"} = {"k"} \cup {"v"} /\ IsFiniteSet({"k"})
  BY FS_Singleton
<1> QED
  BY <1>1, FS_AddElement

\* Every column a clause names is one of the table's two.
LEMMA TouchedColumns ==
  /\ \A by : ColumnsOf(by) \subseteq {"k", "v"}
  /\ Touched \subseteq {"k", "v"} /\ IsFiniteSet(Touched)
<1>0. \A by : ColumnsOf(by) \subseteq {"k", "v"}
  BY DEF ColumnsOf
<1>1. Touched \subseteq {"k", "v"}
  BY <1>0 DEF Touched
<1>2. IsFiniteSet({"k", "v"})
  BY TwoColumns
<1> QED
  BY <1>0, <1>1, <1>2, FS_Subset

\* A wrapper's scan emits every column a clause of the request names.
LEMMA WrapperReads == Touched \subseteq ToSet(referenced_columns)
<1>1. CASE Touched = {}
  BY <1>1
<1>2. CASE Touched # {}
  BY <1>2, TouchedColumns, SetToSeqLists DEF referenced_columns
<1> QED
  BY <1>1, <1>2

\* The columns a hidden sort key needs are appended.
LEMMA ExtensionReads ==
  ASSUME NEW P \in Seq(Names)
  PROVE  (UNION {ColumnsOf(by) : by \in SortedBy}) \subseteq
           ToSet(extend_projection_with_sort_keys(P))
<1> DEFINE C == UNION {ColumnsOf(by) : by \in SortedBy}
           T == ToSet(P)
           H == C \ T
           q == SetToSeq(H)
<1>1. C \subseteq {"k", "v"}
  BY TouchedColumns
<1>2. IsFiniteSet({"k", "v"})
  BY TwoColumns
<1>3. extend_projection_with_sort_keys(P) = P \o q
  BY DEF extend_projection_with_sort_keys
<1> HIDE DEF C, T
<1>4. H \in SUBSET {"k", "v"} /\ H \subseteq Names
  <2>1. "k" \in Names /\ "v" \in Names
    BY DEF Names
  <2>2. \A x \in H : x \in C
    OBVIOUS
  <2> HIDE DEF H
  <2> QED
    BY <1>1, <2>1, <2>2
<1> HIDE DEF H
<1>5. IsFiniteSet(H) /\ Cardinality(H) \in Nat
  BY <1>2, <1>4, FS_Subset, FS_CardinalityType
<1>7. q \in [1 .. Cardinality(H) -> H] /\ ToSet(q) = H
  BY <1>5, SetToSeqLists
<1>8. q \in Seq(Names)
  <2>1. q \in [1 .. Cardinality(H) -> Names]
    <3> HIDE DEF q
    <3> QED
      BY <1>4, <1>7
  <2> HIDE DEF q
  <2> QED
    BY <1>5, <2>1
<1> HIDE DEF q
<1>6. ASSUME NEW c \in C PROVE c \in ToSet(P \o q)
  <2>1. CASE c \in T
    BY <2>1 DEF T, ToSet
  <2>2. CASE c \in H
    <3>1. PICK i \in DOMAIN q : q[i] = c
      BY <1>7, <2>2 DEF ToSet
    <3>2. /\ Len(P) + i \in DOMAIN (P \o q) /\ (P \o q)[Len(P) + i] = c
      BY <1>8, <3>1
    <3> QED
      BY <3>2 DEF ToSet
  <2> QED
    BY <2>1, <2>2 DEF H
<1> QED
  BY <1>3, <1>6 DEF C

\* The columns a planned outer SELECT reads, and the partials it merges, are ones
\* its scans emit.
ShapeOf(p) ==
    /\ p.outer.select = request.items
    /\ p.outer.kind \in {"union", "native"} =>
         UNION {ColumnsOf(p.outer.order_by[i].by) : i \in DOMAIN p.outer.order_by}
           \subseteq ToSet(p.scan.cols)
    /\ p.outer.kind = "native" =>
         (UNION {ColumnsOf(by) : by \in Items}) \cup (IF p.outer.where THEN {"k"} ELSE {})
           \subseteq ToSet(p.scan.cols)
    /\ p.outer.kind \in {"merge", "regroup"} =>
         /\ request.having # "none" => "count" \in Plans
         /\ \A i \in DOMAIN p.outer.order_by : p.outer.order_by[i].by \in Plans \cup {"k"}

\* The sort keys' columns, key by key.
LEMMA SortColumns ==
  (UNION {ColumnsOf(request.order_by[i].by) : i \in DOMAIN request.order_by})
    = UNION {ColumnsOf(by) : by \in SortedBy}
BY DEF SortedBy

\* A fallback reads what the clauses of the request name.
LEMMA WrapperShape ==
  ASSUME NEW filter, NEW where \in BOOLEAN, where => request.filter # "none"
  PROVE  ShapeOf(Wrapper(filter, where))
<1> DEFINE p == Wrapper(filter, where)
           sorted == UNION {ColumnsOf(by) : by \in SortedBy}
           shown == UNION {ColumnsOf(by) : by \in Items}
<1>1. /\ p.outer.select = request.items /\ p.outer.kind = "native" /\ p.outer.where = where
      /\ p.outer.order_by = request.order_by /\ p.scan.cols = referenced_columns
  BY DEF Wrapper, Outer, Scan
<1>2. sorted \subseteq Touched /\ shown \subseteq Touched
  BY DEF Touched
<1>3. where => "k" \in Touched
  BY DEF Touched
<1>4. Touched \subseteq ToSet(referenced_columns)
  BY WrapperReads
<1> HIDE DEF p, sorted, shown
<1>5. (UNION {ColumnsOf(p.outer.order_by[i].by) : i \in DOMAIN p.outer.order_by}) = sorted
  BY <1>1, SortColumns DEF sorted
<1>6. shown \cup (IF p.outer.where THEN {"k"} ELSE {}) \subseteq ToSet(p.scan.cols)
  BY <1>1, <1>2, <1>3, <1>4
<1>7. p.outer.kind \notin {"merge", "regroup"}
  BY <1>1
<1>8. sorted \subseteq ToSet(p.scan.cols)
  BY <1>1, <1>2, <1>4
<1>9. ShapeOf(p)
  BY <1>1, <1>5, <1>6, <1>7, <1>8 DEF ShapeOf, shown
<1> QED
  BY <1>9 DEF p

\* A plan without files reads both columns of an empty relation.
LEMMA EmptyShape == ShapeOf(EmptyPlan)
<1> DEFINE p == EmptyPlan
           sorted == UNION {ColumnsOf(p.outer.order_by[i].by) : i \in DOMAIN p.outer.order_by}
           shown == UNION {ColumnsOf(by) : by \in Items}
<1>1. /\ p.outer.select = request.items /\ p.outer.kind \in {"native", "empty"}
      /\ p.outer.where = FALSE /\ p.scan.cols = <<"k", "v">>
  BY DEF EmptyPlan, Outer, Scan
<1>2. ToSet(<<"k", "v">>) = {"k", "v"}
  BY DEF ToSet
<1>3. sorted \subseteq {"k", "v"} /\ shown \subseteq {"k", "v"}
  BY TouchedColumns
<1> HIDE DEF p, sorted, shown
<1>4. sorted \subseteq ToSet(p.scan.cols)
  BY <1>1, <1>2, <1>3
<1>5. shown \cup (IF p.outer.where THEN {"k"} ELSE {}) \subseteq ToSet(p.scan.cols)
  BY <1>1, <1>2, <1>3
<1>6. p.outer.kind \notin {"merge", "regroup"}
  BY <1>1
<1>7. ShapeOf(p)
  BY <1>1, <1>4, <1>5, <1>6 DEF ShapeOf, shown, sorted
<1> QED
  BY <1>7 DEF p

\* A row scan shows its projection and sorts by columns it emits.
LEMMA RowScanShape ==
  ASSUME request \in Requests, ~projection_widened
  PROVE  ShapeOf(RowScanPlan)
<1> DEFINE p == RowScanPlan
           sorted == UNION {ColumnsOf(by) : by \in SortedBy}
<1>0. project_columns = request.items /\ request.items \in Seq(Names)
  BY RequestsAssumption DEF project_columns
<1>1. /\ p.outer.select = request.items /\ p.outer.kind = "union"
      /\ p.outer.order_by = request.order_by
      /\ p.scan.cols = IF declined_order_by THEN extend_projection_with_sort_keys(request.items)
                       ELSE request.items
  BY <1>0 DEF RowScanPlan, Outer, Scan
<1>2. CASE declined_order_by
  <2>1. sorted \subseteq ToSet(extend_projection_with_sort_keys(request.items))
    BY <1>0, ExtensionReads
  <2> HIDE DEF p, sorted
  <2>2. (UNION {ColumnsOf(p.outer.order_by[i].by) : i \in DOMAIN p.outer.order_by}) = sorted
    BY <1>1, SortColumns DEF sorted
  <2>3. ShapeOf(p)
    BY <1>1, <1>2, <2>1, <2>2 DEF ShapeOf
  <2> QED
    BY <2>3 DEF p
<1>3. CASE ~declined_order_by
  <2>1. \A by \in SortedBy : ColumnsOf(by) \subseteq ToSet(request.items)
    <3> SUFFICES ASSUME NEW by \in SortedBy PROVE ColumnsOf(by) \subseteq ToSet(request.items)
      OBVIOUS
    <3>1. HasOrderBy
      BY DEF HasOrderBy, SortedBy
    <3>2. by \in Items \cap {"k", "v"}
      BY <1>3, <3>1 DEF declined_order_by, detect_topn
    <3> QED
      BY <3>2 DEF ColumnsOf, Items
  <2>2. sorted \subseteq ToSet(request.items)
    BY <2>1
  <2> HIDE DEF p, sorted
  <2>3. (UNION {ColumnsOf(p.outer.order_by[i].by) : i \in DOMAIN p.outer.order_by}) = sorted
    BY <1>1, SortColumns DEF sorted
  <2>4. ShapeOf(p)
    BY <1>1, <1>3, <2>2, <2>3 DEF ShapeOf
  <2> QED
    BY <2>4 DEF p
<1> QED
  BY <1>2, <1>3

\* The merges read partials only.
LEMMA MergeShape ==
  /\ classify_request_shape = "Grouped" /\ request.shape \in {"rows", "single", "group"}
       => ShapeOf(GroupedPlan)
  /\ ShapeOf(CountDistinctPlan)
  /\ classify_request_shape = "SingleGroupAgg" /\ request.shape \in {"rows", "single", "group"}
       => ShapeOf(SingleGroupPlan)
<1>1. ASSUME classify_request_shape = "Grouped", request.shape \in {"rows", "single", "group"}
      PROVE  ShapeOf(GroupedPlan)
  <2>1. GroupedOrderByResolves /\ HavingOverMerge
    BY <1>1 DEF classify_request_shape
  <2>2. \A i \in DOMAIN request.order_by : request.order_by[i].by \in SortedBy
    BY DEF SortedBy
  <2>3. /\ GroupedPlan.outer.kind = "regroup" /\ GroupedPlan.outer.select = request.items
        /\ GroupedPlan.outer.order_by = request.order_by
    BY DEF GroupedPlan, Outer
  <2> QED
    BY <2>1, <2>2, <2>3 DEF ShapeOf, GroupedOrderByResolves, HavingOverMerge
<1>2. ShapeOf(CountDistinctPlan)
  BY DEF ShapeOf, CountDistinctPlan, Outer
<1>3. ASSUME classify_request_shape = "SingleGroupAgg",
             request.shape \in {"rows", "single", "group"}
      PROVE  ShapeOf(SingleGroupPlan)
  <2>1. request.having # "none" => "count" \in Plans
    BY <1>3 DEF classify_request_shape, SingleGroupDecomposes, HavingOverMerge
  <2>2. /\ SingleGroupPlan.outer.kind = "merge" /\ SingleGroupPlan.outer.select = request.items
        /\ SingleGroupPlan.outer.order_by = <<>>
    BY DEF SingleGroupPlan, Outer
  <2> QED
    BY <2>1, <2>2 DEF ShapeOf
<1> QED
  BY <1>1, <1>2, <1>3

\* The plans a request may come to, and when.
LEMMA PlanCases ==
  ASSUME request \in Requests
  PROVE  \/ shards = 0 /\ CandidatePlan = EmptyPlan
         \/ /\ shards # 0 /\ request.filter \in {"declined", "nowhere"}
            /\ CandidatePlan = Wrapper(FALSE, TRUE)
         \/ /\ shards # 0 /\ request.filter \in {"none", "rendered"}
            /\ CandidatePlan = Wrapper(request.filter = "rendered", FALSE)
         \/ /\ shards # 0 /\ request.filter \in {"none", "rendered"} /\ request.shape = "group"
            /\ classify_request_shape = "Grouped" /\ CandidatePlan = GroupedPlan
         \/ /\ shards # 0 /\ request.filter \in {"none", "rendered"} /\ request.shape = "single"
            /\ classify_request_shape = "SingleGroupAgg" /\ request.items = <<"distinct">>
            /\ CandidatePlan = CountDistinctPlan
         \/ /\ shards # 0 /\ request.filter \in {"none", "rendered"} /\ request.shape = "single"
            /\ classify_request_shape = "SingleGroupAgg" /\ ~has_distinct
            /\ CandidatePlan = SingleGroupPlan
         \/ /\ shards # 0 /\ request.filter \in {"none", "rendered"} /\ request.shape = "rows"
            /\ ~projection_widened /\ CandidatePlan = RowScanPlan
<1>1. /\ request.shape \in {"rows", "single", "group"}
      /\ request.filter \in {"none", "rendered", "declined", "nowhere"}
  BY RequestsAssumption
<1>2. CASE request.shape = "group"
  <2>1. classify_request_shape \in {"Grouped", "GroupByWrapper"}
    BY <1>2 DEF classify_request_shape
  <2> QED
    BY <1>1, <1>2, <2>1 DEF CandidatePlan, DispatchPlan
<1>3. CASE request.shape = "single"
  <2>1. classify_request_shape \in {"SingleGroupAgg", "SingleGroupWrapper"}
    BY <1>3 DEF classify_request_shape
  <2> QED
    BY <1>1, <1>3, <2>1 DEF CandidatePlan, DispatchPlan
<1>4. CASE request.shape = "rows"
  <2>1. classify_request_shape = "RowScan"
    BY <1>4 DEF classify_request_shape
  <2> QED
    BY <1>1, <1>4, <2>1 DEF CandidatePlan, DispatchPlan
<1> QED
  BY <1>1, <1>2, <1>3, <1>4

\* The generated SQL fits the declared select list and names nothing its scans
\* leave out, for every request: no mismatch fails a statement at run time.
THEOREM ShapesFit == Spec => []PositionalShape
<1>1. IInv => PositionalShape
  <2> SUFFICES ASSUME IInv, stage = "scanning" PROVE ShapeOf(plan)
    BY DEF PositionalShape, ShapeOf
  <2>1. plan = CandidatePlan /\ request \in Requests
    BY DEF IInv, Planned, Pruned
  <2>2. request.shape \in {"rows", "single", "group"}
    BY <2>1, RequestsAssumption
  <2>3. ShapeOf(CandidatePlan)
    BY <2>1, <2>2, PlanCases, EmptyShape, WrapperShape, RowScanShape, MergeShape
  <2> QED
    BY <2>1, <2>3
<1> QED
  BY <1>1, Invariance, PTL

-----------------------------------------------------------------------------
(* ORDER BY and LIMIT over the whole table and shard by shard              *)

\* One key of an order: a comes before b.
KeyLess(a, b, key) ==
    \/ a = Null /\ b # Null /\ ~key.nulls_last
    \/ a # Null /\ b = Null /\ key.nulls_last
    \/ /\ a # Null /\ b # Null
       /\ IF key.ascending THEN a < b ELSE a > b

\* An order by one key is total and transitive.
LEMMA KeyOrder ==
  ASSUME NEW key, key.ascending \in BOOLEAN, key.nulls_last \in BOOLEAN,
         NEW a \in Int, NEW b \in Int, NEW c \in Int
  PROVE  /\ ~KeyLess(a, a, key)
         /\ a # b => KeyLess(a, b, key) \/ KeyLess(b, a, key)
         /\ KeyLess(a, b, key) /\ KeyLess(b, c, key) => KeyLess(a, c, key)
BY DEF KeyLess, Null

\* The keys of an order.
Ordering(keys) ==
    keys \in Seq([by : Names, ascending : BOOLEAN, nulls_last : BOOLEAN])

\* Every key says its direction and where NULLs go.
LEMMA KeysOfOrdering ==
  ASSUME NEW keys, Ordering(keys)
  PROVE  /\ DOMAIN keys = 1 .. Len(keys) /\ Len(keys) \in Nat
         /\ \A j \in DOMAIN keys :
              keys[j].ascending \in BOOLEAN /\ keys[j].nulls_last \in BOOLEAN
<1> DEFINE K == [by : Names, ascending : BOOLEAN, nulls_last : BOOLEAN]
<1>1. \A key \in K : key.ascending \in BOOLEAN /\ key.nulls_last \in BOOLEAN
  OBVIOUS
<1>2. keys \in Seq(K)
  BY DEF Ordering
<1> HIDE DEF K
<1> QED
  BY <1>1, <1>2

\* Precedes, key by key.
LEMMA PrecedesAt ==
  ASSUME NEW x, NEW y, NEW keys
  PROVE  Precedes(x, y, keys) <=>
           \E i \in DOMAIN keys : /\ \A j \in 1 .. i - 1 : x[j] = y[j]
                                  /\ KeyLess(x[i], y[i], keys[i])
BY DEF Precedes, KeyLess

\* ORDER BY is a weak order: what comes before y comes before everything that
\* does not.
LEMMA WeakOrder ==
  ASSUME NEW keys, Ordering(keys),
         NEW x \in [DOMAIN keys -> Int], NEW y \in [DOMAIN keys -> Int],
         NEW z \in [DOMAIN keys -> Int],
         Precedes(x, y, keys), ~Precedes(z, y, keys)
  PROVE  Precedes(x, z, keys)
<1>1. PICK i \in DOMAIN keys : /\ \A j \in 1 .. i - 1 : x[j] = y[j]
                               /\ KeyLess(x[i], y[i], keys[i])
  BY PrecedesAt
<1>2. /\ DOMAIN keys = 1 .. Len(keys) /\ Len(keys) \in Nat
      /\ \A j \in DOMAIN keys : keys[j].ascending \in BOOLEAN /\ keys[j].nulls_last \in BOOLEAN
  BY KeysOfOrdering
<1> DEFINE D == {j \in 1 .. i : z[j] # y[j]}
<1>3. CASE D = {}
  <2>0. i \in Nat /\ \A j \in 1 .. i : z[j] = y[j]
    BY <1>2, <1>3
  <2>1. \A j \in 1 .. i - 1 : x[j] = z[j]
    BY <1>1, <2>0
  <2>2. KeyLess(x[i], z[i], keys[i])
    BY <1>1, <1>2, <2>0
  <2> QED
    BY <2>1, <2>2, PrecedesAt
<1>4. CASE D # {}
  <2>1. D \in SUBSET Nat
    BY <1>2
  <2>2. PICK m \in D : \A n \in D : m <= n
    <3> HIDE DEF D
    <3> QED
      BY <1>4, <2>1, LeastNumber
  <2>3. m \in DOMAIN keys /\ m <= i /\ \A j \in 1 .. m - 1 : z[j] = y[j]
    BY <1>2, <2>2
  <2>4. KeyLess(y[m], z[m], keys[m])
    <3>1. ~KeyLess(z[m], y[m], keys[m])
      BY <2>3, PrecedesAt
    <3>2. z[m] # y[m] /\ z[m] \in Int /\ y[m] \in Int
      BY <2>2, <2>3
    <3> QED
      BY <1>2, <2>3, <3>1, <3>2, KeyOrder
  <2>5. \A j \in 1 .. m - 1 : x[j] = z[j]
    BY <1>1, <1>2, <2>3
  <2>6. KeyLess(x[m], z[m], keys[m])
    <3>1. CASE m = i
      <4>1. KeyLess(x[m], y[m], keys[m])
        BY <1>1, <3>1
      <4>2. x[m] \in Int /\ y[m] \in Int /\ z[m] \in Int
        BY <2>3
      <4> QED
        BY <1>2, <2>3, <2>4, <4>1, <4>2, KeyOrder
    <3>2. CASE m # i
      <4>1. x[m] = y[m]
        BY <1>1, <1>2, <2>3, <3>2
      <4> QED
        BY <2>4, <4>1
    <3> QED
      BY <3>1, <3>2
  <2> QED
    BY <2>3, <2>5, <2>6, PrecedesAt
<1> QED
  BY <1>3, <1>4

\* Nothing comes before itself.
LEMMA Irreflexive ==
  ASSUME NEW keys, Ordering(keys), NEW x \in [DOMAIN keys -> Int]
  PROVE  ~Precedes(x, x, keys)
<1> SUFFICES ASSUME NEW i \in DOMAIN keys, KeyLess(x[i], x[i], keys[i]) PROVE FALSE
  BY PrecedesAt
<1>1. keys[i].ascending \in BOOLEAN /\ keys[i].nulls_last \in BOOLEAN /\ x[i] \in Int
  BY KeysOfOrdering
<1> QED
  BY <1>1, KeyOrder

\* What precedes a row, and what does not follow it.
Before(val, y, keys) == {x \in DOMAIN val : Precedes(val[x], val[y], keys)}
UpTo(val, y, keys) == {x \in DOMAIN val : ~Precedes(val[y], val[x], keys)}

\* The values of the keys of an order over a finite set.
Ranked(val, S, keys) ==
    /\ IsFiniteSet(S) /\ Ordering(keys) /\ val \in [S -> [DOMAIN keys -> Int]]

Limit(limit) == limit \in Nat \cup {NoLimit}

\* A window lists distinct elements, each at a place its rank allows.
LEMMA WindowIs ==
  ASSUME NEW val, NEW S, IsFiniteSet(S), DOMAIN val = S, NEW keys, NEW limit, Limit(limit),
         NEW offset \in Nat, NEW q \in Windows(val, keys, limit, offset)
  PROVE  /\ WindowSize(Cardinality(S), limit, offset) \in Nat
         /\ q \in [1 .. WindowSize(Cardinality(S), limit, offset) -> S] /\ IsInjective(q)
         /\ IsWindow(q, val, keys, limit, offset)
         /\ \A i \in DOMAIN q : /\ Cardinality(Before(val, q[i], keys)) < offset + i
                                /\ Cardinality(UpTo(val, q[i], keys)) >= offset + i
<1>1. Cardinality(S) \in Nat
  BY FS_CardinalityType
<1>2. WindowSize(Cardinality(S), limit, offset) \in Nat
  BY <1>1 DEF WindowSize, Limit, NoLimit
<1>3. IsWindow(q, val, keys, limit, offset)
  BY DEF Windows
<1>4. q \in [1 .. WindowSize(Cardinality(S), limit, offset) -> S] /\ IsInjective(q)
  BY <1>3 DEF Windows, IsWindow
<1>5. \A i \in DOMAIN q : /\ Cardinality(Before(val, q[i], keys)) < offset + i
                          /\ Cardinality(UpTo(val, q[i], keys)) >= offset + i
  BY <1>3 DEF IsWindow, Before, UpTo
<1> QED
  BY <1>2, <1>3, <1>4, <1>5

\* Without a limit a window holds everything.
LEMMA WholeWindow ==
  ASSUME NEW val, NEW S, IsFiniteSet(S), DOMAIN val = S, NEW keys,
         NEW q \in Windows(val, keys, NoLimit, 0)
  PROVE  ToSet(q) = S
<1>1. Cardinality(S) \in Nat
  BY FS_CardinalityType
<1>2. WindowSize(Cardinality(S), NoLimit, 0) = Cardinality(S)
  BY <1>1 DEF WindowSize
<1>3. q \in [1 .. Cardinality(S) -> S] /\ IsInjective(q)
  <2>1. Limit(NoLimit) /\ 0 \in Nat
    BY DEF Limit
  <2>2. /\ q \in [1 .. WindowSize(Cardinality(S), NoLimit, 0) -> S] /\ IsInjective(q)
    BY <2>1, WindowIs
  <2> QED
    BY <1>2, <2>2
<1> QED
  BY <1>1, <1>3, RangeSize

\* What precedes an element of a shard's top-N is in the top-N as well: the N
\* first places are taken by what precedes it.
LEMMA TopInside ==
  ASSUME NEW val, NEW S, NEW keys, Ranked(val, S, keys), NEW limit, Limit(limit),
         NEW q \in Windows(val, keys, limit, 0), NEW i \in DOMAIN q,
         NEW x \in Before(val, q[i], keys)
  PROVE  x \in ToSet(q)
<1> DEFINE n == WindowSize(Cardinality(S), limit, 0)
           P == Before(val, q[i], keys)
           c == Cardinality(P)
<1>0. IsFiniteSet(S) /\ DOMAIN val = S
  BY DEF Ranked
<1>1. /\ n \in Nat /\ q \in [1 .. n -> S] /\ IsInjective(q)
      /\ \A j \in DOMAIN q : Cardinality(Before(val, q[j], keys)) < j
  <2>1. \A j \in DOMAIN q : Cardinality(Before(val, q[j], keys)) < 0 + j
    BY <1>0, WindowIs
  <2>2. n \in Nat /\ q \in [1 .. n -> S] /\ IsInjective(q)
    BY <1>0, WindowIs
  <2>3. \A j \in DOMAIN q : j \in Nat
    BY <2>2
  <2> HIDE DEF n
  <2> QED
    BY <2>1, <2>2, <2>3
<1>2. \A j \in DOMAIN q : /\ Before(val, q[j], keys) \in SUBSET S
                          /\ IsFiniteSet(Before(val, q[j], keys))
                          /\ Cardinality(Before(val, q[j], keys)) \in Nat
  <2> SUFFICES ASSUME NEW j \in DOMAIN q
               PROVE  /\ Before(val, q[j], keys) \in SUBSET S
                      /\ IsFiniteSet(Before(val, q[j], keys))
                      /\ Cardinality(Before(val, q[j], keys)) \in Nat
    OBVIOUS
  <2>1. Before(val, q[j], keys) \in SUBSET S
    BY <1>0 DEF Before
  <2> QED
    BY <1>0, <2>1, FS_Subset, FS_CardinalityType
<1>3. P \in SUBSET S /\ IsFiniteSet(P) /\ c \in Nat /\ c < i /\ i \in 1 .. n
  BY <1>1, <1>2
<1> HIDE DEF n, P, c
<1>4. ASSUME NEW j \in 1 .. c PROVE j \in DOMAIN q /\ q[j] \in P
  <2>1. j \in DOMAIN q /\ q[j] \in S /\ q[i] \in S
    BY <1>1, <1>3
  <2> SUFFICES ASSUME q[j] \notin P PROVE FALSE
    BY <2>1
  <2> DEFINE B == Before(val, q[j], keys)
  <2>2. ~Precedes(val[q[j]], val[q[i]], keys)
    BY <1>0, <2>1 DEF P, Before
  <2>3. ASSUME NEW z \in P PROVE z \in B
    <3>1. z \in S /\ Precedes(val[z], val[q[i]], keys)
      BY <1>0, <2>3 DEF P, Before
    <3>2. /\ val[z] \in [DOMAIN keys -> Int] /\ val[q[i]] \in [DOMAIN keys -> Int]
          /\ val[q[j]] \in [DOMAIN keys -> Int] /\ Ordering(keys)
      BY <2>1, <3>1 DEF Ranked
    <3>3. Precedes(val[z], val[q[j]], keys)
      BY <2>2, <3>1, <3>2, WeakOrder
    <3> QED
      BY <1>0, <3>1, <3>3 DEF Before
  <2>4. IsFiniteSet(B) /\ Cardinality(B) \in Nat /\ Cardinality(B) < j
    BY <1>1, <1>2, <2>1
  <2>5. P \in SUBSET B
    BY <2>3
  <2> HIDE DEF B
  <2>6. c <= Cardinality(B)
    BY <2>4, <2>5, FS_Subset DEF c
  <2> QED
    BY <1>3, <2>4, <2>6
<1> DEFINE h == [j \in 1 .. c |-> q[j]]
<1>5. h \in [1 .. c -> P] /\ IsInjective(h)
  BY <1>1, <1>4 DEF IsInjective
<1>6. ToSet(h) = P
  <2> HIDE DEF h
  <2> QED
    BY <1>3, <1>5, RangeSize DEF c
<1>7. PICK j \in 1 .. c : q[j] = x
  BY <1>6 DEF ToSet, P
<1> QED
  BY <1>4, <1>7 DEF ToSet

\* The keys' values of a part.
Restricted(val, T) == [x \in T |-> val[x]]

\* The shards' top-N of the parts of a set.
TopParts(e, part, I, val, keys, limit) ==
    \A s \in I : e[s] \in Windows(Restricted(val, part[s]), keys, limit, 0)

Parts(part, I, S) ==
    /\ \A s \in I : part[s] \subseteq S
    /\ \A x \in S : \E s \in I : x \in part[s]

TopUnion(E, e, I) ==
    \A x : x \in E <=> \E s \in I : x \in ToSet(e[s])

\* A part is ranked as the whole is.
LEMMA RestrictedRanked ==
  ASSUME NEW val, NEW S, NEW keys, Ranked(val, S, keys), NEW T \in SUBSET S
  PROVE  /\ Ranked(Restricted(val, T), T, keys) /\ DOMAIN Restricted(val, T) = T
         /\ \A x \in T : Restricted(val, T)[x] = val[x]
<1>1. IsFiniteSet(T)
  BY FS_Subset DEF Ranked
<1> QED
  BY <1>1 DEF Ranked, Restricted

\* The top-N of the shards' top-Ns is a top-N of everything: LIMIT and a bounded
\* ORDER BY may run inside every shard.
LEMMA TopMerge ==
  ASSUME NEW val, NEW S, NEW keys, Ranked(val, S, keys), NEW limit, Limit(limit),
         NEW I, NEW part, Parts(part, I, S), NEW e, TopParts(e, part, I, val, keys, limit),
         NEW E, TopUnion(E, e, I),
         NEW q \in Windows(Restricted(val, E), keys, limit, 0)
  PROVE  IsWindow(q, val, keys, limit, 0)
<1> DEFINE V == Restricted(val, E)
           n == WindowSize(Cardinality(S), limit, 0)
<1>0. IsFiniteSet(S) /\ DOMAIN val = S /\ Cardinality(S) \in Nat
  BY FS_CardinalityType DEF Ranked
<1>1. ASSUME NEW s \in I
      PROVE  /\ part[s] \in SUBSET S
             /\ IsFiniteSet(part[s]) /\ Cardinality(part[s]) \in Nat
             /\ Cardinality(part[s]) <= Cardinality(S)
             /\ WindowSize(Cardinality(part[s]), limit, 0) \in Nat
             /\ e[s] \in [1 .. WindowSize(Cardinality(part[s]), limit, 0) -> part[s]]
             /\ IsInjective(e[s])
             /\ Cardinality(ToSet(e[s])) = WindowSize(Cardinality(part[s]), limit, 0)
             /\ ToSet(e[s]) \in SUBSET part[s]
             /\ Cardinality(part[s]) = WindowSize(Cardinality(part[s]), limit, 0)
                  => ToSet(e[s]) = part[s]
  <2>1. part[s] \in SUBSET S
    BY DEF Parts
  <2>2. /\ IsFiniteSet(part[s]) /\ Cardinality(part[s]) \in Nat
        /\ Cardinality(part[s]) <= Cardinality(S)
    BY <1>0, <2>1, FS_Subset, FS_CardinalityType
  <2>3. e[s] \in Windows(Restricted(val, part[s]), keys, limit, 0)
    BY DEF TopParts
  <2>4. DOMAIN Restricted(val, part[s]) = part[s] /\ 0 \in Nat
    BY DEF Restricted
  <2>5. /\ WindowSize(Cardinality(part[s]), limit, 0) \in Nat
        /\ e[s] \in [1 .. WindowSize(Cardinality(part[s]), limit, 0) -> part[s]]
        /\ IsInjective(e[s])
    BY <2>2, <2>3, <2>4, WindowIs
  <2> DEFINE p == part[s]
             w == WindowSize(Cardinality(part[s]), limit, 0)
             es == e[s]
  <2> HIDE DEF p, w, es
  <2>6. IsFiniteSet(p) /\ w \in Nat /\ es \in [1 .. w -> p] /\ IsInjective(es)
    BY <2>2, <2>5 DEF p, w, es
  <2>7. /\ Cardinality(ToSet(es)) = w /\ ToSet(es) \subseteq p
        /\ w = Cardinality(p) => ToSet(es) = p
    BY <2>6, RangeSize
  <2> QED
    BY <2>1, <2>2, <2>5, <2>7 DEF p, w, es
<1>2. E \in SUBSET S
  <2> SUFFICES ASSUME NEW x \in E PROVE x \in S
    OBVIOUS
  <2>1. PICK s \in I : x \in ToSet(e[s])
    BY DEF TopUnion
  <2> QED
    BY <1>1, <2>1
<1>3. /\ Ranked(V, E, keys) /\ DOMAIN V = E /\ \A x \in E : V[x] = val[x]
      /\ IsFiniteSet(E) /\ Cardinality(E) \in Nat /\ Cardinality(E) <= Cardinality(S)
  BY <1>0, <1>2, RestrictedRanked, FS_Subset, FS_CardinalityType
<1>4. \/ E = S
      \/ /\ limit \in Nat
         /\ \E s \in I : Cardinality(part[s]) > limit /\ Cardinality(ToSet(e[s])) = limit
  <2> SUFFICES ASSUME NEW x \in S, x \notin E
               PROVE  /\ limit \in Nat
                      /\ \E s \in I : /\ Cardinality(part[s]) > limit
                                     /\ Cardinality(ToSet(e[s])) = limit
    BY <1>2
  <2>1. PICK s \in I : x \in part[s]
    BY DEF Parts
  <2>2. x \notin ToSet(e[s])
    BY DEF TopUnion
  <2> DEFINE m == Cardinality(part[s])
  <2>3. m \in Nat /\ m # WindowSize(m, limit, 0)
    BY <1>1, <2>1, <2>2
  <2>4. limit \in Nat /\ m > limit /\ WindowSize(m, limit, 0) = limit
    <3> HIDE DEF m
    <3> QED
      BY <2>3 DEF WindowSize, Limit
  <2> QED
    BY <1>1, <2>4
<1>5. ASSUME NEW s \in I
      PROVE  ToSet(e[s]) \in SUBSET E
  BY DEF TopUnion
<1>6. WindowSize(Cardinality(E), limit, 0) = n
  <2>1. CASE E = S
    BY <2>1
  <2>2. CASE E # S
    <3>1. PICK s \in I : Cardinality(part[s]) > limit /\ Cardinality(ToSet(e[s])) = limit
      BY <1>4, <2>2
    <3>2. limit \in Nat
      BY <1>4, <2>2
    <3>3. Cardinality(ToSet(e[s])) <= Cardinality(E)
      BY <1>3, <1>5, FS_Subset
    <3>4. limit <= Cardinality(E)
      BY <3>1, <3>3
    <3> QED
      BY <1>0, <1>3, <3>2, <3>4 DEF WindowSize, NoLimit
  <2> QED
    BY <2>1, <2>2
<1>7. /\ n \in Nat /\ q \in [1 .. n -> E] /\ IsInjective(q)
      /\ \A i \in DOMAIN q : /\ Cardinality(Before(V, q[i], keys)) < 0 + i
                             /\ Cardinality(UpTo(V, q[i], keys)) >= 0 + i
  BY <1>3, <1>6, WindowIs
<1> HIDE DEF V, n
<1>8. ASSUME NEW i \in DOMAIN q
      PROVE  /\ Cardinality(Before(val, q[i], keys)) < 0 + i
             /\ Cardinality(UpTo(val, q[i], keys)) >= 0 + i
  <2>0. i \in Nat /\ i <= n /\ q[i] \in E /\ q[i] \in S
    BY <1>2, <1>7
  <2>1. UpTo(V, q[i], keys) \in SUBSET UpTo(val, q[i], keys)
    BY <1>0, <1>2, <1>3, <2>0 DEF UpTo
  <2>2. UpTo(val, q[i], keys) \in SUBSET S
    BY <1>0 DEF UpTo
  <2>3. Cardinality(UpTo(V, q[i], keys)) <= Cardinality(UpTo(val, q[i], keys))
    BY <1>0, <2>1, <2>2, FS_Subset
  <2>4. ASSUME NEW x \in Before(val, q[i], keys) PROVE x \in E
    <3> SUFFICES ASSUME x \notin E PROVE FALSE
      OBVIOUS
    <3>1. x \in S /\ Precedes(val[x], val[q[i]], keys)
      BY <1>0 DEF Before
    <3>2. PICK s \in I : x \in part[s]
      BY <3>1 DEF Parts
    <3>3. x \notin ToSet(e[s])
      BY DEF TopUnion
    <3> DEFINE m == Cardinality(part[s])
               T == ToSet(e[s])
               W == Restricted(val, part[s])
               B == Before(V, q[i], keys)
    <3>4. m \in Nat /\ m # WindowSize(m, limit, 0) /\ Cardinality(T) = WindowSize(m, limit, 0)
      BY <1>1, <3>2, <3>3
    <3>5. limit \in Nat /\ Cardinality(T) = limit
      <4> HIDE DEF m, T
      <4> QED
        BY <3>4 DEF WindowSize, Limit
    <3>6. /\ Ranked(W, part[s], keys) /\ DOMAIN W = part[s]
          /\ \A y \in part[s] : W[y] = val[y]
      <4>1. part[s] \in SUBSET S
        BY <1>1
      <4> QED
        BY <4>1, RestrictedRanked
    <3>7. e[s] \in Windows(W, keys, limit, 0)
      BY DEF TopParts
    <3>8. ASSUME NEW y \in T PROVE y \in B
      <4>1. PICK j \in DOMAIN e[s] : e[s][j] = y
        BY DEF ToSet
      <4>2. y \in part[s] /\ y \in S /\ y \in E
        BY <1>1, <1>5
      <4>3. ~Precedes(val[x], val[y], keys)
        <5> SUFFICES ASSUME Precedes(val[x], val[y], keys) PROVE FALSE
          OBVIOUS
        <5>1. Precedes(W[x], W[e[s][j]], keys)
          BY <3>2, <3>6, <4>1, <4>2
        <5>2. x \in Before(W, e[s][j], keys)
          BY <3>2, <3>6, <5>1 DEF Before
        <5>3. x \in ToSet(e[s])
          <6> HIDE DEF W
          <6> QED
            BY <3>6, <3>7, <5>2, TopInside
        <5> QED
          BY <3>3, <5>3
      <4>4. Precedes(val[y], val[q[i]], keys)
        <5>1. /\ val[x] \in [DOMAIN keys -> Int] /\ val[y] \in [DOMAIN keys -> Int]
              /\ val[q[i]] \in [DOMAIN keys -> Int] /\ Ordering(keys)
          BY <2>0, <3>1, <4>2 DEF Ranked
        <5>2. Precedes(val[x], val[q[i]], keys)
          BY <3>1
        <5> QED
          BY <4>3, <5>1, <5>2, WeakOrder
      <4> QED
        BY <1>3, <2>0, <4>2, <4>4 DEF Before
    <3>9. B \in SUBSET E
      BY <1>3 DEF Before
    <3> HIDE DEF T, B
    <3>10. T \in SUBSET B
      BY <3>8
    <3>11. Cardinality(T) <= Cardinality(B) /\ Cardinality(B) \in Nat
      BY <1>3, <3>9, <3>10, FS_Subset, FS_CardinalityType
    <3>12. Cardinality(B) < i
      BY <1>7, <2>0 DEF B
    <3>13. n <= limit
      BY <1>0, <3>5 DEF n, WindowSize, NoLimit
    <3> QED
      BY <1>7, <2>0, <3>5, <3>11, <3>12, <3>13
  <2>5. Before(val, q[i], keys) = Before(V, q[i], keys)
    BY <1>0, <1>2, <1>3, <2>0, <2>4 DEF Before
  <2>6. /\ Cardinality(UpTo(V, q[i], keys)) \in Nat /\ Cardinality(UpTo(val, q[i], keys)) \in Nat
    BY <1>0, <2>1, <2>2, FS_Subset, FS_CardinalityType
  <2> QED
    BY <1>7, <2>0, <2>3, <2>5, <2>6
<1>9. Len(q) = n /\ ToSet(q) \subseteq S
  BY <1>2, <1>7 DEF ToSet
<1> QED
  BY <1>0, <1>7, <1>8, <1>9 DEF IsWindow, Before, UpTo, n

-----------------------------------------------------------------------------
(* The answers made of rows                                                *)

\* The rows that satisfy the request's WHERE.
Matching == {r \in Rows : request.filter = "none" \/ Passes(r)}

\* A table is finite and typed.
LEMMA TableFacts ==
  ASSUME IInv
  PROVE  /\ IsFiniteSet(Rows) /\ IsFiniteSet(Matching) /\ Matching \in SUBSET Rows
         /\ \A r \in Rows : /\ table[r].k \in Nat \cup {Null} /\ table[r].v \in Nat \cup {Null}
                            /\ table[r].shard \in Nat
         /\ \A s : ShardRows(s) \in SUBSET Rows /\ IsFiniteSet(ShardRows(s))
<1>1. table \in Tables
  BY DEF IInv, Pruned
<1>2. IsFiniteSet(Rows)
  BY <1>1, TablesAssumption DEF Rows
<1>3. Matching \in SUBSET Rows /\ IsFiniteSet(Matching)
  BY <1>2, FS_Subset DEF Matching
<1>4. \A r \in Rows : /\ table[r].k \in Nat \cup {Null} /\ table[r].v \in Nat \cup {Null}
                      /\ table[r].shard \in Nat
  BY <1>1, TablesAssumption DEF Rows
<1>5. ASSUME NEW s PROVE ShardRows(s) \in SUBSET Rows /\ IsFiniteSet(ShardRows(s))
  <2>1. ShardRows(s) \in SUBSET Rows
    BY DEF ShardRows
  <2> QED
    BY <1>2, <2>1, FS_Subset
<1> QED
  BY <1>2, <1>3, <1>4, <1>5

\* Pruning and the shards leave exactly the matching rows to the scans.
LEMMA ShardsCover ==
  ASSUME IInv, plan.scan.filter \in BOOLEAN, plan.scan.filter => request.filter # "none"
  PROVE  /\ \A r \in Matching : /\ table[r].shard \in 1 .. shards
                                /\ r \in ShardRows(table[r].shard)
         /\ plan.scan.filter = (request.filter # "none") =>
              \A s : ShardRows(s) \subseteq Matching
<1>1. ASSUME NEW r \in Matching
      PROVE  table[r].shard \in 1 .. shards /\ r \in ShardRows(table[r].shard)
  <2>1. /\ r \in Rows /\ table[r].shard \in Nat /\ shards \in Nat /\ table[r].shard <= shards
        /\ table[r].shard = 0 => request.filter # "none" /\ ~Passes(r)
    BY TableFacts DEF IInv, Pruned
  <2>2. request.filter = "none" \/ Passes(r)
    BY DEF Matching
  <2> QED
    BY <2>1, <2>2 DEF ShardRows
<1>2. ASSUME plan.scan.filter = (request.filter # "none"), NEW s, NEW r \in ShardRows(s)
      PROVE  r \in Matching
  BY <1>2 DEF ShardRows, Matching
<1> QED
  BY <1>1, <1>2

\* A scan of rows without a limit emits its shard's rows.
LEMMA WholeShard ==
  ASSUME IInv, stage = "answered", plan.scan.kind = "rows", plan.scan.limit = NoLimit,
         NEW s \in 1 .. shards
  PROVE  s \in DOMAIN emitted /\ emitted[s] = ShardRows(s)
<1> DEFINE val == KeyValues(ShardRows(s), plan.scan.order_by, ScanValue)
<1>1. s \in DOMAIN emitted /\ emitted[s] \in ScanOutputs(s)
  BY DEF IInv, ScansAllowed, AnswerAllowed
<1>2. ScanOutputs(s) = {ToSet(q) : q \in Windows(val, plan.scan.order_by, NoLimit, 0)}
  BY DEF ScanOutputs
<1>3. DOMAIN val = ShardRows(s)
  BY DEF KeyValues
<1> HIDE DEF val
<1>4. PICK q \in Windows(val, plan.scan.order_by, NoLimit, 0) : emitted[s] = ToSet(q)
  BY <1>1, <1>2
<1>5. IsFiniteSet(ShardRows(s))
  BY TableFacts
<1> QED
  BY <1>1, <1>3, <1>4, <1>5, WholeWindow

\* The raw rows the outer SELECT reads are the matching ones, wherever the filter
\* is applied.
LEMMA RawRows ==
  ASSUME IInv, stage = "answered", plan.scan.kind = "rows", plan.scan.limit = NoLimit,
         plan.scan.filter \in BOOLEAN, plan.outer.where \in BOOLEAN,
         (plan.scan.filter \/ plan.outer.where) = (request.filter # "none")
  PROVE  EmittedRows = Matching
<1>0. DOMAIN emitted = 1 .. shards
  BY DEF IInv, AnswerAllowed
<1>1. ASSUME NEW r \in Matching PROVE r \in EmittedRows
  <2>1. table[r].shard \in 1 .. shards /\ r \in ShardRows(table[r].shard)
    BY ShardsCover
  <2>2. emitted[table[r].shard] = ShardRows(table[r].shard)
    BY <2>1, WholeShard
  <2>3. plan.outer.where => Passes(r)
    BY DEF Matching
  <2> QED
    BY <1>0, <2>1, <2>2, <2>3 DEF EmittedRows
<1>2. ASSUME NEW r \in EmittedRows PROVE r \in Matching
  <2>1. PICK s \in 1 .. shards : r \in emitted[s]
    BY <1>0 DEF EmittedRows
  <2>2. r \in ShardRows(s)
    BY <2>1, WholeShard
  <2>3. plan.outer.where => Passes(r)
    BY DEF EmittedRows
  <2> QED
    BY <2>2, <2>3 DEF ShardRows, Matching
<1> QED
  BY <1>1, <1>2

\* Exasol's own evaluation over the matching rows is the query.
LEMMA NativeAnswer ==
  ASSUME IInv, stage = "answered", plan.outer.kind = "native", EmittedRows = Matching,
         plan.outer.order_by = request.order_by, plan.outer.limit = request.limit,
         plan.outer.offset = request.offset
  PROVE  AnswerIsTheQuery
<1> DEFINE Val(id, by) == NativeValue(Matching, id, by)
           val == KeyValues(NativeIds(Matching), request.order_by, Val)
           W == Windows(val, request.order_by, request.limit, request.offset)
<1>1. answer \in Answers
  BY DEF IInv, AnswerAllowed
<1>2. Answers = {Result(q, NativeItems(Matching)) : q \in W}
  BY DEF Answers
<1>3. PICK q \in W : answer = Result(q, NativeItems(Matching))
  <2> HIDE DEF W
  <2> QED
    BY <1>1, <1>2
<1>4. IsWindow(q, val, request.order_by, request.limit, request.offset)
  BY DEF Windows
<1>5. answer.ids = q /\ answer.items = NativeItems(Matching)
  BY <1>3 DEF Result
<1> QED
  BY <1>4, <1>5 DEF AnswerIsTheQuery, Matching

\* For a request for rows the query is a window over the matching rows.
LEMMA RowQuery ==
  ASSUME request.shape = "rows",
         IsWindow(answer.ids, KeyValues(Matching, request.order_by, ColumnValue),
                  request.order_by, request.limit, request.offset)
  PROVE  AnswerIsTheQuery
<1> DEFINE Val(id, by) == NativeValue(Matching, id, by)
<1>1. NativeIds(Matching) = Matching
  BY DEF NativeIds
<1>2. KeyValues(Matching, request.order_by, Val) = KeyValues(Matching, request.order_by, ColumnValue)
  BY DEF KeyValues, NativeValue
<1> QED
  BY <1>1, <1>2 DEF AnswerIsTheQuery, Matching

\* What the outer SELECT over a row scan may answer.
LEMMA UnionAnswers ==
  ASSUME IInv, stage = "answered", plan.outer.kind = "union"
  PROVE  answer.ids \in Windows(KeyValues(EmittedRows, plan.outer.order_by, ColumnValue),
                                plan.outer.order_by, plan.outer.limit, plan.outer.offset)
<1> DEFINE W == Windows(KeyValues(EmittedRows, plan.outer.order_by, ColumnValue),
                        plan.outer.order_by, plan.outer.limit, plan.outer.offset)
<1>1. answer \in Answers
  BY DEF IInv, AnswerAllowed
<1>2. Answers = {Result(q, <<>>) : q \in W}
  BY DEF Answers
<1> HIDE DEF W
<1>3. PICK q \in W : answer = Result(q, <<>>)
  BY <1>1, <1>2
<1> QED
  BY <1>3 DEF Result, W

\* A row scan whose order Exasol applies.
LEMMA DeclinedOrder ==
  ASSUME IInv, stage = "answered", plan = RowScanPlan, declined_order_by,
         request.shape = "rows", request.filter \in {"none", "rendered"}
  PROVE  AnswerIsTheQuery
<1>1. /\ plan.scan.kind = "rows" /\ plan.scan.limit = NoLimit
      /\ plan.scan.filter = (request.filter # "none") /\ plan.outer.where = FALSE
      /\ plan.outer.kind = "union" /\ plan.outer.order_by = request.order_by
      /\ plan.outer.limit = request.limit /\ plan.outer.offset = request.offset
  BY DEF RowScanPlan, Scan, Outer, effective_limit, declined_order_by
<1>2. EmittedRows = Matching
  BY <1>1, RawRows
<1>3. answer.ids \in Windows(KeyValues(Matching, request.order_by, ColumnValue),
                             request.order_by, request.limit, request.offset)
  BY <1>1, <1>2, UnionAnswers
<1>4. IsWindow(answer.ids, KeyValues(Matching, request.order_by, ColumnValue),
               request.order_by, request.limit, request.offset)
  BY <1>3 DEF Windows
<1> QED
  BY <1>4, RowQuery

\* What a sort key of a pushed-down order reads is a number, the same in the scan
\* and in Exasol.
SortsAlike(R) ==
    \A r \in R, by \in SortedBy : ColumnValue(r, by) \in Int /\ ScanValue(r, by) = ColumnValue(r, by)

\* A bounded top-N sorts by top-level columns that the scan and Exasol compare alike.
LEMMA PushedKeys ==
  ASSUME IInv, ~declined_order_by, request.nested \in BOOLEAN
  PROVE  SortsAlike(Rows)
<1> SUFFICES ASSUME NEW r \in Rows, NEW by \in SortedBy
             PROVE  ColumnValue(r, by) \in Int /\ ScanValue(r, by) = ColumnValue(r, by)
  BY DEF SortsAlike
<1>1. HasOrderBy
  BY DEF HasOrderBy, SortedBy
<1>2. by \in {"k", "v"} /\ ~(request.nested /\ by = "v")
  BY <1>1 DEF declined_order_by, detect_topn
<1>3. table[r].k \in Int /\ table[r].v \in Int
  BY TableFacts DEF Null
<1> QED
  BY <1>2, <1>3 DEF ColumnValue, ScanValue

\* The keys' values of such an order over the rows of a shard are those over all
\* rows.
LEMMA SameKeys ==
  ASSUME NEW S, NEW T \in SUBSET S, SortsAlike(S), Ordering(request.order_by)
  PROVE  LET val == KeyValues(S, request.order_by, ColumnValue)
         IN  /\ val \in [S -> [DOMAIN request.order_by -> Int]]
             /\ KeyValues(T, request.order_by, ScanValue) = Restricted(val, T)
             /\ KeyValues(T, request.order_by, ColumnValue) = Restricted(val, T)
<1> DEFINE D == DOMAIN request.order_by
           val == KeyValues(S, request.order_by, ColumnValue)
<1>1. \A i \in D : request.order_by[i].by \in SortedBy
  BY DEF SortedBy
<1>2. \A r \in S, i \in D : /\ ColumnValue(r, request.order_by[i].by) \in Int
                            /\ ScanValue(r, request.order_by[i].by)
                                 = ColumnValue(r, request.order_by[i].by)
  BY <1>1 DEF SortsAlike
<1>3. val = [r \in S |-> [i \in D |-> ColumnValue(r, request.order_by[i].by)]]
  BY DEF KeyValues
<1>4. val \in [S -> [D -> Int]]
  BY <1>2, <1>3
<1>5. Restricted(val, T) = [r \in T |-> [i \in D |-> ColumnValue(r, request.order_by[i].by)]]
  BY <1>3 DEF Restricted
<1>6. KeyValues(T, request.order_by, ColumnValue) = Restricted(val, T)
  BY <1>5 DEF KeyValues
<1>7. KeyValues(T, request.order_by, ScanValue)
        = [r \in T |-> [i \in D |-> ScanValue(r, request.order_by[i].by)]]
  BY DEF KeyValues
<1>8. KeyValues(T, request.order_by, ScanValue) = Restricted(val, T)
  <2>1. \A r \in T : [i \in D |-> ScanValue(r, request.order_by[i].by)]
                       = [i \in D |-> ColumnValue(r, request.order_by[i].by)]
    BY <1>2
  <2> QED
    BY <1>5, <1>7, <2>1
<1> QED
  BY <1>4, <1>6, <1>8

\* A row scan with its limit, and its order if it has one, inside every shard.
LEMMA PushedLimit ==
  ASSUME IInv, stage = "answered", plan = RowScanPlan, ~declined_order_by,
         request.shape = "rows", request.filter \in {"none", "rendered"}
  PROVE  AnswerIsTheQuery
<1> DEFINE ob == request.order_by
           lim == request.limit
           val == KeyValues(Matching, ob, ColumnValue)
           I == 1 .. shards
           E == EmittedRows
           part == [s \in I |-> ShardRows(s)]
           e == [s \in I |-> CHOOSE q \in Windows(Restricted(val, ShardRows(s)), ob, lim, 0) :
                               emitted[s] = ToSet(q)]
<1>0. /\ request.nested \in BOOLEAN /\ Ordering(ob) /\ Limit(lim)
      /\ request.offset \in Nat
      /\ request.offset # 0 => ob # <<>>
  BY RequestsAssumption DEF IInv, Pruned, Ordering, Limit
<1>1. request.offset = 0
  BY <1>0 DEF declined_order_by, HasOrderBy, detect_topn
<1>2. /\ plan.scan.kind = "rows" /\ plan.scan.limit = lim /\ plan.scan.order_by = ob
      /\ plan.scan.filter = (request.filter # "none") /\ plan.outer.where = FALSE
      /\ plan.outer.kind = "union" /\ plan.outer.order_by = ob
      /\ plan.outer.limit = lim /\ plan.outer.offset = 0
  <2>1. effective_limit = lim
    BY DEF effective_limit, declined_order_by
  <2> QED
    BY <2>1 DEF RowScanPlan, Scan, Outer
<1>3. IsFiniteSet(Matching) /\ Matching \in SUBSET Rows
  BY TableFacts
<1>4. SortsAlike(Matching)
  <2>1. SortsAlike(Rows)
    BY <1>0, PushedKeys
  <2> QED
    BY <1>3, <2>1 DEF SortsAlike
<1>5. Ranked(val, Matching, ob)
  <2>1. Matching \in SUBSET Matching
    OBVIOUS
  <2>2. val \in [Matching -> [DOMAIN ob -> Int]]
    BY <1>0, <1>4, <2>1, SameKeys
  <2> QED
    BY <1>0, <1>3, <2>2 DEF Ranked
<1>6. \A s : ShardRows(s) \in SUBSET Matching
  BY <1>2, ShardsCover
<1>7. Parts(part, I, Matching)
  <2>1. ASSUME NEW r \in Matching PROVE \E s \in I : r \in part[s]
    BY <1>2, ShardsCover
  <2> QED
    BY <1>6, <2>1 DEF Parts
<1>8. ASSUME NEW s \in I
      PROVE  /\ e[s] \in Windows(Restricted(val, part[s]), ob, lim, 0)
             /\ emitted[s] = ToSet(e[s])
  <2> DEFINE W == Windows(Restricted(val, ShardRows(s)), ob, lim, 0)
  <2>1. s \in DOMAIN emitted /\ emitted[s] \in ScanOutputs(s)
    BY DEF IInv, ScansAllowed, AnswerAllowed
  <2>2. KeyValues(ShardRows(s), ob, ScanValue) = Restricted(val, ShardRows(s))
    BY <1>0, <1>4, <1>6, SameKeys
  <2>3. ScanOutputs(s) = {ToSet(q) : q \in W}
    BY <1>2, <2>2 DEF ScanOutputs
  <2>4. e[s] = CHOOSE q \in W : emitted[s] = ToSet(q)
    OBVIOUS
  <2>5. part[s] = ShardRows(s)
    OBVIOUS
  <2> HIDE DEF W, e, part
  <2>6. \E q \in W : emitted[s] = ToSet(q)
    BY <2>1, <2>3
  <2>7. e[s] \in W /\ emitted[s] = ToSet(e[s])
    BY <2>4, <2>6
  <2> QED
    BY <2>5, <2>7 DEF W
<1>9. DOMAIN emitted = I
  BY DEF IInv, AnswerAllowed
<1>10. TopUnion(E, e, I)
  <2>1. E = UNION {emitted[s] : s \in I}
    BY <1>2, <1>9 DEF EmittedRows
  <2> HIDE DEF e, E
  <2>2. ASSUME NEW x PROVE x \in E <=> \E s \in I : x \in ToSet(e[s])
    BY <1>8, <2>1
  <2> QED
    BY <2>2 DEF TopUnion
<1>11. TopParts(e, part, I, val, ob, lim)
  <2> HIDE DEF e, part, I, val
  <2> QED
    BY <1>8 DEF TopParts
<1>12. E \in SUBSET Matching
  <2> SUFFICES ASSUME NEW x \in E PROVE x \in Matching
    OBVIOUS
  <2> HIDE DEF E, e, part
  <2>1. PICK s \in I : x \in ToSet(e[s])
    BY <1>10 DEF TopUnion
  <2>2. x \in emitted[s] /\ s \in DOMAIN emitted
    BY <1>8, <1>9, <2>1
  <2>3. emitted[s] \in ScanOutputs(s)
    BY <2>2 DEF IInv, ScansAllowed
  <2> DEFINE V == KeyValues(ShardRows(s), ob, ScanValue)
  <2>4. ScanOutputs(s) = {ToSet(q) : q \in Windows(V, ob, lim, 0)}
    BY <1>2 DEF ScanOutputs
  <2>5. DOMAIN V = ShardRows(s)
    BY DEF KeyValues
  <2> HIDE DEF V
  <2>6. PICK q \in Windows(V, ob, lim, 0) : emitted[s] = ToSet(q)
    BY <2>3, <2>4
  <2>7. ToSet(q) \subseteq ShardRows(s)
    BY <2>5 DEF Windows, IsWindow
  <2> QED
    BY <1>6, <2>2, <2>6, <2>7
<1>13. answer.ids \in Windows(Restricted(val, E), ob, lim, 0)
  <2>1. KeyValues(E, ob, ColumnValue) = Restricted(val, E)
    BY <1>0, <1>4, <1>12, SameKeys
  <2> QED
    BY <1>2, <2>1, UnionAnswers
<1> HIDE DEF I, E, part, e
<1>14. IsWindow(answer.ids, val, ob, lim, 0)
  <2> HIDE DEF val
  <2> QED
    BY <1>0, <1>5, <1>7, <1>10, <1>11, <1>13, TopMerge
<1> QED
  BY <1>1, <1>14, RowQuery

\* Without files there is no matching row, and the empty relation says so.
LEMMA EmptyAnswer ==
  ASSUME IInv, stage = "answered", plan = EmptyPlan, shards = 0
  PROVE  AnswerIsTheQuery
<1>0. request \in Requests
  BY DEF IInv, Pruned
<1>1. Matching = {}
  <2> SUFFICES ASSUME NEW r \in Matching PROVE FALSE
    OBVIOUS
  <2>1. r \in Rows /\ table[r].shard \in Nat /\ table[r].shard <= shards
    BY TableFacts DEF IInv, Pruned
  <2>2. table[r].shard = 0
    BY <2>1
  <2> QED
    BY <2>1, <2>2 DEF Matching, IInv, Pruned
<1>2. EmittedRows = {}
  BY DEF EmittedRows, IInv, AnswerAllowed
<1>3. CASE classify_request_shape \in {"SingleGroupAgg", "SingleGroupWrapper"}
  <2>1. /\ plan.outer.kind = "native" /\ plan.outer.order_by = request.order_by
        /\ plan.outer.limit = request.limit /\ plan.outer.offset = request.offset
    BY <1>3 DEF EmptyPlan, Outer
  <2> QED
    BY <1>1, <1>2, <2>1, NativeAnswer
<1>4. CASE classify_request_shape \notin {"SingleGroupAgg", "SingleGroupWrapper"}
  <2>1. plan.outer.kind = "empty"
    BY <1>4 DEF EmptyPlan, Outer
  <2>2. answer = Result(<<>>, <<>>)
    BY <2>1 DEF IInv, AnswerAllowed, Answers
  <2>3. answer.ids = <<>>
    BY <2>2 DEF Result
  <2>4. request.shape # "single"
    <3> SUFFICES ASSUME request.shape = "single" PROVE FALSE
      OBVIOUS
    <3> QED
      BY <1>4 DEF classify_request_shape
  <2>5. NativeIds(Matching) = {}
    BY <1>1, <2>4 DEF NativeIds, GroupsOf
  <2> DEFINE Val(id, by) == NativeValue(Matching, id, by)
             val == KeyValues(NativeIds(Matching), request.order_by, Val)
  <2>6. DOMAIN val = {}
    BY <2>5 DEF KeyValues
  <2>7. request.limit \in Nat \cup {NoLimit} /\ request.offset \in Nat
    BY <1>0, RequestsAssumption
  <2> HIDE DEF val
  <2>8. Cardinality(DOMAIN val) = 0
    BY <2>6, FS_EmptySet
  <2>9. WindowSize(0, request.limit, request.offset) = 0
    BY <2>7 DEF WindowSize, NoLimit
  <2>10. IsWindow(<<>>, val, request.order_by, request.limit, request.offset)
    <3>1. Len(<<>>) = 0 /\ DOMAIN <<>> = {} /\ ToSet(<<>>) = {}
      BY DEF ToSet
    <3> QED
      BY <2>8, <2>9, <3>1 DEF IsWindow, IsInjective
  <2> QED
    <3>1. DOMAIN answer.ids = {}
      BY <2>3
    <3> QED
      BY <2>3, <2>10, <3>1 DEF AnswerIsTheQuery, Matching, val
<1> QED
  BY <1>3, <1>4

-----------------------------------------------------------------------------
(* Sums over the pieces of a set                                           *)

\* P cuts Q into pieces, one for every element of D.
Pieces(P, D, Q) ==
    /\ IsFiniteSet(D) /\ IsFiniteSet(Q)
    /\ \A s \in D : P[s] \in SUBSET Q
    /\ \A r \in Q : \E s \in D : r \in P[s]
    /\ \A s, t \in D : \A r \in P[s] : r \in P[t] => s = t
SumPart(w, S) == SumFunction([r \in S |-> w[r]])
SumsOfPieces(w, P, D) == [s \in D |-> SumPart(w, P[s])]

\* Every piece is finite.
LEMMA PieceFinite ==
  ASSUME NEW D, NEW Q, NEW P, Pieces(P, D, Q), NEW s \in D
  PROVE  P[s] \in SUBSET Q /\ IsFiniteSet(P[s])
<1>1. P[s] \in SUBSET Q /\ IsFiniteSet(Q)
  BY DEF Pieces
<1> QED
  BY <1>1, FS_Subset

\* A sum is the sum of the sums over the pieces.
LEMMA SumParts ==
  ASSUME NEW D, NEW Q, NEW P, Pieces(P, D, Q), NEW w \in [Q -> Int]
  PROVE  /\ SumsOfPieces(w, P, D) \in [D -> Int]
         /\ SumFunction(w) = SumFunction(SumsOfPieces(w, P, D))
<1> DEFINE m == [r \in Q |-> [s \in D |-> IF r \in P[s] THEN w[r] ELSE 0]]
<1>1. IsFiniteSet(D) /\ IsFiniteSet(Q) /\ \A s \in D : P[s] \in SUBSET Q
  BY DEF Pieces
<1>2. m \in [Q -> [D -> Int]]
  OBVIOUS
<1>3. ASSUME NEW r \in Q PROVE SumFunction(m[r]) = w[r]
  <2>1. PICK s \in D : r \in P[s]
    BY DEF Pieces
  <2>2. \A t \in D \ {s} : r \notin P[t]
    BY <2>1 DEF Pieces
  <2> DEFINE f == m[r]
             one == [t \in {s} |-> f[t]]
  <2>3. f \in [D -> Int] /\ f[s] = w[r] /\ \A t \in D \ {s} : f[t] = 0
    BY <2>1, <2>2
  <2>4. {s} \in SUBSET D
    OBVIOUS
  <2> HIDE DEF m, f
  <2>5. SumFunction(f) = SumFunction(one)
    BY <1>1, <2>3, <2>4, SumSupport
  <2>6. one \in [{s} -> Int] /\ one[s] = f[s]
    BY <2>3
  <2> HIDE DEF one
  <2>7. SumFunction(one) = one[s]
    BY <2>6, SumOne
  <2> QED
    BY <2>3, <2>5, <2>6, <2>7 DEF f
<1>4. RowSums(m, Q) = w
  <2>1. RowSums(m, Q) = [r \in Q |-> w[r]]
    <3> HIDE DEF m
    <3> QED
      BY <1>3 DEF RowSums
  <2> QED
    BY <2>1
<1>5. ASSUME NEW s \in D PROVE SumFunction([r \in Q |-> m[r][s]]) = SumPart(w, P[s])
  <2> DEFINE f == [r \in Q |-> m[r][s]]
             R == P[s]
  <2>1. f \in [Q -> Int] /\ (\A r \in Q \ R : f[r] = 0) /\ R \in SUBSET Q
    BY <1>1
  <2>2. [r \in R |-> f[r]] = [r \in R |-> w[r]]
    BY <2>1
  <2> HIDE DEF f, R
  <2>3. SumFunction(f) = SumFunction([r \in R |-> f[r]])
    BY <1>1, <2>1, SumSupport
  <2> QED
    BY <2>2, <2>3 DEF f, R, SumPart
<1>6. ColumnSums(m, Q, D) = SumsOfPieces(w, P, D)
  <2> HIDE DEF m
  <2> QED
    BY <1>5 DEF ColumnSums, SumsOfPieces
<1>7. SumFunction(w) = SumFunction(SumsOfPieces(w, P, D))
  <2> HIDE DEF m
  <2>1. SumFunction(RowSums(m, Q)) = SumFunction(ColumnSums(m, Q, D))
    BY <1>1, <1>2, SumExchange
  <2> QED
    BY <1>4, <1>6, <2>1
<1>8. ASSUME NEW s \in D PROVE SumPart(w, P[s]) \in Int
  <2> DEFINE R == P[s]
             f == [r \in R |-> w[r]]
  <2>1. IsFiniteSet(R) /\ f \in [R -> Int]
    BY <1>1, PieceFinite
  <2> HIDE DEF R, f
  <2>2. SumFunction(f) \in Int
    BY <2>1, SumType
  <2> QED
    BY <2>2 DEF f, R, SumPart
<1> QED
  BY <1>7, <1>8 DEF SumsOfPieces

\* The sum of ones counts.
LEMMA CardinalityIsSum ==
  ASSUME NEW S, IsFiniteSet(S)
  PROVE  SumFunction([x \in S |-> 1]) = Cardinality(S)
<1> DEFINE f == [x \in S |-> 1]
           g == [T \in SUBSET S |-> Cardinality(T)]
<1>1. \A T \in SUBSET S : Cardinality(T) \in Nat /\ IsFiniteSet(T)
  BY FS_Subset, FS_CardinalityType
<1>2. g \in [SUBSET S -> Int]
  BY <1>1
<1>3. g[{}] = 0
  BY FS_EmptySet
<1>4. ASSUME NEW T \in SUBSET S, T # {} PROVE g[T] = f[Chosen(T)] + g[T \ {Chosen(T)}]
  <2>1. Chosen(T) \in T
    BY <1>4 DEF Chosen
  <2>2. Cardinality(T \ {Chosen(T)}) = Cardinality(T) - 1
    BY <1>1, <2>1, FS_RemoveElement
  <2>3. T \ {Chosen(T)} \in SUBSET S /\ Cardinality(T) \in Nat
    BY <1>1
  <2> QED
    BY <2>1, <2>2, <2>3
<1>5. SumsOf(g, f, S)
  <2> HIDE DEF g, f
  <2> QED
    BY <1>2, <1>3, <1>4 DEF SumsOf
<1>6. f \in [S -> Int]
  OBVIOUS
<1>7. SumFunction(f) = g[S]
  <2> HIDE DEF g, f
  <2> QED
    BY <1>5, <1>6, SumIsFold
<1> QED
  BY <1>7

Scaled(c, f) == [x \in DOMAIN f |-> c * f[x]]
\* A factor may be taken out of a sum.
LEMMA SumScale ==
  ASSUME NEW S, IsFiniteSet(S), NEW f \in [S -> Int], NEW c \in Int
  PROVE  Scaled(c, f) \in [S -> Int] /\ SumFunction(Scaled(c, f)) = c * SumFunction(f)
<1>1. PICK g : SumsOf(g, f, S)
  BY SumsExist
<1> DEFINE h == [T \in SUBSET S |-> c * g[T]]
           k == Scaled(c, f)
<1>2. k \in [S -> Int] /\ \A x \in S : k[x] = c * f[x]
  BY DEF Scaled
<1>3. g \in [SUBSET S -> Int] /\ g[{}] = 0
  BY <1>1 DEF SumsOf
<1>4. h \in [SUBSET S -> Int] /\ h[{}] = 0
  BY <1>3
<1>5. ASSUME NEW T \in SUBSET S, T # {} PROVE h[T] = k[Chosen(T)] + h[T \ {Chosen(T)}]
  <2>1. Chosen(T) \in T
    BY <1>5 DEF Chosen
  <2>2. g[T] = f[Chosen(T)] + g[T \ {Chosen(T)}]
    BY <1>1, <1>5 DEF SumsOf
  <2> DEFINE x == f[Chosen(T)]
             y == g[T \ {Chosen(T)}]
  <2>3. x \in Int /\ y \in Int
    BY <1>3, <2>1
  <2>4. h[T] = c * g[T] /\ h[T \ {Chosen(T)}] = c * y /\ k[Chosen(T)] = c * x
    BY <1>2, <2>1
  <2> HIDE DEF h, k
  <2>5. g[T] = x + y
    BY <2>2
  <2> HIDE DEF x, y
  <2>6. c * (x + y) = c * x + c * y
    BY <2>3
  <2> QED
    BY <2>4, <2>5, <2>6
<1>6. SumsOf(h, k, S)
  <2> HIDE DEF h, k
  <2> QED
    BY <1>4, <1>5 DEF SumsOf
<1>7. SumFunction(k) = h[S] /\ SumFunction(f) = g[S]
  <2> HIDE DEF h, k
  <2>1. SumFunction(k) = h[S]
    BY <1>2, <1>6, SumIsFold
  <2>2. SumFunction(f) = g[S]
    BY <1>1, SumIsFold
  <2> QED
    BY <2>1, <2>2
<1>8. h[S] = c * g[S]
  OBVIOUS
<1> QED
  BY <1>2, <1>7, <1>8

Combination(m, S, a, f, b, g, c, h) ==
    /\ m \in [S -> Int] /\ f \in [S -> Int] /\ g \in [S -> Int] /\ h \in [S -> Int]
    /\ \A x \in S : m[x] = a * f[x] + (b * g[x] + c * h[x])
\* The sum of a linear combination.
LEMMA SumLinear ==
  ASSUME NEW S, IsFiniteSet(S), NEW m, NEW f, NEW g, NEW h,
         NEW a \in Int, NEW b \in Int, NEW c \in Int, Combination(m, S, a, f, b, g, c, h)
  PROVE  SumFunction(m) = a * SumFunction(f) + (b * SumFunction(g) + c * SumFunction(h))
<1> DEFINE F == Scaled(a, f)
           G == Scaled(b, g)
           H == Scaled(c, h)
           GH == [x \in S |-> G[x] + H[x]]
           FGH == [x \in S |-> F[x] + GH[x]]
<1>1. m \in [S -> Int] /\ f \in [S -> Int] /\ g \in [S -> Int] /\ h \in [S -> Int]
  BY DEF Combination
<1>2. \A x \in S : F[x] = a * f[x] /\ G[x] = b * g[x] /\ H[x] = c * h[x]
  BY <1>1 DEF Scaled
<1>3. F \in [S -> Int] /\ SumFunction(F) = a * SumFunction(f)
  BY <1>1, SumScale
<1>4. G \in [S -> Int] /\ SumFunction(G) = b * SumFunction(g)
  BY <1>1, SumScale
<1>5. H \in [S -> Int] /\ SumFunction(H) = c * SumFunction(h)
  BY <1>1, SumScale
<1> HIDE DEF F, G, H
<1>6. GH \in [S -> Int]
  BY <1>4, <1>5
<1>7. SumFunction(GH) = SumFunction(G) + SumFunction(H)
  BY <1>4, <1>5, SumAdd
<1>8. FGH = m
  <2>1. \A x \in S : F[x] + GH[x] = m[x]
    BY <1>2 DEF Combination
  <2> HIDE DEF GH
  <2>2. FGH = [x \in S |-> m[x]]
    BY <2>1
  <2> QED
    BY <1>1, <2>2
<1> HIDE DEF GH
<1>9. SumFunction(FGH) = SumFunction(F) + SumFunction(GH)
  BY <1>3, <1>6, SumAdd
<1> HIDE DEF FGH
<1> QED
  BY <1>3, <1>4, <1>5, <1>7, <1>8, <1>9

-----------------------------------------------------------------------------
(* The merge of partials                                                   *)

\* A multiple is divided exactly.
LEMMA ExactDiv ==
  ASSUME NEW n \in Nat \ {0}, NEW x \in Int
  PROVE  (n * x) \div n = x
<1> DEFINE d == (n * x) \div n
           p == n * x
           e == n * d
<1>1. d \in Int /\ p \in Int
  OBVIOUS
<1>2. e <= p /\ p < e + n /\ e \in Int
  <2> HIDE DEF p
  <2>1. n * (p \div n) <= p /\ p < n * (p \div n) + n
    BY <1>1
  <2> QED
    BY <1>1, <2>1 DEF p
<1>3. n * (x - d) = p - e
  <2> HIDE DEF d
  <2> QED
    BY <1>1
<1> HIDE DEF e, p
<1>4. CASE x - d >= 1
  <2>1. n * (x - d) >= n
    <3> HIDE DEF d
    <3> DEFINE y == x - d
    <3>1. y \in Nat /\ y >= 1
      BY <1>1, <1>4
    <3> HIDE DEF y
    <3>2. n * y >= n
      BY <3>1
    <3> QED
      BY <3>2 DEF y
  <2> HIDE DEF d
  <2> QED
    BY <1>1, <1>2, <1>3, <2>1
<1>5. CASE x - d <= -1
  <2>1. n * (x - d) <= -n
    <3> HIDE DEF d
    <3> DEFINE y == x - d
    <3>1. y \in Int /\ y <= -1
      BY <1>1, <1>5
    <3> HIDE DEF y
    <3>2. n * y <= -n
      BY <3>1
    <3> QED
      BY <3>2 DEF y
  <2> HIDE DEF d
  <2> QED
    BY <1>1, <1>2, <1>3, <2>1
<1> HIDE DEF d
<1> QED
  BY <1>1, <1>4, <1>5 DEF d, p

\* Numbers that are known for every shard add up.
LEMMA SumOfKnown ==
  ASSUME NEW D, IsFiniteSet(D), D # {}, NEW f \in [D -> Nat]
  PROVE  SumOf(f) = SumFunction(f)
<1>1. {s \in DOMAIN f : f[s] # Null} = D
  BY DEF Null
<1>2. [s \in D |-> f[s]] = f
  OBVIOUS
<1> QED
  BY <1>1, <1>2 DEF SumOf

\* Finitely many rows whose columns are numbers or null.
Typed(R) ==
    /\ IsFiniteSet(R)
    /\ \A r \in R : table[r].k \in Nat \cup {Null} /\ table[r].v \in Nat \cup {Null}

\* The rows of a set that have a value.
LEMMA ValuedFacts ==
  ASSUME NEW R, Typed(R)
  PROVE  /\ Valued(R) \in SUBSET R /\ IsFiniteSet(Valued(R)) /\ Cardinality(Valued(R)) \in Nat
         /\ (Cardinality(Valued(R)) = 0) = (Valued(R) = {})
         /\ \A r \in Valued(R) : table[r].v \in Nat
<1>1. Valued(R) \in SUBSET R /\ IsFiniteSet(R)
  BY DEF Valued, Typed
<1>2. IsFiniteSet(Valued(R)) /\ Cardinality(Valued(R)) \in Nat
  BY <1>1, FS_Subset, FS_CardinalityType
<1>3. (Cardinality(Valued(R)) = 0) = (Valued(R) = {})
  BY <1>2, FS_EmptySet
<1>4. \A r \in Valued(R) : table[r].v \in Nat
  BY DEF Valued, Typed
<1> QED
  BY <1>1, <1>2, <1>3, <1>4

ValuedParts(P, D) == [s \in D |-> Valued(P[s])]

\* The pieces of a set of rows cut its valued rows into pieces.
LEMMA ValuedPieces ==
  ASSUME NEW D, NEW Q, NEW P, Pieces(P, D, Q), Typed(Q)
  PROVE  /\ Pieces(ValuedParts(P, D), D, Valued(Q))
         /\ \A s \in D : Typed(P[s])
<1> DEFINE VP == ValuedParts(P, D)
<1>1. IsFiniteSet(D) /\ IsFiniteSet(Valued(Q))
  BY ValuedFacts DEF Pieces
<1>2. \A s \in D : P[s] \in SUBSET Q
  BY DEF Pieces
<1>3. \A s \in D : VP[s] = {r \in P[s] : table[r].v # Null}
  BY DEF ValuedParts, Valued
<1> HIDE DEF VP
<1>4. \A s \in D : VP[s] \in SUBSET Valued(Q)
  BY <1>2, <1>3 DEF Valued
<1>5. ASSUME NEW r \in Valued(Q) PROVE \E s \in D : r \in VP[s]
  <2>1. r \in Q /\ table[r].v # Null
    BY DEF Valued
  <2>2. PICK s \in D : r \in P[s]
    BY <2>1 DEF Pieces
  <2> QED
    BY <1>3, <2>1, <2>2
<1>6. \A s, t \in D : \A r \in VP[s] : r \in VP[t] => s = t
  BY <1>3 DEF Pieces
<1>7. \A s \in D : Typed(P[s])
  <2> SUFFICES ASSUME NEW s \in D PROVE Typed(P[s])
    OBVIOUS
  <2>1. P[s] \in SUBSET Q /\ IsFiniteSet(P[s])
    BY PieceFinite
  <2> QED
    BY <2>1 DEF Typed
<1> QED
  BY <1>1, <1>4, <1>5, <1>6, <1>7 DEF VP, Pieces

Counts(P, D) == [s \in D |-> Cardinality(P[s])]
\* The sizes of the pieces add up.
LEMMA CountParts ==
  ASSUME NEW D, NEW Q, NEW P, Pieces(P, D, Q)
  PROVE  Counts(P, D) \in [D -> Nat] /\ SumFunction(Counts(P, D)) = Cardinality(Q)
<1> DEFINE w == [r \in Q |-> 1]
<1>1. \A s \in D : P[s] \in SUBSET Q /\ IsFiniteSet(P[s])
  BY PieceFinite
<1>2. Counts(P, D) \in [D -> Nat]
  BY <1>1, FS_CardinalityType DEF Counts
<1>3. ASSUME NEW s \in D PROVE SumPart(w, P[s]) = Cardinality(P[s])
  <2>1. [r \in P[s] |-> w[r]] = [r \in P[s] |-> 1]
    BY <1>1
  <2>2. SumFunction([r \in P[s] |-> 1]) = Cardinality(P[s])
    BY <1>1, CardinalityIsSum
  <2> QED
    BY <2>1, <2>2 DEF SumPart
<1>4. w \in [Q -> Int]
  OBVIOUS
<1>5. SumFunction(w) = Cardinality(Q)
  BY CardinalityIsSum DEF Pieces
<1> HIDE DEF w
<1>6. SumFunction(w) = SumFunction(SumsOfPieces(w, P, D))
  BY <1>4, SumParts
<1>7. SumsOfPieces(w, P, D) = Counts(P, D)
  BY <1>3 DEF SumsOfPieces, Counts
<1> QED
  BY <1>2, <1>5, <1>6, <1>7

Naturals(S) == IsFiniteSet(S) /\ \A r \in S : table[r].v \in Nat
Totals(P, D) == [s \in D |-> Total(P[s])]
SquareSums(P, D) == [s \in D |-> Squares(P[s])]

\* Totals and sums of squares are naturals, and zero over nothing.
LEMMA TotalFacts ==
  ASSUME NEW S, Naturals(S)
  PROVE  Total(S) \in Nat /\ Squares(S) \in Nat /\ (S = {} => Total(S) = 0)
<1> DEFINE f == [r \in S |-> table[r].v]
           g == [r \in S |-> table[r].v * table[r].v]
<1>1. IsFiniteSet(S) /\ f \in [S -> Nat]
  BY DEF Naturals
<1>2. g \in [S -> Nat]
  <2>1. \A x \in Nat : x * x \in Nat
    OBVIOUS
  <2> QED
    BY <2>1 DEF Naturals
<1>3. Total(S) = SumFunction(f) /\ Squares(S) = SumFunction(g) /\ DOMAIN f = S
  BY DEF Total, Squares
<1> HIDE DEF f, g
<1>4. SumFunction(f) \in Nat
  BY <1>1, SumNat
<1>5. SumFunction(g) \in Nat
  BY <1>1, <1>2, SumNat
<1>6. S = {} => SumFunction(f) = 0
  BY <1>3, SumEmpty
<1> QED
  BY <1>3, <1>4, <1>5, <1>6

\* So are the totals of the pieces, and they add up.
LEMMA TotalParts ==
  ASSUME NEW D, NEW Q, NEW P, Pieces(P, D, Q), Naturals(Q)
  PROVE  /\ \A s \in D : Naturals(P[s])
         /\ Totals(P, D) \in [D -> Nat] /\ SumFunction(Totals(P, D)) = Total(Q)
         /\ SquareSums(P, D) \in [D -> Nat] /\ SumFunction(SquareSums(P, D)) = Squares(Q)
<1> DEFINE w == [r \in Q |-> table[r].v]
           z == [r \in Q |-> table[r].v * table[r].v]
<1>1. \A s \in D : P[s] \in SUBSET Q /\ IsFiniteSet(P[s])
  BY PieceFinite
<1>2. \A s \in D : Naturals(P[s])
  BY <1>1 DEF Naturals
<1>3. Totals(P, D) \in [D -> Nat] /\ SquareSums(P, D) \in [D -> Nat]
  BY <1>2, TotalFacts DEF Totals, SquareSums
<1>4. w \in [Q -> Int] /\ z \in [Q -> Int]
  <2>1. \A x \in Nat : x * x \in Int
    OBVIOUS
  <2> QED
    BY <2>1 DEF Naturals
<1>5. ASSUME NEW s \in D PROVE SumPart(w, P[s]) = Total(P[s]) /\ SumPart(z, P[s]) = Squares(P[s])
  <2>1. [r \in P[s] |-> w[r]] = [r \in P[s] |-> table[r].v]
    BY <1>1
  <2>2. [r \in P[s] |-> z[r]] = [r \in P[s] |-> table[r].v * table[r].v]
    BY <1>1
  <2> HIDE DEF w, z
  <2> QED
    BY <2>1, <2>2 DEF SumPart, Total, Squares
<1>6. Total(Q) = SumFunction(w) /\ Squares(Q) = SumFunction(z)
  BY DEF Total, Squares
<1> HIDE DEF w, z
<1>7. SumFunction(w) = SumFunction(SumsOfPieces(w, P, D))
  BY <1>4, SumParts
<1>8. SumFunction(z) = SumFunction(SumsOfPieces(z, P, D))
  BY <1>4, SumParts
<1>9. SumsOfPieces(w, P, D) = Totals(P, D) /\ SumsOfPieces(z, P, D) = SquareSums(P, D)
  BY <1>5 DEF SumsOfPieces, Totals, SquareSums
<1> QED
  BY <1>2, <1>3, <1>6, <1>7, <1>8, <1>9

Partials(a, P, D) == [s \in D |-> Partial(a, P[s])]

\* What a partial and an aggregate hold, aggregate by aggregate.
LEMMA AggregateForms ==
  ASSUME NEW R
  PROVE  /\ Aggregate("count", R) = Cardinality(R)
         /\ Aggregate("countv", R) = Cardinality(Valued(R))
         /\ Aggregate("sum", R) = IF Valued(R) = {} THEN Null ELSE Total(Valued(R))
         /\ Aggregate("min", R) = IF Valued(R) = {} THEN Null ELSE Min({table[r].v : r \in Valued(R)})
         /\ Aggregate("max", R) = IF Valued(R) = {} THEN Null ELSE Max({table[r].v : r \in Valued(R)})
         /\ Aggregate("avg", R) = IF Valued(R) = {} THEN Null
                                  ELSE (Unit * Total(Valued(R))) \div Cardinality(Valued(R))
<1>1. Aggregate("count", R) = Cardinality(R)
  BY DEF Aggregate
<1>2. Aggregate("countv", R) = Cardinality(Valued(R))
  BY DEF Aggregate
<1>3. Aggregate("sum", R) = IF Valued(R) = {} THEN Null ELSE OfValues("sum", Valued(R))
  BY DEF Aggregate
<1>4. Aggregate("min", R) = IF Valued(R) = {} THEN Null ELSE OfValues("min", Valued(R))
  BY DEF Aggregate
<1>5. Aggregate("max", R) = IF Valued(R) = {} THEN Null ELSE OfValues("max", Valued(R))
  BY DEF Aggregate
<1>6. Aggregate("avg", R) = IF Valued(R) = {} THEN Null ELSE OfValues("avg", Valued(R))
  BY DEF Aggregate
<1>7. /\ OfValues("sum", Valued(R)) = Total(Valued(R))
      /\ OfValues("min", Valued(R)) = Min({table[r].v : r \in Valued(R)})
      /\ OfValues("max", Valued(R)) = Max({table[r].v : r \in Valued(R)})
      /\ OfValues("avg", Valued(R)) = (Unit * Total(Valued(R))) \div Cardinality(Valued(R))
  BY DEF OfValues, Opaque
<1> QED
  BY <1>1, <1>2, <1>3, <1>4, <1>5, <1>6, <1>7

\* The merged counts.
LEMMA CountMerge ==
  ASSUME NEW D, NEW Q, NEW P, Pieces(P, D, Q), Typed(Q), D # {}
  PROVE  /\ Merge("count", Partials("count", P, D)) = Aggregate("count", Q)
         /\ Merge("countv", Partials("countv", P, D)) = Aggregate("countv", Q)
<1> DEFINE VP == ValuedParts(P, D)
<1>1. Partials("count", P, D) = Counts(P, D)
  BY AggregateForms DEF Partials, Partial, Counts
<1>2. Partials("countv", P, D) = Counts(VP, D)
  BY AggregateForms DEF Partials, Partial, Counts, ValuedParts
<1>3. Pieces(VP, D, Valued(Q)) /\ IsFiniteSet(D)
  BY ValuedPieces DEF Pieces
<1> HIDE DEF VP
<1>4. Counts(P, D) \in [D -> Nat] /\ SumFunction(Counts(P, D)) = Cardinality(Q)
  BY CountParts
<1>5. Counts(VP, D) \in [D -> Nat] /\ SumFunction(Counts(VP, D)) = Cardinality(Valued(Q))
  BY <1>3, CountParts
<1>6. SumOf(Counts(P, D)) = Cardinality(Q)
  BY <1>3, <1>4, SumOfKnown
<1>7. SumOf(Counts(VP, D)) = Cardinality(Valued(Q))
  BY <1>3, <1>5, SumOfKnown
<1>8. \A p : Merge("count", p) = SumOf(p) /\ Merge("countv", p) = SumOf(p)
  BY DEF Merge
<1> QED
  BY <1>1, <1>2, <1>6, <1>7, <1>8, AggregateForms

\* The total of every piece, null without a value.
SumPartials(VP, D) == [s \in D |-> IF VP[s] = {} THEN Null ELSE Total(VP[s])]
\* The known totals of the pieces add up to the total of all.
LEMMA KnownTotals ==
  ASSUME NEW D, NEW V, NEW VP, Pieces(VP, D, V), Naturals(V)
  PROVE  SumOf(SumPartials(VP, D)) = IF V = {} THEN Null ELSE Total(V)
<1> DEFINE p == SumPartials(VP, D)
           known == {s \in D : VP[s] # {}}
           f == Totals(VP, D)
<1>1. /\ \A s \in D : Naturals(VP[s])
      /\ f \in [D -> Nat] /\ SumFunction(f) = Total(V) /\ \A s \in D : f[s] = Total(VP[s])
  BY TotalParts DEF Totals
<1>2. \A s \in D : Total(VP[s]) \in Nat /\ (VP[s] = {} => Total(VP[s]) = 0)
  BY <1>1, TotalFacts
<1>3. DOMAIN p = D /\ \A s \in D : p[s] = IF VP[s] = {} THEN Null ELSE Total(VP[s])
  BY DEF SumPartials
<1> HIDE DEF p, f
<1>4. {s \in DOMAIN p : p[s] # Null} = known
  BY <1>2, <1>3 DEF Null
<1>5. (known = {}) = (V = {})
  BY DEF Pieces
<1>6. [s \in known |-> p[s]] = [s \in known |-> f[s]]
  BY <1>1, <1>3
<1>7. SumFunction(f) = SumFunction([s \in known |-> f[s]])
  <2>1. IsFiniteSet(D) /\ f \in [D -> Int] /\ known \in SUBSET D /\ \A s \in D \ known : f[s] = 0
    BY <1>1, <1>2 DEF Pieces
  <2> HIDE DEF known
  <2> QED
    BY <2>1, SumSupport
<1> HIDE DEF known
<1>8. SumOf(p) = IF known = {} THEN Null ELSE SumFunction([s \in known |-> p[s]])
  BY <1>4 DEF SumOf
<1> QED
  BY <1>1, <1>5, <1>6, <1>7, <1>8 DEF p

\* The valued rows of a typed set.
LEMMA ValuedNaturals ==
  ASSUME NEW D, NEW Q, NEW P, Pieces(P, D, Q), Typed(Q)
  PROVE  Pieces(ValuedParts(P, D), D, Valued(Q)) /\ Naturals(Valued(Q))
  BY ValuedPieces, ValuedFacts DEF Naturals

\* The merged sums and averages.
LEMMA SumMerge ==
  ASSUME NEW D, NEW Q, NEW P, Pieces(P, D, Q), Typed(Q), D # {}
  PROVE  /\ Merge("sum", Partials("sum", P, D)) = Aggregate("sum", Q)
         /\ Merge("avg", Partials("avg", P, D)) = Aggregate("avg", Q)
<1> DEFINE VP == ValuedParts(P, D)
           V == Valued(Q)
           pa == Partials("avg", P, D)
<1>1. Partials("sum", P, D) = SumPartials(VP, D)
  BY AggregateForms DEF Partials, Partial, SumPartials, ValuedParts
<1>2. /\ DOMAIN pa = D
      /\ \A s \in D : pa[s].sum = Partials("sum", P, D)[s] /\ pa[s].cnt = Counts(VP, D)[s]
  BY DEF Partials, Partial, Counts, ValuedParts
<1>3. [s \in DOMAIN pa |-> pa[s].sum] = SumPartials(VP, D)
  <2>1. Partials("sum", P, D) = [s \in D |-> Partials("sum", P, D)[s]]
    BY DEF Partials
  <2> HIDE DEF pa
  <2> QED
    BY <1>1, <1>2, <2>1
<1>4. [s \in DOMAIN pa |-> pa[s].cnt] = Counts(VP, D)
  <2>1. Counts(VP, D) = [s \in D |-> Counts(VP, D)[s]]
    BY DEF Counts
  <2> HIDE DEF pa
  <2> QED
    BY <1>2, <2>1
<1>5. Pieces(VP, D, V) /\ Naturals(V) /\ IsFiniteSet(D)
  BY ValuedNaturals DEF Pieces
<1>6. Cardinality(V) \in Nat /\ (Cardinality(V) = 0) = (V = {})
  BY ValuedFacts
<1> HIDE DEF VP, V, pa
<1>7. SumOf(SumPartials(VP, D)) = IF V = {} THEN Null ELSE Total(V)
  BY <1>5, KnownTotals
<1>8. SumOf(Counts(VP, D)) = Cardinality(V)
  BY <1>5, CountParts, SumOfKnown
<1>9. Merge("sum", Partials("sum", P, D)) = SumOf(SumPartials(VP, D))
  BY <1>1 DEF Merge
<1>10. Merge("avg", pa) = IF Cardinality(V) = 0 THEN Null
                          ELSE (Unit * SumOf(SumPartials(VP, D))) \div Cardinality(V)
  BY <1>3, <1>4, <1>8 DEF Merge
<1>11. Merge("sum", Partials("sum", P, D)) = Aggregate("sum", Q)
  BY <1>7, <1>9, AggregateForms DEF V
<1>12. Merge("avg", pa) = Aggregate("avg", Q)
  <2>1. Aggregate("avg", Q) = IF V = {} THEN Null ELSE (Unit * Total(V)) \div Cardinality(V)
    BY AggregateForms DEF V
  <2> QED
    BY <1>6, <1>7, <1>10, <2>1
<1> QED
  BY <1>11, <1>12 DEF pa

\* The least of a set of naturals.
LEMMA MinIs ==
  ASSUME NEW S \in SUBSET Nat, NEW m \in S, \A y \in S : m <= y
  PROVE  Min(S) = m
<1>1. Min(S) \in S /\ \A y \in S : Min(S) <= y
  BY DEF Min
<1>2. Min(S) <= m /\ m <= Min(S) /\ m \in Nat /\ Min(S) \in Nat
  BY <1>1
<1> QED
  BY <1>2

\* The greatest of a set of naturals.
LEMMA MaxIs ==
  ASSUME NEW S \in SUBSET Nat, NEW m \in S, \A y \in S : m >= y
  PROVE  Max(S) = m
<1>1. Max(S) \in S /\ \A y \in S : Max(S) >= y
  BY DEF Max
<1>2. Max(S) >= m /\ m >= Max(S) /\ m \in Nat /\ Max(S) \in Nat
  BY <1>1
<1> QED
  BY <1>2

\* A least and a greatest value.
LEMMA ExtremeRows ==
  ASSUME NEW V, Naturals(V), V # {}
  PROVE  /\ \E r \in V : \A q \in V : table[r].v <= table[q].v
         /\ \E r \in V : \A q \in V : table[r].v >= table[q].v
<1> DEFINE up == [r \in V |-> table[r].v]
           down == [r \in V |-> -table[r].v]
<1>1. up \in [V -> Int] /\ down \in [V -> Int] /\ IsFiniteSet(V)
  BY DEF Naturals
<1>2. PICK r : IsGreatest(r, up, V)
  <2> HIDE DEF up
  <2> QED
    BY <1>1, FiniteGreatest
<1>3. PICK q : IsGreatest(q, down, V)
  <2> HIDE DEF down
  <2> QED
    BY <1>1, FiniteGreatest
<1>4. r \in V /\ \A x \in V : table[r].v >= table[x].v
  BY <1>2 DEF IsGreatest, Naturals
<1>5. q \in V /\ \A x \in V : table[q].v <= table[x].v
  BY <1>3 DEF IsGreatest, Naturals
<1> QED
  BY <1>4, <1>5

\* The least value of every piece, null without one.
MinPartials(VP, D) ==
    [s \in D |-> IF VP[s] = {} THEN Null ELSE Min({table[r].v : r \in VP[s]})]
\* The least of the pieces' least values is the least of all.
LEMMA LeastKnown ==
  ASSUME NEW D, NEW V, NEW VP, Pieces(VP, D, V), Naturals(V)
  PROVE  LeastOf(MinPartials(VP, D)) = IF V = {} THEN Null ELSE Min({table[r].v : r \in V})
<1> DEFINE p == MinPartials(VP, D)
           known == Range(p) \ {Null}
<1>1. \A s \in D : VP[s] \in SUBSET V /\ Naturals(VP[s])
  BY TotalParts DEF Pieces
<1>2. DOMAIN p = D /\ \A s \in D : p[s] = IF VP[s] = {} THEN Null
                                          ELSE Min({table[r].v : r \in VP[s]})
  BY DEF MinPartials
<1>3. LeastOf(p) = IF known = {} THEN Null ELSE Min(known)
  BY DEF LeastOf
<1>4. ASSUME NEW s \in D, VP[s] # {}
      PROVE  \E r \in VP[s] : p[s] = table[r].v /\ \A q \in VP[s] : table[r].v <= table[q].v
  <2> DEFINE S == {table[r].v : r \in VP[s]}
  <2>1. PICK r \in VP[s] : \A q \in VP[s] : table[r].v <= table[q].v
    BY <1>1, <1>4, ExtremeRows
  <2>2. S \in SUBSET Nat /\ table[r].v \in S /\ \A y \in S : table[r].v <= y
    BY <1>1, <2>1 DEF Naturals
  <2>3. p[s] = Min(S)
    BY <1>2, <1>4
  <2> HIDE DEF S, p
  <2>4. Min(S) = table[r].v
    BY <2>2, MinIs
  <2> QED
    BY <2>1, <2>3, <2>4
<1> HIDE DEF p
<1>5. CASE V = {}
  <2>1. \A s \in D : p[s] = Null
    BY <1>1, <1>2, <1>5
  <2>2. known = {}
    BY <1>2, <2>1 DEF Range
  <2> QED
    BY <1>3, <1>5, <2>2 DEF p
<1>6. CASE V # {}
  <2> DEFINE A == {table[r].v : r \in V}
  <2>1. PICK m \in V : \A q \in V : table[m].v <= table[q].v
    BY <1>6, ExtremeRows
  <2>2. PICK s \in D : m \in VP[s]
    BY DEF Pieces
  <2>3. PICK r \in VP[s] : p[s] = table[r].v /\ \A q \in VP[s] : table[r].v <= table[q].v
    BY <1>4, <2>2
  <2>4. table[m].v \in Nat /\ table[r].v \in Nat /\ r \in V
    BY <1>1, <2>2, <2>3 DEF Naturals
  <2>5. p[s] = table[m].v
    BY <2>1, <2>2, <2>3, <2>4
  <2>6. table[m].v \in known
    BY <1>2, <2>4, <2>5 DEF Range, Null
  <2>7. ASSUME NEW y \in known PROVE y \in Nat /\ table[m].v <= y
    <3>1. PICK t \in D : y = p[t] /\ p[t] # Null
      BY <1>2 DEF Range
    <3>2. VP[t] # {}
      BY <1>2, <3>1
    <3>3. PICK q \in VP[t] : p[t] = table[q].v
      BY <1>4, <3>2
    <3>4. q \in V
      BY <1>1, <3>3
    <3> QED
      BY <2>1, <3>1, <3>3, <3>4 DEF Naturals
  <2>8. known \in SUBSET Nat
    BY <2>7
  <2>9. Min(known) = table[m].v
    <3> HIDE DEF known
    <3> QED
      BY <2>6, <2>7, <2>8, MinIs
  <2>10. A \in SUBSET Nat /\ table[m].v \in A /\ \A y \in A : table[m].v <= y
    BY <2>1 DEF Naturals
  <2>11. Min(A) = table[m].v
    <3> HIDE DEF A
    <3> QED
      BY <2>10, MinIs
  <2> QED
    BY <1>3, <1>6, <2>6, <2>9, <2>11 DEF p
<1> QED
  BY <1>5, <1>6

\* The greatest value of every piece, null without one.
MaxPartials(VP, D) ==
    [s \in D |-> IF VP[s] = {} THEN Null ELSE Max({table[r].v : r \in VP[s]})]
\* The greatest of the pieces' greatest values is the greatest of all.
LEMMA GreatestKnown ==
  ASSUME NEW D, NEW V, NEW VP, Pieces(VP, D, V), Naturals(V)
  PROVE  GreatestOf(MaxPartials(VP, D)) = IF V = {} THEN Null ELSE Max({table[r].v : r \in V})
<1> DEFINE p == MaxPartials(VP, D)
           known == Range(p) \ {Null}
<1>1. \A s \in D : VP[s] \in SUBSET V /\ Naturals(VP[s])
  BY TotalParts DEF Pieces
<1>2. DOMAIN p = D /\ \A s \in D : p[s] = IF VP[s] = {} THEN Null
                                          ELSE Max({table[r].v : r \in VP[s]})
  BY DEF MaxPartials
<1>3. GreatestOf(p) = IF known = {} THEN Null ELSE Max(known)
  BY DEF GreatestOf
<1>4. ASSUME NEW s \in D, VP[s] # {}
      PROVE  \E r \in VP[s] : p[s] = table[r].v /\ \A q \in VP[s] : table[r].v >= table[q].v
  <2> DEFINE S == {table[r].v : r \in VP[s]}
  <2>1. PICK r \in VP[s] : \A q \in VP[s] : table[r].v >= table[q].v
    BY <1>1, <1>4, ExtremeRows
  <2>2. S \in SUBSET Nat /\ table[r].v \in S /\ \A y \in S : table[r].v >= y
    BY <1>1, <2>1 DEF Naturals
  <2>3. p[s] = Max(S)
    BY <1>2, <1>4
  <2> HIDE DEF S, p
  <2>4. Max(S) = table[r].v
    BY <2>2, MaxIs
  <2> QED
    BY <2>1, <2>3, <2>4
<1> HIDE DEF p
<1>5. CASE V = {}
  <2>1. \A s \in D : p[s] = Null
    BY <1>1, <1>2, <1>5
  <2>2. known = {}
    BY <1>2, <2>1 DEF Range
  <2> QED
    BY <1>3, <1>5, <2>2 DEF p
<1>6. CASE V # {}
  <2> DEFINE A == {table[r].v : r \in V}
  <2>1. PICK m \in V : \A q \in V : table[m].v >= table[q].v
    BY <1>6, ExtremeRows
  <2>2. PICK s \in D : m \in VP[s]
    BY DEF Pieces
  <2>3. PICK r \in VP[s] : p[s] = table[r].v /\ \A q \in VP[s] : table[r].v >= table[q].v
    BY <1>4, <2>2
  <2>4. table[m].v \in Nat /\ table[r].v \in Nat /\ r \in V
    BY <1>1, <2>2, <2>3 DEF Naturals
  <2>5. p[s] = table[m].v
    BY <2>1, <2>2, <2>3, <2>4
  <2>6. table[m].v \in known
    BY <1>2, <2>4, <2>5 DEF Range, Null
  <2>7. ASSUME NEW y \in known PROVE y \in Nat /\ table[m].v >= y
    <3>1. PICK t \in D : y = p[t] /\ p[t] # Null
      BY <1>2 DEF Range
    <3>2. VP[t] # {}
      BY <1>2, <3>1
    <3>3. PICK q \in VP[t] : p[t] = table[q].v
      BY <1>4, <3>2
    <3>4. q \in V
      BY <1>1, <3>3
    <3> QED
      BY <2>1, <3>1, <3>3, <3>4 DEF Naturals
  <2>8. known \in SUBSET Nat
    BY <2>7
  <2>9. Max(known) = table[m].v
    <3> HIDE DEF known
    <3> QED
      BY <2>6, <2>7, <2>8, MaxIs
  <2>10. A \in SUBSET Nat /\ table[m].v \in A /\ \A y \in A : table[m].v >= y
    BY <2>1 DEF Naturals
  <2>11. Max(A) = table[m].v
    <3> HIDE DEF A
    <3> QED
      BY <2>10, MaxIs
  <2> QED
    BY <1>3, <1>6, <2>6, <2>9, <2>11 DEF p
<1> QED
  BY <1>5, <1>6

\* The merged minima and maxima.
LEMMA ExtremeMerge ==
  ASSUME NEW D, NEW Q, NEW P, Pieces(P, D, Q), Typed(Q)
  PROVE  /\ Merge("min", Partials("min", P, D)) = Aggregate("min", Q)
         /\ Merge("max", Partials("max", P, D)) = Aggregate("max", Q)
<1> DEFINE VP == ValuedParts(P, D)
<1>1. Partials("min", P, D) = MinPartials(VP, D) /\ Partials("max", P, D) = MaxPartials(VP, D)
  <2>1. \A s \in D : Partial("min", P[s]) = Aggregate("min", P[s])
                    /\ Partial("max", P[s]) = Aggregate("max", P[s])
    BY DEF Partial
  <2>2. Partials("min", P, D) = MinPartials(VP, D)
    BY <2>1, AggregateForms DEF Partials, MinPartials, ValuedParts
  <2>3. Partials("max", P, D) = MaxPartials(VP, D)
    BY <2>1, AggregateForms DEF Partials, MaxPartials, ValuedParts
  <2> QED
    BY <2>2, <2>3
<1>2. Pieces(VP, D, Valued(Q)) /\ Naturals(Valued(Q))
  BY ValuedNaturals
<1> HIDE DEF VP
<1>3. \A p : Merge("min", p) = LeastOf(p) /\ Merge("max", p) = GreatestOf(p)
  BY DEF Merge
<1>4. LeastOf(MinPartials(VP, D)) = Aggregate("min", Q)
  BY <1>2, LeastKnown, AggregateForms
<1>5. GreatestOf(MaxPartials(VP, D)) = Aggregate("max", Q)
  BY <1>2, GreatestKnown, AggregateForms
<1> QED
  BY <1>1, <1>3, <1>4, <1>5

\* Unit is a multiple of n.
Divided(n) == \E q \in Nat : Unit = n * q
Mean(S) == (Unit * Total(S)) \div Cardinality(S)

\* A multiple of n, times t, is one again, and so is its square.
LEMMA SquaredProduct ==
  ASSUME NEW n \in Int, NEW q \in Int, NEW t \in Int
  PROVE  /\ (n * q) * t = n * (q * t)
         /\ (n * q) * (n * q) * t * t = n * (n * (q * t) * (q * t))
  OBVIOUS

\* A squared distance from the mean is linear in the value and its square.
LEMMA SquaredDifference ==
  ASSUME NEW u \in Int, NEW v \in Int, NEW m \in Int
  PROVE  (u * v - m) * (u * v - m) = (u * u) * (v * v) + ((-(2 * m * u)) * v + (m * m) * 1)
  OBVIOUS

\* The squared distances of n values with total t from their mean m add up so.
LEMMA AroundMean ==
  ASSUME NEW u \in Int, NEW t \in Int, NEW m \in Int, NEW n \in Int, NEW z \in Int, n * m = u * t
  PROVE  (u * u) * z + ((-(2 * m * u)) * t + (m * m) * n) = u * u * z - n * m * m
<1>1. (2 * m * u) * t = 2 * m * (u * t)
  OBVIOUS
<1>2. 2 * m * (n * m) = 2 * (n * m * m)
  OBVIOUS
<1>3. (-(2 * m * u)) * t = -((2 * m * u) * t)
  OBVIOUS
<1>4. (m * m) * n = n * m * m
  OBVIOUS
<1>5. (2 * m * u) * t = 2 * (n * m * m)
  BY <1>1, <1>2
<1> DEFINE a == n * m * m
           b == u * u * z
<1>6. a \in Int /\ b \in Int
  OBVIOUS
<1>7. (-(2 * m * u)) * t = -(2 * a) /\ (m * m) * n = a /\ (u * u) * z = b
  BY <1>3, <1>4, <1>5
<1> HIDE DEF a, b
<1>8. b + (-(2 * a) + a) = b - a
  BY <1>6
<1> QED
  BY <1>7, <1>8 DEF a, b

\* The mean in 1/Unit is exact, and the deviation is the sum of the squared
\* distances from it.
LEMMA MeanFacts ==
  ASSUME NEW S, Naturals(S), S # {}, Unit \in Nat, Divided(Cardinality(S))
  PROVE  /\ Cardinality(S) \in Nat \ {0} /\ Mean(S) \in Nat
         /\ Cardinality(S) * Mean(S) = Unit * Total(S)
         /\ Deviation(S) = Unit * Unit * Squares(S) - Cardinality(S) * Mean(S) * Mean(S)
         /\ Deviation(S) \in Nat
<1> DEFINE n == Cardinality(S)
           t == Total(S)
           z == Squares(S)
           m == Mean(S)
           u == Unit
<1>1. IsFiniteSet(S) /\ n \in Nat \ {0}
  BY FS_CardinalityType, FS_EmptySet DEF Naturals
<1>2. t \in Nat /\ z \in Nat
  BY TotalFacts
<1>3. PICK q \in Nat : u = n * q
  BY DEF Divided
<1>4. m = (u * t) \div n /\ Deviation(S) = u * u * z - (u * u * t * t) \div n
  BY DEF Mean, Deviation
<1> HIDE DEF n, t, z, m, u
<1>5. u * t = n * (q * t) /\ u * u * t * t = n * (n * (q * t) * (q * t))
  BY <1>1, <1>2, <1>3, SquaredProduct
<1> DEFINE e == q * t
           d == n * e * e
<1>6. e \in Nat /\ d \in Int
  BY <1>1, <1>2
<1>7. u * t = n * e /\ u * u * t * t = n * d
  BY <1>5
<1> HIDE DEF e, d
<1>8. (n * e) \div n = e /\ (n * d) \div n = d
  BY <1>1, <1>6, ExactDiv
<1>9. m = e /\ m \in Nat /\ n * m = u * t
  BY <1>4, <1>6, <1>7, <1>8
<1>10. Deviation(S) = u * u * z - n * m * m
  BY <1>4, <1>7, <1>8, <1>9 DEF d
<1> DEFINE f == [r \in S |-> table[r].v * table[r].v]
           g == [r \in S |-> table[r].v]
           h == [r \in S |-> 1]
           dev == [r \in S |-> (u * table[r].v - m) * (u * table[r].v - m)]
           a == u * u
           b == -(2 * m * u)
           c == m * m
<1>11. u \in Int /\ m \in Int /\ a \in Int /\ b \in Int /\ c \in Int
  BY <1>9 DEF u
<1>12. \A r \in S : table[r].v \in Int
  BY DEF Naturals
<1>13. Combination(dev, S, a, f, b, g, c, h)
  <2>1. f \in [S -> Int] /\ g \in [S -> Int] /\ h \in [S -> Int] /\ dev \in [S -> Int]
    <3>1. \A v \in Int : v * v \in Int /\ (u * v - m) * (u * v - m) \in Int
      BY <1>11
    <3> QED
      BY <1>12, <3>1
  <2>2. ASSUME NEW r \in S PROVE dev[r] = a * f[r] + (b * g[r] + c * h[r])
    <3>1. (u * table[r].v - m) * (u * table[r].v - m)
            = (u * u) * (table[r].v * table[r].v) + ((-(2 * m * u)) * table[r].v + (m * m) * 1)
      BY <1>11, <1>12, SquaredDifference
    <3> QED
      BY <3>1
  <2> HIDE DEF dev, f, g, h, a, b, c
  <2> QED
    BY <2>1, <2>2 DEF Combination
<1>14. dev \in [S -> Nat]
  <2>1. \A x \in Int : x * x \in Nat
    OBVIOUS
  <2>2. \A v \in Int : u * v - m \in Int
    BY <1>11
  <2> QED
    BY <1>12, <2>1, <2>2
<1>15. SumFunction(f) = z /\ SumFunction(g) = t /\ SumFunction(h) = n
  BY <1>1, CardinalityIsSum DEF Squares, Total, n, t, z
<1> HIDE DEF dev, f, g, h
<1>16. SumFunction(dev) \in Nat
  BY <1>1, <1>14, SumNat
<1>17. SumFunction(dev) = a * z + (b * t + c * n)
  <2> HIDE DEF a, b, c
  <2> QED
    BY <1>1, <1>11, <1>13, <1>15, SumLinear
<1>18. a * z + (b * t + c * n) = u * u * z - n * m * m
  BY <1>1, <1>2, <1>9, <1>11, AroundMean
<1> QED
  BY <1>1, <1>9, <1>10, <1>16, <1>17, <1>18 DEF n, m, t, z, u

\* What every shard of the pieces VP emits for a variance.
StatPartials(VP, D) ==
    [s \in D |-> [cnt |-> Cardinality(VP[s]),
                  mean |-> IF Cardinality(VP[s]) = 0 THEN Null ELSE Mean(VP[s]),
                  m2 |-> IF Cardinality(VP[s]) = 0 THEN Null ELSE Deviation(VP[s])]]

\* The distance of a part's mean from a shift, weighted, is linear in its total and size.
LEMMA ShiftedPart ==
  ASSUME NEW u \in Int, NEW t \in Int, NEW m \in Int, NEW n \in Int, NEW x \in Int, n * m = u * t
  PROVE  n * (m - x) = u * t + ((-x) * n + 0 * n)
  OBVIOUS

\* So it is for the whole.
LEMMA ShiftedWhole ==
  ASSUME NEW u \in Int, NEW t \in Int, NEW m \in Int, NEW n \in Int, NEW x \in Int, n * m = u * t
  PROVE  u * t + ((-x) * n + 0 * n) = n * (m - x)
  OBVIOUS

\* A part's deviation around the grand mean g is linear in its squares, total and size.
LEMMA MergedPart ==
  ASSUME NEW u \in Int, NEW t \in Int, NEW m \in Int, NEW n \in Int, NEW z \in Int, NEW g \in Int,
         n * m = u * t
  PROVE  (u * u * z - n * m * m) + n * (m - g) * (m - g)
           = (u * u) * z + ((-(2 * g * u)) * t + (g * g) * n)
<1>1. n * (m - g) * (m - g) = n * m * m - 2 * g * (n * m) + g * g * n
  OBVIOUS
<1>2. (-(2 * g * u)) * t = -(2 * g * (u * t))
  OBVIOUS
<1> DEFINE a == u * u * z
           b == n * m * m
           c == 2 * g * (u * t)
           d == g * g * n
<1>3. a \in Int /\ b \in Int /\ c \in Int /\ d \in Int
  OBVIOUS
<1>4. n * (m - g) * (m - g) = b - c + d /\ (-(2 * g * u)) * t = -c
  BY <1>1, <1>2
<1>5. (u * u) * z = a /\ (g * g) * n = d
  OBVIOUS
<1> HIDE DEF a, b, c, d
<1>6. (a - b) + (b - c + d) = a + (-c + d)
  BY <1>3
<1> QED
  BY <1>4, <1>5, <1>6 DEF a, b

\* Chan's merge of the pieces' counts, means and deviations is the deviation of
\* all.
LEMMA StatMerged ==
  ASSUME NEW D, NEW V, NEW VP, Pieces(VP, D, V), Naturals(V), D # {}, Unit \in Nat,
         V # {} => Divided(Cardinality(V)),
         \A s \in D : VP[s] # {} => Divided(Cardinality(VP[s])), NEW a
  PROVE  stat_merge(a, StatPartials(VP, D))
           = IF V = {} THEN Null
             ELSE IF a = "var_pop" THEN Deviation(V) \div Cardinality(V)
             ELSE IF Cardinality(V) = 1 THEN 0 ELSE Deviation(V) \div (Cardinality(V) - 1)
<1> DEFINE p == StatPartials(VP, D)
           N == Cardinality(V)
           n == SumOf([s \in DOMAIN p |-> p[s].cnt])
           full == {s \in DOMAIN p : p[s].cnt > 0}
           shift == LeastOf([s \in DOMAIN p |-> p[s].mean])
           A == [s \in full |-> p[s].cnt * (p[s].mean - shift)]
           gmean == shift + SumOf(A) \div n
           B == [s \in full |-> p[s].m2]
           C == [s \in full |-> p[s].cnt * (p[s].mean - gmean) * (p[s].mean - gmean)]
           m2 == SumOf(B) + SumOf(C)
<1>1. stat_merge(a, p) = IF n = 0 THEN Null
                         ELSE IF a = "var_pop" THEN m2 \div n
                         ELSE IF n = 1 THEN 0 ELSE m2 \div (n - 1)
  BY DEF stat_merge
<1>2. DOMAIN p = D
  BY DEF StatPartials
<1>3. ASSUME NEW s \in D
      PROVE  /\ p[s].cnt = Cardinality(VP[s])
             /\ p[s].mean = IF Cardinality(VP[s]) = 0 THEN Null ELSE Mean(VP[s])
             /\ p[s].m2 = IF Cardinality(VP[s]) = 0 THEN Null ELSE Deviation(VP[s])
  BY DEF StatPartials
<1>4. IsFiniteSet(D) /\ IsFiniteSet(V) /\ N \in Nat /\ (N = 0) = (V = {})
  <2>1. IsFiniteSet(D) /\ IsFiniteSet(V)
    BY DEF Pieces
  <2> QED
    BY <2>1, FS_CardinalityType, FS_EmptySet
<1>5. n = N
  <2>1. [s \in DOMAIN p |-> p[s].cnt] = Counts(VP, D)
    <3> HIDE DEF p
    <3> QED
      BY <1>2, <1>3 DEF Counts
  <2>2. Counts(VP, D) \in [D -> Nat] /\ SumFunction(Counts(VP, D)) = N
    BY CountParts
  <2>3. SumOf(Counts(VP, D)) = N
    BY <1>4, <2>2, SumOfKnown
  <2> QED
    BY <2>1, <2>3
<1>6. \A s \in D : VP[s] \in SUBSET V /\ Naturals(VP[s]) /\ IsFiniteSet(VP[s])
  BY TotalParts, PieceFinite
<1>7. full = {s \in D : VP[s] # {}}
  <2>1. \A s \in D : Cardinality(VP[s]) \in Nat /\ (Cardinality(VP[s]) = 0) = (VP[s] = {})
    BY <1>6, FS_CardinalityType, FS_EmptySet
  <2>2. \A s \in D : (p[s].cnt > 0) = (VP[s] # {})
    BY <1>3, <2>1
  <2> HIDE DEF p
  <2> QED
    BY <1>2, <2>2
<1>8. CASE V = {}
  BY <1>1, <1>4, <1>5, <1>8
<1>9. CASE V # {}
  <2> DEFINE u == Unit
             G == Mean(V)
  <2>0. full \in SUBSET D /\ IsFiniteSet(full) /\ full # {}
    <3>1. full \in SUBSET D /\ full # {}
      BY <1>7, <1>9 DEF Pieces
    <3> QED
      BY <1>4, <3>1, FS_Subset
  <2>1. Pieces(VP, full, V)
    <3>1. \A r \in V : \E s \in full : r \in VP[s]
      BY <1>7 DEF Pieces
    <3> QED
      BY <2>0, <3>1 DEF Pieces
  <2>2. ASSUME NEW s \in full
        PROVE  /\ p[s].cnt = Cardinality(VP[s]) /\ p[s].mean = Mean(VP[s])
               /\ p[s].m2 = Deviation(VP[s])
               /\ p[s].cnt \in Nat /\ p[s].mean \in Nat /\ p[s].m2 \in Nat
               /\ p[s].cnt * p[s].mean = u * Total(VP[s])
               /\ p[s].m2 = u * u * Squares(VP[s]) - p[s].cnt * p[s].mean * p[s].mean
    <3>1. s \in D /\ VP[s] # {}
      BY <1>7
    <3>2. Naturals(VP[s]) /\ Divided(Cardinality(VP[s]))
      BY <1>6, <3>1
    <3> HIDE DEF p, full
    <3>3. /\ Cardinality(VP[s]) \in Nat \ {0} /\ Mean(VP[s]) \in Nat
          /\ Cardinality(VP[s]) * Mean(VP[s]) = Unit * Total(VP[s])
          /\ Deviation(VP[s]) = Unit * Unit * Squares(VP[s])
                                  - Cardinality(VP[s]) * Mean(VP[s]) * Mean(VP[s])
          /\ Deviation(VP[s]) \in Nat
      BY <3>1, <3>2, MeanFacts
    <3>4. p[s].cnt = Cardinality(VP[s]) /\ p[s].mean = Mean(VP[s]) /\ p[s].m2 = Deviation(VP[s])
      BY <1>3, <3>1, <3>3
    <3> QED
      BY <3>3, <3>4
  <2>3. /\ N \in Nat \ {0} /\ G \in Nat /\ N * G = u * Total(V)
        /\ Deviation(V) = u * u * Squares(V) - N * G * G
    BY <1>9, MeanFacts
  <2>4. u \in Int /\ Total(V) \in Int /\ Squares(V) \in Int
    BY TotalFacts
  <2> DEFINE cs == Counts(VP, full)
             ts == Totals(VP, full)
             zs == SquareSums(VP, full)
  <2>5. cs \in [full -> Int] /\ SumFunction(cs) = N /\ \A s \in full : cs[s] = Cardinality(VP[s])
    <3> HIDE DEF full
    <3> QED
      BY <2>1, CountParts DEF Counts
  <2>6. /\ ts \in [full -> Int] /\ SumFunction(ts) = Total(V) /\ \A s \in full : ts[s] = Total(VP[s])
        /\ zs \in [full -> Int] /\ SumFunction(zs) = Squares(V)
        /\ \A s \in full : zs[s] = Squares(VP[s])
    <3> HIDE DEF full
    <3> QED
      BY <2>1, TotalParts DEF Totals, SquareSums
  <2>7. shift \in Nat /\ \A s \in full : shift <= p[s].mean
    <3> DEFINE f == [s \in DOMAIN p |-> p[s].mean]
               known == Range(f) \ {Null}
    <3>1. \A s \in D \ full : p[s].mean = Null
      <4>1. \A s \in D \ full : Cardinality(VP[s]) = 0
        BY <1>7, FS_EmptySet
      <4> HIDE DEF p, full
      <4> QED
        BY <1>3, <4>1
    <3> HIDE DEF p
    <3>2. \A x : x \in known <=> \E s \in full : x = p[s].mean
      <4> HIDE DEF full
      <4>1. \A s \in full : p[s].mean # Null /\ s \in D
        BY <2>0, <2>2 DEF Null
      <4>2. Range(f) = {p[s].mean : s \in D}
        BY <1>2 DEF Range
      <4> HIDE DEF f
      <4> QED
        BY <3>1, <4>1, <4>2
    <3> HIDE DEF full
    <3>3. shift = IF known = {} THEN Null ELSE Min(known)
      BY DEF LeastOf
    <3> HIDE DEF known, f, shift
    <3>4. known \in SUBSET Nat /\ known # {}
      <4>1. ASSUME NEW x \in known PROVE x \in Nat
        <5>1. PICK s \in full : x = p[s].mean
          BY <3>2
        <5> QED
          BY <2>2, <5>1
      <4>2. PICK s \in full : TRUE
        BY <2>0
      <4>3. p[s].mean \in known
        BY <3>2, <4>2
      <4> QED
        BY <4>1, <4>3
    <3>5. PICK x \in known : \A y \in known : x <= y
      BY <3>4, LeastNumber
    <3>6. Min(known) = x
      BY <3>4, <3>5, MinIs
    <3> QED
      BY <2>2, <3>2, <3>3, <3>4, <3>5, <3>6
  <2> HIDE DEF p, full, shift, n, N, G, u, cs, ts, zs
  <2>8. A \in [full -> Nat]
    <3>1. \A x, y \in Nat : x * y \in Nat
      OBVIOUS
    <3>2. \A s \in full : p[s].mean - shift \in Nat /\ p[s].cnt \in Nat
      BY <2>2, <2>7
    <3> QED
      BY <3>1, <3>2
  <2>9. SumFunction(A) = N * (G - shift)
    <3>1. ASSUME NEW s \in full PROVE A[s] = u * ts[s] + ((-shift) * cs[s] + 0 * cs[s])
      <4>1. p[s].cnt * (p[s].mean - shift) = u * ts[s] + ((-shift) * p[s].cnt + 0 * p[s].cnt)
        BY <2>2, <2>4, <2>6, <2>7, ShiftedPart
      <4> QED
        BY <2>2, <2>5, <4>1
    <3>2. Combination(A, full, u, ts, -shift, cs, 0, cs)
      <4>1. A \in [full -> Int]
        BY <2>8
      <4> HIDE DEF A
      <4> QED
        BY <2>5, <2>6, <3>1, <4>1 DEF Combination
    <3> HIDE DEF A
    <3>3. -shift \in Int /\ 0 \in Int
      BY <2>7
    <3>4. SumFunction(A) = u * SumFunction(ts) + ((-shift) * SumFunction(cs) + 0 * SumFunction(cs))
      BY <2>0, <2>4, <3>2, <3>3, SumLinear
    <3> QED
      BY <2>3, <2>4, <2>5, <2>6, <2>7, <3>4, ShiftedWhole
  <2>10. gmean = G
    <3> HIDE DEF A
    <3>1. SumOf(A) = N * (G - shift)
      BY <2>0, <2>8, <2>9, SumOfKnown
    <3>2. G - shift \in Int
      BY <2>3, <2>7
    <3>3. (N * (G - shift)) \div N = G - shift
      BY <2>3, <3>2, ExactDiv
    <3>4. gmean = shift + (N * (G - shift)) \div N
      BY <1>5, <3>1
    <3> HIDE DEF gmean
    <3> QED
      BY <2>3, <2>7, <3>3, <3>4
  <2> HIDE DEF A, gmean
  <2>11. B \in [full -> Nat] /\ C \in [full -> Nat]
    <3>1. B \in [full -> Nat]
      BY <2>2
    <3>2. \A x \in Nat, y \in Int : x * y * y \in Nat
      OBVIOUS
    <3>3. \A s \in full : p[s].mean - gmean \in Int /\ p[s].cnt \in Nat
      BY <2>2, <2>3, <2>10
    <3> QED
      BY <3>1, <3>2, <3>3
  <2> DEFINE BC == [s \in full |-> B[s] + C[s]]
             x == u * u
             y == -(2 * G * u)
             z == G * G
  <2>12. ASSUME NEW s \in full PROVE BC[s] = x * zs[s] + (y * ts[s] + z * cs[s])
    <3> DEFINE c == p[s].cnt
               m == p[s].mean
    <3>1. c \in Int /\ m \in Int /\ c * m = u * ts[s] /\ ts[s] \in Int /\ zs[s] \in Int /\ cs[s] = c
      BY <2>2, <2>5, <2>6
    <3>2. B[s] = u * u * zs[s] - c * m * m
      BY <2>2, <2>6
    <3>3. C[s] = c * (m - G) * (m - G)
      BY <2>10
    <3>4. BC[s] = B[s] + C[s]
      OBVIOUS
    <3> HIDE DEF c, m, B, C, BC
    <3>5. (u * u * zs[s] - c * m * m) + c * (m - G) * (m - G)
            = (u * u) * zs[s] + ((-(2 * G * u)) * ts[s] + (G * G) * c)
      <4> DEFINE tt == ts[s]
                 zz == zs[s]
      <4>1. /\ u \in Int /\ tt \in Int /\ m \in Int /\ c \in Int /\ zz \in Int /\ G \in Int
            /\ c * m = u * tt
        BY <2>3, <2>4, <3>1
      <4> HIDE DEF tt, zz
      <4>2. (u * u * zz - c * m * m) + c * (m - G) * (m - G)
              = (u * u) * zz + ((-(2 * G * u)) * tt + (G * G) * c)
        BY <4>1, MergedPart
      <4> QED
        BY <4>2 DEF tt, zz
    <3>6. BC[s] = (u * u) * zs[s] + ((-(2 * G * u)) * ts[s] + (G * G) * c)
      BY <3>2, <3>3, <3>4, <3>5
    <3>7. x = u * u /\ y = -(2 * G * u) /\ z = G * G
      OBVIOUS
    <3> HIDE DEF x, y, z
    <3> QED
      BY <3>1, <3>6, <3>7
  <2>13. x \in Int /\ y \in Int /\ z \in Int
    BY <2>3, <2>4
  <2>14. BC \in [full -> Int] /\ B \in [full -> Int] /\ C \in [full -> Int]
    <3> HIDE DEF B, C
    <3> QED
      BY <2>11
  <2> HIDE DEF B, C, x, y, z
  <2>15. SumOf(B) = SumFunction(B) /\ SumOf(C) = SumFunction(C)
    BY <2>0, <2>11, SumOfKnown
  <2>16. SumFunction(BC) = SumFunction(B) + SumFunction(C)
    BY <2>0, <2>14, SumAdd
  <2> HIDE DEF BC
  <2>17. Combination(BC, full, x, zs, y, ts, z, cs)
    BY <2>5, <2>6, <2>12, <2>14 DEF Combination
  <2>18. SumFunction(BC) = x * Squares(V) + (y * Total(V) + z * N)
    BY <2>0, <2>5, <2>6, <2>13, <2>17, SumLinear
  <2>19. x * Squares(V) + (y * Total(V) + z * N) = u * u * Squares(V) - N * G * G
    BY <2>3, <2>4, AroundMean DEF x, y, z
  <2>20. m2 = Deviation(V)
    BY <2>3, <2>15, <2>16, <2>18, <2>19
  <2> HIDE DEF m2
  <2> QED
    BY <1>1, <1>5, <1>9, <2>3, <2>20 DEF N, p
<1> QED
  BY <1>8, <1>9

\* The merge of the partials of all pieces is the aggregate over the whole.
LEMMA MergeAggregate ==
  ASSUME NEW D, NEW Q, NEW P, Pieces(P, D, Q), Typed(Q), D # {}, Unit \in Nat,
         \A n \in 1 .. Cardinality(Q) : Divided(n), NEW a \in Merging
  PROVE  Merge(a, Partials(a, P, D)) = Aggregate(a, Q)
<1>1. CASE a \in {"count", "countv"}
  BY <1>1, CountMerge
<1>2. CASE a \in {"sum", "avg"}
  BY <1>2, SumMerge
<1>3. CASE a \in {"min", "max"}
  BY <1>3, ExtremeMerge
<1>4. CASE a \in {"var_pop", "variance"}
  <2> DEFINE VP == ValuedParts(P, D)
             V == Valued(Q)
  <2>1. Partials(a, P, D) = StatPartials(VP, D)
    BY <1>4 DEF Partials, Partial, StatPartials, ValuedParts, Mean
  <2>2. Pieces(VP, D, V) /\ Naturals(V)
    BY ValuedNaturals
  <2>3. ASSUME NEW S \in SUBSET Q, S # {} PROVE Divided(Cardinality(S))
    <3>1. IsFiniteSet(Q)
      BY DEF Pieces
    <3>2. /\ IsFiniteSet(S) /\ Cardinality(S) \in Nat /\ Cardinality(Q) \in Nat
          /\ Cardinality(S) <= Cardinality(Q) /\ Cardinality(S) # 0
      BY <2>3, <3>1, FS_Subset, FS_CardinalityType, FS_EmptySet
    <3>3. Cardinality(S) \in 1 .. Cardinality(Q)
      BY <3>2
    <3> QED
      BY <3>3
  <2>4. V \in SUBSET Q
    BY ValuedFacts
  <2>5. ASSUME NEW s \in D, VP[s] # {} PROVE Divided(Cardinality(VP[s]))
    <3>1. VP[s] \in SUBSET Q
      BY <2>2, <2>4 DEF Pieces
    <3> QED
      BY <2>3, <2>5, <3>1
  <2> HIDE DEF VP, V
  <2>6. stat_merge(a, StatPartials(VP, D))
          = IF V = {} THEN Null
            ELSE IF a = "var_pop" THEN Deviation(V) \div Cardinality(V)
            ELSE IF Cardinality(V) = 1 THEN 0 ELSE Deviation(V) \div (Cardinality(V) - 1)
    BY <2>2, <2>3, <2>4, <2>5, StatMerged
  <2>7. Merge(a, StatPartials(VP, D)) = stat_merge(a, StatPartials(VP, D))
    BY <1>4 DEF Merge
  <2>8. Aggregate(a, Q) = IF V = {} THEN Null ELSE OfValues(a, V)
    BY <1>4 DEF Aggregate, V
  <2>9. OfValues(a, V) = IF a = "var_pop" THEN Deviation(V) \div Cardinality(V)
                         ELSE IF Cardinality(V) = 1 THEN 0
                         ELSE Deviation(V) \div (Cardinality(V) - 1)
    BY <1>4 DEF OfValues, Opaque
  <2> QED
    BY <2>1, <2>6, <2>7, <2>8, <2>9
<1> QED
  BY <1>1, <1>2, <1>3, <1>4 DEF Merging

\* An aggregate over typed rows is a number.
LEMMA AggregateInt ==
  ASSUME NEW R, Typed(R), Unit \in Nat, NEW a \in Aggregates
  PROVE  Aggregate(a, R) \in Int
<1> DEFINE V == Valued(R)
           W == {table[r].v : r \in V}
           n == Cardinality(V)
<1>1. /\ V \in SUBSET R /\ IsFiniteSet(V) /\ n \in Nat /\ (n = 0) = (V = {}) /\ Naturals(V)
  BY ValuedFacts DEF Naturals
<1>2. Total(V) \in Nat /\ Squares(V) \in Nat
  BY <1>1, TotalFacts
<1>3. IsFiniteSet(W)
  <2> DEFINE e == [r \in V |-> table[r].v]
  <2>1. W = {e[r] : r \in V}
    OBVIOUS
  <2> HIDE DEF e, W
  <2>2. DOMAIN e = V
    BY DEF e
  <2> QED
    BY <1>1, <2>1, <2>2, FiniteImage
<1>4. Cardinality(W) \in Int /\ Cardinality(R) \in Int
  BY <1>3, FS_CardinalityType DEF Typed
<1>5. ASSUME V # {} PROVE Min(W) \in Int /\ Max(W) \in Int
  <2>1. PICK r \in V : \A q \in V : table[r].v <= table[q].v
    BY <1>1, <1>5, ExtremeRows
  <2>2. PICK z \in V : \A q \in V : table[z].v >= table[q].v
    BY <1>1, <1>5, ExtremeRows
  <2>3. W \in SUBSET Nat
    BY <1>1 DEF Naturals
  <2>4. table[r].v \in W /\ \A y \in W : table[r].v <= y
    BY <2>1
  <2>5. table[z].v \in W /\ \A y \in W : table[z].v >= y
    BY <2>2
  <2> HIDE DEF W
  <2> QED
    <3>1. Min(W) = table[r].v
      BY <2>3, <2>4, MinIs
    <3>2. Max(W) = table[z].v
      BY <2>3, <2>5, MaxIs
    <3> QED
      <4>1. table[r].v \in Int /\ table[z].v \in Int
        BY <1>1 DEF Naturals
      <4> QED
        BY <3>1, <3>2, <4>1
<1>6. ASSUME V # {} PROVE Deviation(V) \in Int /\ (Unit * Total(V)) \div n \in Int
  <2> DEFINE x == Unit * Unit * Total(V) * Total(V)
             y == Unit * Unit * Squares(V)
             z == Unit * Total(V)
  <2>1. x \in Int /\ y \in Int /\ z \in Int /\ n \in Nat /\ n > 0
    BY <1>1, <1>2, <1>6
  <2>2. Deviation(V) = y - x \div n
    BY DEF Deviation
  <2> HIDE DEF x, y, z, n
  <2> QED
    BY <2>1, <2>2 DEF z
<1>7. ASSUME V # {} PROVE OfValues("var_pop", V) \in Int /\ OfValues("variance", V) \in Int
  <2> DEFINE d == Deviation(V)
  <2>1. d \in Int /\ n \in Nat /\ n > 0
    BY <1>1, <1>6, <1>7
  <2>2. /\ OfValues("var_pop", V) = d \div n
        /\ OfValues("variance", V) = IF n = 1 THEN 0 ELSE d \div (n - 1)
    BY DEF OfValues, Opaque
  <2> HIDE DEF d, n
  <2>3. d \div n \in Int /\ (n # 1 => d \div (n - 1) \in Int)
    BY <2>1
  <2> QED
    BY <2>2, <2>3
<1>8. ASSUME V # {}, a \in {"sum", "min", "max", "avg", "var_pop", "variance"} \cup Opaque
      PROVE  OfValues(a, V) \in Int
  <2>1. CASE a \in {"var_pop", "variance"}
    BY <1>7, <1>8, <2>1
  <2>2. CASE a \in {"sum"} \cup Opaque
    BY <1>2, <2>2 DEF OfValues, Opaque
  <2>3. CASE a = "min"
    BY <1>5, <1>8, <2>3 DEF OfValues, Opaque
  <2>4. CASE a = "max"
    BY <1>5, <1>8, <2>4 DEF OfValues, Opaque
  <2>5. CASE a = "avg"
    BY <1>6, <1>8, <2>5 DEF OfValues, Opaque
  <2> QED
    BY <1>8, <2>1, <2>2, <2>3, <2>4, <2>5
<1> HIDE DEF n
<1>9. CASE a \in {"count", "countv", "distinct", "distinct_expr"}
  BY <1>1, <1>4, <1>9 DEF Aggregate, n
<1>10. CASE a \in {"sum", "min", "max", "avg", "var_pop", "variance"} \cup Opaque
  <2>1. Aggregate(a, R) = IF V = {} THEN Null ELSE OfValues(a, V)
    BY <1>10 DEF Aggregate, Opaque
  <2> QED
    BY <1>8, <1>10, <2>1 DEF Null
<1> QED
  BY <1>9, <1>10 DEF Aggregates, Merging

-----------------------------------------------------------------------------
(* The answers made of merged partials                                     *)

\* What a shard emits for its groups.
GroupPartials(R) == [g \in GroupsOf(R) |-> [a \in Plans |-> Partial(a, RowsOf(g, R))]]

\* Some rows of the table are finitely many, typed, and in finitely many groups.
LEMMA SomeRows ==
  ASSUME IInv, NEW R \in SUBSET Rows
  PROVE  /\ IsFiniteSet(R) /\ Typed(R) /\ IsFiniteSet(GroupsOf(R)) /\ Unit \in Nat
         /\ \A n \in 1 .. Cardinality(R) : Divided(n)
         /\ \A g : RowsOf(g, R) \in SUBSET R
<1>1. IsFiniteSet(R)
  BY TableFacts, FS_Subset
<1>2. Typed(R)
  BY <1>1, TableFacts DEF Typed
<1>3. IsFiniteSet(GroupsOf(R))
  <2> DEFINE e == [r \in R |-> table[r].k]
             S == {e[r] : r \in R}
  <2>1. IsFiniteSet({Null})
    BY FS_Singleton
  <2>2. GroupsOf(R) = {Null} \/ GroupsOf(R) = S
    BY DEF GroupsOf
  <2>3. DOMAIN e = R
    OBVIOUS
  <2> HIDE DEF e
  <2>4. IsFiniteSet(S)
    BY <1>1, <2>3, FiniteImage
  <2> QED
    BY <2>1, <2>2, <2>4
<1>4. table \in Tables /\ Rows = DOMAIN table
  BY DEF IInv, Pruned, Rows
<1>5. Unit \in Nat /\ \A n \in 1 .. Cardinality(Rows) : \E q \in 0 .. Unit : Unit = n * q
  BY <1>4, TablesAssumption
<1>6. Cardinality(R) <= Cardinality(Rows) /\ Cardinality(R) \in Nat /\ Cardinality(Rows) \in Nat
  BY <1>1, TableFacts, FS_Subset, FS_CardinalityType
<1>7. ASSUME NEW n \in 1 .. Cardinality(R) PROVE Divided(n)
  <2>1. n \in 1 .. Cardinality(Rows)
    BY <1>6
  <2>2. PICK q \in 0 .. Unit : Unit = n * q
    BY <1>5, <2>1
  <2>3. q \in Nat
    BY <1>5
  <2> QED
    BY <2>2, <2>3 DEF Divided
<1>8. \A g : RowsOf(g, R) \in SUBSET R
  BY DEF RowsOf
<1> QED
  BY <1>1, <1>2, <1>3, <1>5, <1>7, <1>8

\* A scan that aggregates, over the matching rows of its shard.
Aggregating ==
    /\ plan.scan.kind \in {"groups", "partials"} /\ plan.scan.limit = NoLimit
    /\ plan.scan.filter = (request.filter # "none")
    /\ request.shape \in {"single", "group"} /\ shards # 0

\* Every shard emits the partials of all its groups.
LEMMA ShardGroups ==
  ASSUME IInv, stage = "answered", Aggregating, NEW s \in 1 .. shards
  PROVE  s \in DOMAIN emitted /\ emitted[s] = GroupPartials(ShardRows(s))
<1> DEFINE R == ShardRows(s)
           groups == GroupPartials(R)
           val == [g \in DOMAIN groups |-> <<>>]
<1>1. s \in DOMAIN emitted /\ emitted[s] \in ScanOutputs(s)
  BY DEF IInv, ScansAllowed, AnswerAllowed
<1>2. CASE plan.scan.kind = "partials"
  <2>1. ScanOutputs(s) = {groups}
    BY <1>2 DEF ScanOutputs, GroupPartials
  <2> QED
    BY <1>1, <2>1
<1>3. CASE plan.scan.kind = "groups"
  <2>1. ScanOutputs(s) = {[g \in ToSet(q) |-> groups[g]] : q \in Windows(val, <<>>, NoLimit, 0)}
    BY <1>3 DEF ScanOutputs, GroupPartials, Aggregating
  <2>2. DOMAIN groups = GroupsOf(R) /\ groups = [g \in GroupsOf(R) |-> groups[g]]
    BY DEF GroupPartials
  <2>3. IsFiniteSet(GroupsOf(R))
    BY TableFacts, SomeRows
  <2> HIDE DEF groups, R
  <2>4. DOMAIN val = GroupsOf(R)
    BY <2>2
  <2> HIDE DEF val
  <2>5. PICK q \in Windows(val, <<>>, NoLimit, 0) : emitted[s] = [g \in ToSet(q) |-> groups[g]]
    BY <1>1, <2>1
  <2>6. ToSet(q) = GroupsOf(R)
    BY <2>3, <2>4, <2>5, WholeWindow
  <2> QED
    BY <1>1, <2>2, <2>5, <2>6 DEF groups, R
<1> QED
  BY <1>2, <1>3 DEF Aggregating

\* The groups the shards emit are the groups of the matching rows.
LEMMA GroupsEmitted ==
  ASSUME IInv, stage = "answered", Aggregating
  PROVE  EmittedGroups = GroupsOf(Matching)
<1>1. DOMAIN emitted = 1 .. shards /\ shards \in Nat
  BY DEF IInv, AnswerAllowed, Pruned
<1>2. \A s \in 1 .. shards : DOMAIN emitted[s] = GroupsOf(ShardRows(s))
  BY ShardGroups DEF GroupPartials
<1>3. \A x : x \in EmittedGroups <=> \E s \in 1 .. shards : x \in GroupsOf(ShardRows(s))
  BY <1>1, <1>2 DEF EmittedGroups
<1>4. CASE request.shape = "single"
  <2>1. 1 \in 1 .. shards
    BY <1>1 DEF Aggregating
  <2>2. \A R : GroupsOf(R) = {Null}
    BY <1>4 DEF GroupsOf
  <2> QED
    BY <1>3, <2>1, <2>2
<1>5. CASE request.shape # "single"
  <2>1. \A R : GroupsOf(R) = {table[r].k : r \in R}
    BY <1>5 DEF GroupsOf
  <2>2. \A s : ShardRows(s) \subseteq Matching
    BY ShardsCover DEF Aggregating
  <2>3. ASSUME NEW r \in Matching PROVE \E s \in 1 .. shards : r \in ShardRows(s)
    BY ShardsCover DEF Aggregating
  <2>4. ASSUME NEW x \in EmittedGroups PROVE x \in GroupsOf(Matching)
    BY <1>3, <2>1, <2>2
  <2>5. ASSUME NEW x \in GroupsOf(Matching) PROVE x \in EmittedGroups
    <3>1. PICK r \in Matching : x = table[r].k
      BY <2>1
    <3>2. PICK s \in 1 .. shards : r \in ShardRows(s)
      BY <2>3
    <3> QED
      BY <1>3, <2>1, <3>1, <3>2
  <2> QED
    BY <2>4, <2>5
<1> QED
  BY <1>4, <1>5

\* Where a group's rows are: in the shards that emitted it, each in one.
PiecesOf(g) == [s \in {t \in DOMAIN emitted : g \in DOMAIN emitted[t]} |-> RowsOf(g, ShardRows(s))]

\* A group's merged value is its aggregate over the matching rows.
LEMMA MergedIs ==
  ASSUME IInv, stage = "answered", Aggregating, NEW g \in EmittedGroups, NEW a \in Plans
  PROVE  Merged(g, a) = Aggregate(a, RowsOf(g, Matching))
<1> DEFINE D == {t \in DOMAIN emitted : g \in DOMAIN emitted[t]}
           P == PiecesOf(g)
           Q == RowsOf(g, Matching)
<1>0. DOMAIN emitted = 1 .. shards /\ shards \in Nat
  BY DEF IInv, AnswerAllowed, Pruned
<1>1. \A s \in 1 .. shards : emitted[s] = GroupPartials(ShardRows(s))
  BY ShardGroups
<1>2. D \in SUBSET (1 .. shards) /\ D # {}
  BY <1>0 DEF EmittedGroups
<1>3. IsFiniteSet(D)
  <2>1. IsFiniteSet(1 .. shards)
    BY <1>0, FS_Interval
  <2> HIDE DEF D
  <2> QED
    BY <1>2, <2>1, FS_Subset
<1>4. \A s \in D : P[s] = RowsOf(g, ShardRows(s))
  BY DEF PiecesOf
<1>5. \A s \in D : emitted[s][g][a] = Partial(a, P[s])
  <2> SUFFICES ASSUME NEW s \in D PROVE emitted[s][g][a] = Partial(a, P[s])
    OBVIOUS
  <2>1. emitted[s] = GroupPartials(ShardRows(s)) /\ g \in DOMAIN emitted[s]
    BY <1>1, <1>2
  <2>2. g \in GroupsOf(ShardRows(s))
    BY <2>1 DEF GroupPartials
  <2>3. GroupPartials(ShardRows(s))[g][a] = Partial(a, RowsOf(g, ShardRows(s)))
    BY <2>2 DEF GroupPartials
  <2> HIDE DEF D, P
  <2> QED
    BY <1>4, <2>1, <2>3
<1>6. Matching \in SUBSET Rows /\ \A s : ShardRows(s) \subseteq Matching
  BY TableFacts, ShardsCover DEF Aggregating
<1>7. Pieces(P, D, Q)
  <2>1. \A s \in D : P[s] \in SUBSET Q
    <3>1. \A s \in D : P[s] = RowsOf(g, ShardRows(s)) /\ ShardRows(s) \subseteq Matching
      BY <1>4, <1>6
    <3> HIDE DEF P, D
    <3> QED
      BY <3>1 DEF RowsOf
  <2>2. ASSUME NEW r \in Q PROVE \E s \in D : r \in P[s]
    <3> DEFINE s == table[r].shard
    <3>1. r \in Matching /\ (request.shape = "single" \/ table[r].k = g)
      BY DEF RowsOf
    <3>2. s \in 1 .. shards /\ r \in ShardRows(s)
      BY <3>1, ShardsCover DEF Aggregating
    <3>3. g \in GroupsOf(ShardRows(s))
      <4>1. CASE request.shape = "single"
        BY <4>1, GroupsEmitted DEF GroupsOf
      <4>2. CASE request.shape # "single"
        BY <3>1, <3>2, <4>2 DEF GroupsOf
      <4> QED
        BY <4>1, <4>2
    <3>4. s \in D
      <4>1. DOMAIN emitted[s] = GroupsOf(ShardRows(s))
        BY <1>1, <3>2 DEF GroupPartials
      <4> QED
        BY <1>0, <3>2, <3>3, <4>1
    <3>5. r \in RowsOf(g, ShardRows(s))
      BY <3>1, <3>2 DEF RowsOf
    <3> HIDE DEF P, D, s
    <3> QED
      BY <1>4, <3>4, <3>5
  <2>3. \A s \in D : \A r \in P[s] : table[r].shard = s
    <3>1. \A s, r : r \in RowsOf(g, ShardRows(s)) => table[r].shard = s
      BY DEF RowsOf, ShardRows
    <3> HIDE DEF P, D
    <3> QED
      BY <1>4, <3>1
  <2>4. \A s, t \in D : \A r \in P[s] : r \in P[t] => s = t
    <3> HIDE DEF P, D
    <3> QED
      BY <2>3
  <2>5. IsFiniteSet(Q)
    BY <1>6, SomeRows
  <2> HIDE DEF P, D, Q
  <2> QED
    BY <1>3, <2>1, <2>2, <2>4, <2>5 DEF Pieces
<1>8. Typed(Q) /\ Unit \in Nat /\ \A n \in 1 .. Cardinality(Q) : Divided(n)
  <2>1. Q \in SUBSET Rows
    BY <1>6 DEF RowsOf
  <2> HIDE DEF Q
  <2> QED
    BY <2>1, SomeRows
<1>9. a \in Merging
  BY DEF Plans
<1>10. Merged(g, a) = Merge(a, Partials(a, P, D))
  <2>1. [s \in D |-> emitted[s][g][a]] = Partials(a, P, D)
    <3> HIDE DEF D, P
    <3> QED
      BY <1>5 DEF Partials
  <2> QED
    BY <2>1 DEF Merged
<1> HIDE DEF P, D, Q
<1> QED
  BY <1>2, <1>7, <1>8, <1>9, <1>10, MergeAggregate DEF Q

\* So the groups HAVING leaves and their values are the query's.
LEMMA MergedGroupsAre ==
  ASSUME IInv, stage = "answered", Aggregating, request.having # "none" => "count" \in Plans
  PROVE  /\ MergedGroups = NativeIds(Matching)
         /\ \A g \in MergedGroups, by \in Plans \cup {"k"} :
              MergedValue(g, by) = NativeValue(Matching, g, by)
         /\ \A g \in MergedGroups, a \in Plans :
              Merged(g, a) = Aggregate(a, RowsOf(g, Matching))
<1>1. EmittedGroups = GroupsOf(Matching) /\ request.shape # "rows"
  BY GroupsEmitted DEF Aggregating
<1>2. \A g \in EmittedGroups, a \in Plans : Merged(g, a) = Aggregate(a, RowsOf(g, Matching))
  BY MergedIs
<1>3. \A g \in EmittedGroups :
        (request.having = "none" \/ Merged(g, "count") >= 2) <=> GroupPasses(g, Matching)
  <2> SUFFICES ASSUME NEW g \in EmittedGroups, request.having # "none"
               PROVE  Merged(g, "count") = Cardinality(RowsOf(g, Matching))
    BY DEF GroupPasses
  <2> QED
    BY <1>2, AggregateForms
<1>4. MergedGroups = NativeIds(Matching)
  BY <1>1, <1>3 DEF MergedGroups, NativeIds
<1>5. \A g \in MergedGroups : g \in EmittedGroups
  BY DEF MergedGroups
<1>6. "k" \notin Plans
  BY DEF Plans, Merging
<1>7. ASSUME NEW g \in MergedGroups, NEW by \in Plans \cup {"k"}
      PROVE  MergedValue(g, by) = NativeValue(Matching, g, by)
  BY <1>1, <1>2, <1>5, <1>6 DEF MergedValue, NativeValue
<1> QED
  BY <1>2, <1>4, <1>5, <1>7

\* What the outer SELECT over partials may answer.
LEMMA MergeAnswers ==
  ASSUME IInv, stage = "answered", plan.outer.kind \in {"merge", "regroup"}
  PROVE  /\ answer.ids \in Windows(KeyValues(MergedGroups, plan.outer.order_by, MergedValue),
                                   plan.outer.order_by, plan.outer.limit, plan.outer.offset)
         /\ answer.items = [g \in MergedGroups |-> [a \in Plans |-> Merged(g, a)]]
<1> DEFINE W == Windows(KeyValues(MergedGroups, plan.outer.order_by, MergedValue),
                        plan.outer.order_by, plan.outer.limit, plan.outer.offset)
           items == [g \in MergedGroups |-> [a \in Plans |-> Merged(g, a)]]
<1>1. answer \in Answers
  BY DEF IInv, AnswerAllowed
<1>2. Answers = {Result(q, items) : q \in W}
  BY DEF Answers
<1> HIDE DEF W, items
<1>3. PICK q \in W : answer = Result(q, items)
  BY <1>1, <1>2
<1> QED
  BY <1>3 DEF Result, W, items

\* Their values are the query's.
LEMMA MergeItems ==
  ASSUME IInv, stage = "answered", Aggregating, plan.outer.kind \in {"merge", "regroup"},
         request.having # "none" => "count" \in Plans, Items \ {"k"} \subseteq Plans,
         NEW g \in MergedGroups, NEW a \in Items \ {"k"}
  PROVE  answer.items[g][a] = NativeItems(Matching)[g][a]
<1>1. answer.items = [x \in MergedGroups |-> [b \in Plans |-> Merged(x, b)]]
  BY MergeAnswers
<1>2. a \in Plans
  OBVIOUS
<1>3. answer.items[g][a] = Merged(g, a)
  BY <1>1, <1>2
<1>4. MergedGroups = NativeIds(Matching) /\ Merged(g, a) = Aggregate(a, RowsOf(g, Matching))
  BY <1>2, MergedGroupsAre
<1>5. NativeItems(Matching)
        = [x \in NativeIds(Matching) |-> [b \in ToSet(request.items) \ {"k"} |->
             Aggregate(b, RowsOf(x, Matching))]]
  BY DEF NativeItems, Aggregating
<1>6. NativeItems(Matching)[g][a] = Aggregate(a, RowsOf(g, Matching))
  BY <1>4, <1>5 DEF Items
<1> QED
  BY <1>3, <1>4, <1>6

\* The sort keys' values of the query's rows or groups.
NativeKeys == [x \in NativeIds(Matching) |->
                 [i \in DOMAIN request.order_by |-> NativeValue(Matching, x, request.order_by[i].by)]]
\* A window over the query's ids with the query's values answers the query.
LEMMA GroupQuery ==
  ASSUME IsWindow(answer.ids, NativeKeys, request.order_by, request.limit, request.offset),
         \A i \in DOMAIN answer.ids : \A a \in Items \ {"k"} :
            answer.items[answer.ids[i]][a] = NativeItems(Matching)[answer.ids[i]][a]
  PROVE  AnswerIsTheQuery
  BY DEF AnswerIsTheQuery, KeyValues, NativeKeys, Matching

\* The regrouped partials.
LEMMA GroupedAnswer ==
  ASSUME IInv, stage = "answered", plan = GroupedPlan, classify_request_shape = "Grouped",
         request.shape = "group", shards # 0
  PROVE  AnswerIsTheQuery
<1> DEFINE ob == request.order_by
           val == KeyValues(MergedGroups, ob, MergedValue)
<1>1. GroupDecomposes /\ GroupedOrderByResolves /\ HavingOverMerge
  BY DEF classify_request_shape
<1>2. /\ Aggregating /\ plan.outer.kind = "regroup" /\ plan.outer.order_by = ob
      /\ plan.outer.limit = request.limit /\ plan.outer.offset = request.offset
  BY DEF GroupedPlan, Scan, Outer, Aggregating
<1>3. /\ request.having # "none" => "count" \in Plans
      /\ Items \ {"k"} \subseteq Plans /\ SortedBy \subseteq Plans \cup {"k"}
  BY <1>1 DEF HavingOverMerge, GroupDecomposes, GroupedOrderByResolves, Plans
<1>4. answer.ids \in Windows(val, ob, request.limit, request.offset)
  BY <1>2, MergeAnswers
<1>5. val = NativeKeys
  <2>1. \A i \in DOMAIN ob : ob[i].by \in Plans \cup {"k"}
    BY <1>3 DEF SortedBy
  <2>2. MergedGroups = NativeIds(Matching)
    BY <1>2, <1>3, MergedGroupsAre
  <2>3. \A g \in MergedGroups, i \in DOMAIN ob :
          MergedValue(g, ob[i].by) = NativeValue(Matching, g, ob[i].by)
    BY <1>2, <1>3, <2>1, MergedGroupsAre
  <2>4. \A g \in MergedGroups : [i \in DOMAIN ob |-> MergedValue(g, ob[i].by)]
                                  = [i \in DOMAIN ob |-> NativeValue(Matching, g, ob[i].by)]
    BY <2>3
  <2> QED
    BY <2>2, <2>4 DEF KeyValues, NativeKeys
<1>6. DOMAIN val = MergedGroups
  BY DEF KeyValues
<1> HIDE DEF val
<1>7. IsWindow(answer.ids, val, ob, request.limit, request.offset)
  BY <1>4 DEF Windows
<1>8. ToSet(answer.ids) \subseteq MergedGroups
  BY <1>6, <1>7 DEF IsWindow
<1>9. \A i \in DOMAIN answer.ids : answer.ids[i] \in MergedGroups
  BY <1>8 DEF ToSet
<1> QED
  BY <1>2, <1>3, <1>5, <1>7, <1>9, MergeItems, GroupQuery

\* A window over one element at most does not depend on the order.
LEMMA OneElement ==
  ASSUME NEW c, NEW S \in SUBSET {c}, NEW val, DOMAIN val = S, NEW old, DOMAIN old = S,
         NEW keys, Ranked(val, S, keys), NEW others, NEW limit, Limit(limit),
         NEW q \in Windows(old, others, limit, 0)
  PROVE  IsWindow(q, val, keys, limit, 0)
<1> DEFINE n == WindowSize(Cardinality(S), limit, 0)
<1>1. IsFiniteSet(S) /\ Cardinality(S) \in {0, 1}
  <2>1. S = {} \/ S = {c}
    OBVIOUS
  <2>2. IsFiniteSet(S)
    BY DEF Ranked
  <2>3. Cardinality({}) = 0 /\ Cardinality({c}) = 1
    BY FS_EmptySet, FS_Singleton
  <2> QED
    BY <2>1, <2>2, <2>3
<1>2. n \in {0, 1}
  BY <1>1 DEF WindowSize, Limit, NoLimit
<1>3. /\ q \in [1 .. n -> S] /\ IsInjective(q) /\ Len(q) = n
      /\ ToSet(q) \subseteq S
  <2>1. IsWindow(q, old, others, limit, 0)
    BY DEF Windows
  <2>2. Len(q) = n /\ IsInjective(q) /\ ToSet(q) \subseteq S
    BY <2>1 DEF IsWindow
  <2>3. q \in [1 .. n -> S]
    BY DEF Windows
  <2> QED
    BY <2>2, <2>3
<1> HIDE DEF n
<1>4. ASSUME NEW i \in DOMAIN q
      PROVE  /\ Cardinality({x \in DOMAIN val : Precedes(val[x], val[q[i]], keys)}) < 0 + i
             /\ Cardinality({x \in DOMAIN val : ~Precedes(val[q[i]], val[x], keys)}) >= 0 + i
  <2>1. i = 1 /\ q[i] = c /\ S = {c}
    BY <1>2, <1>3
  <2>2. ~Precedes(val[c], val[c], keys)
    <3>1. val[c] \in [DOMAIN keys -> Int] /\ Ordering(keys)
      BY <2>1 DEF Ranked
    <3> QED
      BY <3>1, Irreflexive
  <2>3. {x \in DOMAIN val : Precedes(val[x], val[q[i]], keys)} = {}
    BY <2>1, <2>2
  <2>4. {x \in DOMAIN val : ~Precedes(val[q[i]], val[x], keys)} = {c}
    BY <2>1, <2>2
  <2>5. Cardinality({}) = 0 /\ Cardinality({c}) = 1
    BY FS_EmptySet, FS_Singleton
  <2> QED
    BY <2>1, <2>3, <2>4, <2>5
<1> QED
  BY <1>3, <1>4 DEF IsWindow, n

\* A single group has at most one row, and its sort keys are numbers.
LEMMA SingleKeys ==
  ASSUME IInv, request.shape = "single"
  PROVE  /\ NativeIds(Matching) \in SUBSET {Null} /\ DOMAIN NativeKeys = NativeIds(Matching)
         /\ Ranked(NativeKeys, NativeIds(Matching), request.order_by)
         /\ Limit(request.limit) /\ request.offset = 0
<1> DEFINE ob == request.order_by
           S == NativeIds(Matching)
<1>1. S \in SUBSET {Null}
  BY DEF NativeIds, GroupsOf
<1>2. IsFiniteSet(S)
  <2>1. IsFiniteSet({Null})
    BY FS_Singleton
  <2> QED
    BY <1>1, <2>1, FS_Subset
<1>3. /\ Ordering(ob) /\ Limit(request.limit) /\ request.offset = 0
      /\ \A i \in DOMAIN ob : ob[i].by \in Aggregates
  BY RequestsAssumption DEF IInv, Pruned, Ordering, Limit
<1>4. ASSUME NEW x \in S, NEW i \in DOMAIN ob PROVE NativeValue(Matching, x, ob[i].by) \in Int
  <2>1. ob[i].by \in Aggregates /\ ob[i].by # "k"
    BY <1>3 DEF Aggregates, Merging, Opaque
  <2>2. NativeValue(Matching, x, ob[i].by) = Aggregate(ob[i].by, Matching)
    BY <2>1 DEF NativeValue, RowsOf
  <2>3. Typed(Matching) /\ Unit \in Nat
    BY TableFacts, SomeRows
  <2> QED
    BY <2>1, <2>2, <2>3, AggregateInt
<1>5. NativeKeys \in [S -> [DOMAIN ob -> Int]]
  BY <1>4 DEF NativeKeys
<1> QED
  BY <1>1, <1>2, <1>3, <1>5 DEF Ranked

\* The merged partials of a single group.
LEMMA SingleAnswer ==
  ASSUME IInv, stage = "answered", plan = SingleGroupPlan,
         classify_request_shape = "SingleGroupAgg", request.shape = "single", ~has_distinct,
         shards # 0
  PROVE  AnswerIsTheQuery
<1> DEFINE val == KeyValues(MergedGroups, <<>>, MergedValue)
<1>1. SingleGroupDecomposes
  BY DEF classify_request_shape
<1>2. /\ Aggregating /\ plan.outer.kind = "merge" /\ plan.outer.order_by = <<>>
      /\ plan.outer.limit = request.limit /\ plan.outer.offset = 0
  BY DEF SingleGroupPlan, Scan, Outer, Aggregating
<1>3. request.having # "none" => "count" \in Plans
  BY <1>1 DEF SingleGroupDecomposes, HavingOverMerge
<1>4. Items \ {"k"} \subseteq Plans
  <2>1. Items \subseteq Aggregates
    BY RequestsAssumption DEF IInv, Pruned, Items
  <2> QED
    BY <1>1, <2>1 DEF SingleGroupDecomposes, has_distinct, Plans, Aggregates
<1>5. answer.ids \in Windows(val, <<>>, request.limit, 0)
  BY <1>2, MergeAnswers
<1>6. DOMAIN val = NativeIds(Matching) /\ MergedGroups = NativeIds(Matching)
  BY <1>2, <1>3, MergedGroupsAre DEF KeyValues
<1> HIDE DEF val
<1>7. IsWindow(answer.ids, NativeKeys, request.order_by, request.limit, 0)
  BY <1>5, <1>6, SingleKeys, OneElement
<1>8. request.offset = 0 /\ DOMAIN NativeKeys = MergedGroups
  BY <1>6, SingleKeys
<1>9. \A i \in DOMAIN answer.ids : answer.ids[i] \in MergedGroups
  BY <1>7, <1>8 DEF IsWindow, ToSet
<1> QED
  BY <1>2, <1>3, <1>4, <1>7, <1>8, <1>9, MergeItems, GroupQuery

\* The distinct values of the shards together are those of the matching rows.
LEMMA DistinctValues ==
  ASSUME IInv, stage = "answered", plan.scan.kind = "distinct",
         plan.scan.filter = (request.filter # "none")
  PROVE  (UNION {emitted[s] : s \in DOMAIN emitted}) = {table[r].v : r \in Valued(Matching)}
<1>1. DOMAIN emitted = 1 .. shards
  BY DEF IInv, AnswerAllowed
<1>2. \A s \in 1 .. shards : emitted[s] = {table[r].v : r \in Valued(ShardRows(s))}
  <2> SUFFICES ASSUME NEW s \in 1 .. shards
               PROVE  emitted[s] = {table[r].v : r \in Valued(ShardRows(s))}
    OBVIOUS
  <2>1. emitted[s] \in ScanOutputs(s)
    BY <1>1 DEF IInv, ScansAllowed
  <2>2. ScanOutputs(s) = {{table[r].v : r \in Valued(ShardRows(s))}}
    BY DEF ScanOutputs
  <2> QED
    BY <2>1, <2>2
<1>3. \A s : ShardRows(s) \subseteq Matching
  BY ShardsCover
<1>4. \A r \in Matching : \E s \in 1 .. shards : r \in ShardRows(s)
  BY ShardsCover
<1>5. \A s : Valued(ShardRows(s)) \subseteq Valued(Matching)
  BY <1>3 DEF Valued
<1>6. \A r \in Valued(Matching) : \E s \in 1 .. shards : r \in Valued(ShardRows(s))
  BY <1>4 DEF Valued
<1>7. ASSUME NEW x PROVE (x \in UNION {emitted[s] : s \in DOMAIN emitted})
                           <=> \E r \in Valued(Matching) : x = table[r].v
  <2>1. (x \in UNION {emitted[s] : s \in DOMAIN emitted})
          <=> \E s \in 1 .. shards : \E r \in Valued(ShardRows(s)) : x = table[r].v
    BY <1>1, <1>2
  <2> QED
    BY <1>5, <1>6, <2>1
<1> QED
  BY <1>7

\* A lone COUNT(DISTINCT column).
LEMMA DistinctAnswer ==
  ASSUME IInv, stage = "answered", plan = CountDistinctPlan,
         classify_request_shape = "SingleGroupAgg", request.shape = "single",
         request.items = <<"distinct">>
  PROVE  AnswerIsTheQuery
<1> DEFINE val == [x \in {Null} |-> [i \in DOMAIN <<>> |-> Null]]
           values == UNION {emitted[s] : s \in DOMAIN emitted}
           items == [g \in {Null} |-> [a \in {"distinct"} |-> Cardinality(values)]]
           W == Windows(val, <<>>, request.limit, 0)
<1>1. Items = {"distinct"}
  BY DEF Items, ToSet
<1>2. NativeIds(Matching) = {Null}
  <2>1. request.having = "none"
    BY <1>1 DEF classify_request_shape, SingleGroupDecomposes, has_distinct
  <2> QED
    BY <2>1 DEF NativeIds, GroupsOf, GroupPasses
<1>3. /\ plan.scan.kind = "distinct" /\ plan.scan.filter = (request.filter # "none")
      /\ plan.outer.kind = "count_distinct" /\ plan.outer.order_by = <<>>
      /\ plan.outer.limit = request.limit /\ plan.outer.offset = 0
  BY DEF CountDistinctPlan, Scan, Outer
<1>4. answer \in Answers
  BY DEF IInv, AnswerAllowed
<1>5. Answers = {Result(q, items) : q \in W}
  BY <1>3 DEF Answers, KeyValues
<1>6. DOMAIN val = {Null}
  OBVIOUS
<1>7. items[Null]["distinct"] = Cardinality(values)
  OBVIOUS
<1> HIDE DEF W, items, values
<1>8. PICK q \in W : answer = Result(q, items)
  BY <1>4, <1>5
<1>9. answer.ids = q /\ answer.items = items
  BY <1>8 DEF Result
<1> HIDE DEF val
<1>10. q \in Windows(val, <<>>, request.limit, 0)
  BY DEF W
<1>11. IsWindow(q, NativeKeys, request.order_by, request.limit, 0)
  BY <1>2, <1>6, <1>10, SingleKeys, OneElement
<1>12. request.offset = 0 /\ DOMAIN NativeKeys = {Null}
  BY <1>2, SingleKeys
<1>13. \A i \in DOMAIN q : q[i] = Null
  BY <1>11, <1>12 DEF IsWindow, ToSet
<1>14. NativeItems(Matching)[Null]["distinct"] = Cardinality(values)
  <2>1. NativeItems(Matching)
          = [x \in NativeIds(Matching) |-> [b \in ToSet(request.items) \ {"k"} |->
               Aggregate(b, RowsOf(x, Matching))]]
    BY DEF NativeItems
  <2>2. NativeItems(Matching)[Null]["distinct"] = Aggregate("distinct", Matching)
    BY <1>1, <1>2, <2>1 DEF Items, RowsOf
  <2>3. Aggregate("distinct", Matching) = Cardinality({table[r].v : r \in Valued(Matching)})
    BY DEF Aggregate
  <2> QED
    BY <1>3, <2>2, <2>3, DistinctValues DEF values
<1>15. \A i \in DOMAIN answer.ids : \A a \in Items \ {"k"} :
         answer.items[answer.ids[i]][a] = NativeItems(Matching)[answer.ids[i]][a]
  BY <1>1, <1>7, <1>9, <1>13, <1>14
<1> QED
  BY <1>9, <1>11, <1>12, <1>15, GroupQuery

\* The raw rows of a fallback, with the filter in the scans or around them.
LEMMA WrapperAnswer ==
  ASSUME IInv, stage = "answered", NEW filter \in BOOLEAN, NEW where \in BOOLEAN,
         plan = Wrapper(filter, where), (filter \/ where) = (request.filter # "none")
  PROVE  AnswerIsTheQuery
<1>1. /\ plan.scan.kind = "rows" /\ plan.scan.limit = NoLimit /\ plan.scan.filter = filter
      /\ plan.outer.kind = "native" /\ plan.outer.where = where
      /\ plan.outer.order_by = request.order_by /\ plan.outer.limit = request.limit
      /\ plan.outer.offset = request.offset
  BY DEF Wrapper, Scan, Outer
<1>2. EmittedRows = Matching
  BY <1>1, RawRows
<1> QED
  BY <1>1, <1>2, NativeAnswer

\* Whatever the request, the table, its shards and the order and outcome of its
\* scans, the answer is one that the request's SQL allows over the whole table.
THEOREM AnswersTheQuery == Spec => []AnswerIsTheQuery
<1>1. IInv => AnswerIsTheQuery
  <2> SUFFICES ASSUME IInv, stage = "answered" PROVE AnswerIsTheQuery
    BY DEF AnswerIsTheQuery
  <2>1. request \in Requests /\ plan = CandidatePlan
    BY DEF IInv, Pruned, Planned
  <2>2. CASE shards = 0 /\ plan = EmptyPlan
    BY <2>2, EmptyAnswer
  <2>3. CASE request.filter \in {"declined", "nowhere"} /\ plan = Wrapper(FALSE, TRUE)
    BY <2>3, WrapperAnswer
  <2>4. CASE /\ request.filter \in {"none", "rendered"}
             /\ plan = Wrapper(request.filter = "rendered", FALSE)
    BY <2>4, WrapperAnswer
  <2>5. CASE /\ shards # 0 /\ request.shape = "group" /\ classify_request_shape = "Grouped"
             /\ plan = GroupedPlan
    BY <2>5, GroupedAnswer
  <2>6. CASE /\ request.shape = "single" /\ classify_request_shape = "SingleGroupAgg"
             /\ request.items = <<"distinct">> /\ plan = CountDistinctPlan
    BY <2>6, DistinctAnswer
  <2>7. CASE /\ shards # 0 /\ request.shape = "single"
             /\ classify_request_shape = "SingleGroupAgg" /\ ~has_distinct
             /\ plan = SingleGroupPlan
    BY <2>7, SingleAnswer
  <2>8. CASE /\ request.filter \in {"none", "rendered"} /\ request.shape = "rows"
             /\ plan = RowScanPlan
    BY <2>8, DeclinedOrder, PushedLimit
  <2> QED
    BY <2>1, <2>2, <2>3, <2>4, <2>5, <2>6, <2>7, <2>8, PlanCases
<1> QED
  BY <1>1, Invariance, PTL
=============================================================================
