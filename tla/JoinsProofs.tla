---------------------------- MODULE JoinsProofs ----------------------------
(***************************************************************************)
(* A join pushdown answers the join, for every request, table contents and *)
(* order of the scans.                                                     *)
(*                                                                         *)
(* Attribution is the base: a column node of a request resolves, to the    *)
(* leg that binds it, unless the planner refuses it.  From it: pruning     *)
(* keeps the files of every row of the join; each conjunct of the filter   *)
(* and each join condition is applied on its own leg, in the wrapper or    *)
(* both; and the top rows of the shards' top rows are top rows of all,     *)
(* because the ORDER BY is a weak order.                                   *)
(*                                                                         *)
(* A predicate that a scan decides reads an empty string or NaN as a value *)
(* where Exasol reads NULL.  NoBlankCompared says that no comparison given *)
(* to a scan tells the two apart; run join_blank_keys shows the answer     *)
(* when one does.                                                          *)
(***************************************************************************)
EXTENDS Joins, Sharding, Induction

-----------------------------------------------------------------------------
(* The invariant                                                           *)

\* What pruning leaves of every leg.
PrunedLegs ==
    /\ kept \in [Legs -> SUBSET UNION {FilesOf(l) : l \in Legs}]
    /\ \A l \in Legs : kept[l] \subseteq FilesOf(l) /\ MayKeep(l, kept[l])

\* What every state knows: the legs are pruned before they are planned, the plan
\* is the one plan_join chose, and every scan and the answer are what it allows.
Known == request \in Requests /\ data \in Contents

Planned ==
    /\ stage \in {"requested", "resolved", "scanning", "answered", "declined", "failed"}
    /\ stage \in {"requested", "resolved"} => emitted = <<>>
    /\ stage \in {"resolved", "scanning", "answered", "failed"} => PrunedLegs
    /\ stage \in {"resolved", "scanning", "answered", "failed"} => AllScannable
    /\ stage = "declined" => ~request.inner \/ ~AllScannable \/ PlanDeclines
    /\ stage \in {"scanning", "answered", "failed"} => plan = PlannedJoin /\ ~PlanDeclines

ScansAllowed ==
    stage \in {"scanning", "answered", "failed"} =>
        /\ DOMAIN emitted \subseteq ScanCalls
        /\ \A c \in DOMAIN emitted : emitted[c] \in ScanOutputs(c)

AnswerAllowed ==
    stage = "answered" => Unscanned = {} /\ answer \in Answers

IInv == Known /\ Planned /\ ScansAllowed /\ AnswerAllowed

\* A request that is not planned yet meets the invariant.
LEMMA InitInv == Init => IInv
BY DEF Init, IInv, Known, Planned, ScansAllowed, AnswerAllowed

\* What is planned depends on the request, the contents and the files kept alone.
LEMMA Same ==
  ASSUME UNCHANGED <<request, data, kept>>
  PROVE  /\ PrunedLegs' = PrunedLegs /\ PlannedJoin' = PlannedJoin
         /\ PlanDeclines' = PlanDeclines /\ AllScannable' = AllScannable
<1> USE DEF Legs, TableOf, Columns, RowsOf, Row, FilesOf, resolve_column, legs_referenced,
            conjunct_leg, attachment_leg, Qualified, Conjuncts, leg_local_filter,
            cross_leg_residual_filter, renderable_only, declined_only, TypeAccepted,
            ColumnNodes, total_bytes, dimension_leg
<1>1. PrunedLegs' = PrunedLegs
  BY DEF PrunedLegs, MayKeep, PruneFilter
<1>2. classify_join_window' = classify_join_window
  BY DEF classify_join_window, PostProcessed, carries_aggregation_clause
<1>3. broadcast_eligible' = broadcast_eligible
  BY <1>2 DEF broadcast_eligible
<1>4. BroadcastServes' = BroadcastServes
  BY <1>3 DEF BroadcastServes, render_broadcast_join, bound_sort_key, Projection, FullRow
<1>5. BroadcastPlan' = BroadcastPlan
  BY <1>2 DEF BroadcastPlan, BroadcastFilter, place_broadcast_window, Outer, fact_leg
<1>6. Residual' = Residual
  BY DEF Residual
<1>7. NScanPlan' = NScanPlan
  BY <1>6 DEF NScanPlan, referenced_leg_columns, JoinPoint, Outer
<1>8. PlannedJoin' = PlannedJoin
  BY <1>4, <1>5, <1>7 DEF PlannedJoin, EmptyPlan, Outer
<1>9. OuterDeclines' = OuterDeclines
  BY DEF OuterDeclines
<1>10. NScanDeclines' = NScanDeclines
  BY <1>6, <1>9 DEF NScanDeclines
<1>11. SideRefuses' = SideRefuses
  BY DEF SideRefuses
<1>12. (\E c \in ColumnNodes : resolve_column(c) \notin Legs)'
         = (\E c \in ColumnNodes : resolve_column(c) \notin Legs)
  OBVIOUS
<1>13. PlanDeclines' = PlanDeclines
  BY <1>3, <1>8, <1>9, <1>10, <1>11, <1>12 DEF PlanDeclines
<1>14. AllScannable' = AllScannable
  BY DEF AllScannable, ensure_scannable
<1> QED
  BY <1>1, <1>8, <1>13, <1>14

\* A column node belongs to the same leg throughout, and gives the same values.
LEMMA SameLegs ==
  ASSUME UNCHANGED <<request, data>>
  PROVE  /\ \A c : resolve_column(c)' = resolve_column(c)
         /\ \A t, keys : SortValues(t, keys)' = SortValues(t, keys)
         /\ \A e : conjunct_leg(e)' = conjunct_leg(e)
<1>1. \A c : resolve_column(c)' = resolve_column(c)
  BY DEF resolve_column, Legs, TableOf
<1>2. \A t, keys : SortValues(t, keys)' = SortValues(t, keys)
  BY <1>1 DEF SortValues, Row, TableOf
<1>3. \A e : legs_referenced(e)' = legs_referenced(e)
  BY <1>1 DEF legs_referenced
<1>4. \A e : conjunct_leg(e)' = conjunct_leg(e)
  BY <1>3 DEF conjunct_leg, Legs
<1> QED
  BY <1>1, <1>2, <1>4

\* And what a scan may emit on the plan besides.
LEMMA SameScans ==
  ASSUME UNCHANGED <<request, data, kept, plan>>, NEW c
  PROVE  ScanCalls' = ScanCalls /\ ScanOutputs(c)' = ScanOutputs(c)
<1>1. ScanCalls' = ScanCalls
  BY DEF ScanCalls, Legs
<1>2. \A f : ShardJoin(f)' = ShardJoin(f)
  BY DEF ShardJoin, Tuples, Legs, RowsOf, Row, TableOf, Natively, resolve_column
<1>3. ScanOutputs(c)' = ScanOutputs(c)
  <2>1. \A t, keys : SortValues(t, keys)' = SortValues(t, keys)
    BY SameLegs
  <2> DEFINE val == [t \in ShardJoin(c[2]) |-> SortValues(t, plan.order_by)]
             rows == {r \in RowsOf(c[1]) :
                        /\ Row(c[1], r).file = c[2]
                        /\ \A i \in plan.filters[c[1]] :
                             LET e == request.filter[i]
                             IN  IsTrue(e, [j \in DOMAIN e.cols |-> Row(c[1], r)[e.cols[j].name]])}
  <2>2. val' = val
    BY <1>2, <2>1
  <2>3. rows' = rows
    BY DEF RowsOf, Row, TableOf
  <2>4. ScanOutputs(c) = IF plan.kind = "broadcast"
                         THEN Windows(val, plan.order_by, plan.cap, 0) ELSE {rows}
    BY DEF ScanOutputs, render_join_sort_target
  <2>5. ScanOutputs(c)' = IF plan'.kind = "broadcast"
                          THEN Windows(val', plan'.order_by, plan'.cap, 0) ELSE {rows'}
    BY DEF ScanOutputs, render_join_sort_target
  <2> HIDE DEF val, rows
  <2> QED
    BY <2>2, <2>3, <2>4, <2>5
<1> QED
  BY <1>1, <1>3

\* What Exasol may answer depends on what was emitted too.
LEMMA SameAnswers ==
  ASSUME UNCHANGED <<request, data, kept, plan, emitted>>
  PROVE  Answers' = Answers /\ Unscanned' = Unscanned
<1>1. Joined' = Joined
  BY DEF Joined, Tuples, Legs, RowsOf, Row, TableOf, InExasol, resolve_column
<1>2. Projection' = Projection
  BY DEF Projection, FullRow, Legs, Columns, TableOf, Qualified, resolve_column
<1>3. AnswerTypes' = AnswerTypes
  BY <1>2 DEF AnswerTypes, ConcatTypes, Legs, Columns, TableOf
<1>4. \A t, keys : SortValues(t, keys)' = SortValues(t, keys)
  BY SameLegs
<1>5. \A c : Qualified(c)' = Qualified(c)
  BY DEF Qualified, resolve_column, Legs, TableOf
<1>6. Answers' = Answers
  <2> DEFINE val == [t \in Joined |-> SortValues(t, plan.outer.order_by)]
             order == [i \in DOMAIN plan.outer.order_by |-> Qualified(plan.outer.order_by[i].col)]
  <2>1. val' = val
    BY <1>1, <1>4
  <2>2. order' = order
    BY <1>5
  <2>3. Answers =
          IF request.aggregate
          THEN {[rows |-> {}, cols |-> <<>>, types |-> <<>>, order |-> <<>>,
                 count |-> Cardinality(Joined)]}
          ELSE {[rows |-> W, cols |-> Projection, types |-> AnswerTypes, order |-> order,
                 count |-> Null] :
                  W \in Windows(val, plan.outer.order_by, plan.outer.limit, plan.outer.offset)}
    BY DEF Answers, CountOf
  <2>4. Answers' =
          IF request'.aggregate
          THEN {[rows |-> {}, cols |-> <<>>, types |-> <<>>, order |-> <<>>,
                 count |-> Cardinality(Joined')]}
          ELSE {[rows |-> W, cols |-> Projection', types |-> AnswerTypes', order |-> order',
                 count |-> Null] :
                  W \in Windows(val', plan'.outer.order_by, plan'.outer.limit,
                                plan'.outer.offset)}
    BY DEF Answers, CountOf
  <2> HIDE DEF val, order
  <2> QED
    BY <1>1, <1>2, <1>3, <2>1, <2>2, <2>3, <2>4
<1> QED
  BY <1>6 DEF Unscanned, ScanCalls, Legs

\* Every step of the adapter, of a scan call and of Exasol keeps the invariant.
LEMMA StepInv == IInv /\ [Next]_vars => IInv'
<1> SUFFICES ASSUME IInv, [Next]_vars PROVE IInv'
  OBVIOUS
<1> USE DEF IInv
<1>0. UNCHANGED <<request, data>>
  BY DEF Next, vars, DeclineShape, ResolveLegs, RefuseLeg, PlanJoin, DeclineJoin, RunScan,
         ScanFails, Answer, Done
<1>1. Known'
  BY <1>0 DEF Known
<1>2. CASE DeclineShape
  <2>1. Planned'
    BY <1>2 DEF DeclineShape, Planned
  <2> QED
    BY <1>1, <1>2, <2>1 DEF DeclineShape, ScansAllowed, AnswerAllowed
<1>3. CASE ResolveLegs
  <2>1. PrunedLegs'
    <3>1. /\ Legs' = Legs /\ \A l : FilesOf(l)' = FilesOf(l) /\ RowsOf(l)' = RowsOf(l)
      BY <1>0 DEF Legs, FilesOf, RowsOf, Row, TableOf
    <3>2. \A l : PruneFilter(l)' = PruneFilter(l)
      BY <1>0, SameLegs DEF PruneFilter, leg_local_filter, Conjuncts
    <3>3. \A l, F : MayKeep(l, F)' = MayKeep(l, F)
      BY <1>0, <3>1, <3>2 DEF MayKeep, Row, TableOf
    <3>4. /\ kept' \in [Legs -> SUBSET UNION {FilesOf(l) : l \in Legs}]
          /\ \A l \in Legs : kept'[l] \subseteq FilesOf(l) /\ MayKeep(l, kept'[l])
      BY <1>3 DEF ResolveLegs
    <3>5. \A l \in Legs : MayKeep(l, kept[l])'
      BY <1>0, <3>1, <3>2, <3>4 DEF MayKeep, Row, TableOf
    <3> QED
      BY <3>1, <3>4, <3>5 DEF PrunedLegs
  <2>2. AllScannable'
    BY <1>0, <1>3 DEF ResolveLegs, AllScannable, ensure_scannable, Legs, Columns, TableOf
  <2>3. Planned'
    BY <1>3, <2>1, <2>2 DEF ResolveLegs, Planned
  <2> QED
    BY <1>1, <1>3, <2>3 DEF ResolveLegs, ScansAllowed, AnswerAllowed
<1>4. CASE PlanJoin
  <2>1. /\ PrunedLegs' /\ AllScannable' /\ PlannedJoin' = PlannedJoin /\ ~PlanDeclines'
        /\ plan' = PlannedJoin
    BY <1>4, Same DEF PlanJoin, Planned
  <2>2. Planned' /\ emitted' = <<>> /\ stage' = "scanning"
    BY <1>4, <2>1 DEF PlanJoin, Planned
  <2> QED
    BY <1>1, <2>2 DEF ScansAllowed, AnswerAllowed
<1>5. CASE DeclineJoin
  <2>1. PlanDeclines'
    BY <1>5, Same DEF DeclineJoin
  <2>2. Planned'
    BY <1>5, <2>1 DEF DeclineJoin, Planned
  <2> QED
    BY <1>1, <1>5, <2>2 DEF DeclineJoin, ScansAllowed, AnswerAllowed
<1>6. ASSUME NEW call \in Unscanned, NEW output \in ScanOutputs(call), RunScan(call, output)
      PROVE  IInv'
  <2>1. /\ stage = "scanning" /\ stage' = "scanning" /\ UNCHANGED <<request, data, kept, plan>>
        /\ emitted' = [c \in DOMAIN emitted \cup {call} |->
                         IF c = call THEN output ELSE emitted[c]]
    BY <1>6 DEF RunScan
  <2>2. Planned'
    BY <2>1, Same DEF Planned
  <2>3. DOMAIN emitted' \subseteq ScanCalls'
    BY <2>1, SameScans DEF ScansAllowed, Unscanned
  <2>4. ASSUME NEW c \in DOMAIN emitted' PROVE emitted'[c] \in ScanOutputs(c)'
    <3>1. ScanOutputs(c)' = ScanOutputs(c)
      BY <2>1, SameScans
    <3>2. emitted'[c] \in ScanOutputs(c)
      BY <2>1, <2>4 DEF ScansAllowed
    <3> QED
      BY <3>1, <3>2
  <2> QED
    BY <1>1, <2>1, <2>2, <2>3, <2>4 DEF ScansAllowed, AnswerAllowed
<1>7. CASE stage = "scanning" /\ stage' \in {"failed", "answered"}
           /\ UNCHANGED <<request, data, kept, plan, emitted>>
           /\ (stage' = "answered" => Unscanned = {} /\ answer' \in Answers)
  <2>1. Planned'
    BY <1>7, Same DEF Planned
  <2>2. ScansAllowed'
    <3>1. ScanCalls' = ScanCalls /\ \A c : ScanOutputs(c)' = ScanOutputs(c)
      BY <1>7, SameScans
    <3>2. DOMAIN emitted \subseteq ScanCalls /\ \A c \in DOMAIN emitted : emitted[c] \in ScanOutputs(c)
      BY <1>7 DEF ScansAllowed
    <3> QED
      BY <1>7, <3>1, <3>2 DEF ScansAllowed
  <2>3. AnswerAllowed'
    BY <1>7, SameAnswers DEF AnswerAllowed
  <2> QED
    BY <1>1, <2>1, <2>2, <2>3
<1>8. CASE ScanFails
  BY <1>7, <1>8 DEF ScanFails
<1>9. CASE Answer
  BY <1>7, <1>9 DEF Answer
<1>10. CASE UNCHANGED vars
  <2>1. UNCHANGED <<request, data, kept, plan, emitted, stage, answer>>
    BY <1>10 DEF vars
  <2>2. Planned'
    BY <2>1, Same DEF Planned
  <2>3. ScansAllowed'
    <3>1. ScanCalls' = ScanCalls /\ \A c : ScanOutputs(c)' = ScanOutputs(c)
      BY <2>1, SameScans
    <3> QED
      BY <2>1, <3>1 DEF ScansAllowed
  <2>4. AnswerAllowed'
    BY <2>1, SameAnswers DEF AnswerAllowed
  <2> QED
    BY <1>1, <2>2, <2>3, <2>4
<1>11. CASE RefuseLeg
  <2>1. ~AllScannable'
    BY <1>0, <1>11 DEF RefuseLeg, AllScannable, ensure_scannable, Legs, Columns, TableOf
  <2>2. Planned'
    BY <1>11, <2>1 DEF RefuseLeg, Planned
  <2> QED
    BY <1>1, <1>11, <2>2 DEF RefuseLeg, ScansAllowed, AnswerAllowed
<1> QED
  BY <1>2, <1>3, <1>4, <1>5, <1>6, <1>8, <1>9, <1>10, <1>11 DEF Next, Done

\* The invariant holds throughout a join pushdown.
THEOREM Invariance == Spec => []IInv
BY InitInv, StepInv, PTL DEF Spec

-----------------------------------------------------------------------------
(* Attribution                                                             *)

\* The least of some integers.
LEMMA MinIs ==
  ASSUME NEW S \in SUBSET Int, NEW m \in S, \A y \in S : m <= y
  PROVE  Min(S) = m
<1>1. Min(S) \in S /\ \A y \in S : Min(S) <= y
  BY DEF Min
<1>2. Min(S) <= m /\ m <= Min(S) /\ m \in Int /\ Min(S) \in Int
  BY <1>1
<1> QED
  BY <1>2

\* And their greatest, if they are finitely many.
LEMMA MaxIs ==
  ASSUME NEW S \in SUBSET Int, IsFiniteSet(S), S # {}
  PROVE  Max(S) \in S /\ \A y \in S : y <= Max(S)
<1> DEFINE w == [x \in S |-> x]
<1>1. PICK x : IsGreatest(x, w, S)
  <2>1. w \in [S -> Int]
    OBVIOUS
  <2> HIDE DEF w
  <2> QED
    BY <2>1, FiniteGreatest
<1>2. x \in S /\ \A y \in S : x >= y
  BY <1>1 DEF IsGreatest
<1>3. Max(S) \in S /\ \A y \in S : Max(S) >= y
  BY <1>2 DEF Max
<1> QED
  BY <1>3

\* A list is a sequence of its elements.
LEMMA ListIs ==
  ASSUME NEW s, IsList(s)
  PROVE  /\ Len(s) \in Nat /\ DOMAIN s = 1 .. Len(s)
         /\ \A i \in DOMAIN s : s[i] \in ToSet(s)
BY DEF IsList, ToSet

\* The legs are numbered from 1, and their tables are declared.
LEMMA LegsAre ==
  ASSUME Known
  PROVE  /\ Len(request.legs) \in Nat \ {0} /\ Legs = 1 .. Len(request.legs)
         /\ Len(request.legs) = Len(request.conditions) + 1
         /\ \A l \in Legs : TableOf(l) \in DOMAIN Types
<1>1. /\ IsList(request.legs) /\ IsList(request.conditions)
      /\ Len(request.legs) = Len(request.conditions) + 1
      /\ \A l \in DOMAIN request.legs : request.legs[l].table \in DOMAIN Types
  BY RequestsAssumption DEF Known
<1>2. Len(request.conditions) \in Nat /\ DOMAIN request.legs = 1 .. Len(request.legs)
  BY <1>1, ListIs
<1> QED
  BY <1>1, <1>2 DEF Legs, TableOf

\* SQL's rule holds for every column node.
LEMMA NodesAre ==
  ASSUME Known, NEW c \in ColumnNodes
  PROVE  NodeOf(request.legs, c)
<1> DEFINE E == ToSet(request.filter) \cup ToSet(request.conditions)
<1>1. /\ \A e \in ToSet(request.conditions) \cup ToSet(request.filter) :
           \A n \in ToSet(e.cols) : NodeOf(request.legs, n)
      /\ \A n \in ToSet(request.items) : NodeOf(request.legs, n)
      /\ \A key \in ToSet(request.order_by) : NodeOf(request.legs, key.col)
  BY RequestsAssumption DEF Known
<1>2. \/ c \in ToSet(request.items)
      \/ \E e \in E : c \in ToSet(e.cols)
      \/ \E key \in ToSet(request.order_by) : c = key.col
  BY DEF ColumnNodes
<1> QED
  BY <1>1, <1>2

\* resolve_column finds the occurrence SQL means, and tells when there is none.
LEMMA Attribution ==
  ASSUME Known, NEW c, NodeOf(request.legs, c)
  PROVE  /\ c.of # NoLeg => c.of \in Legs /\ resolve_column(c) = c.of /\ TableOf(c.of) = c.table
         /\ c.of = NoLeg => resolve_column(c) = Unattributable
<1> DEFINE matching == {l \in Legs : TableOf(l) = c.table}
           same == {l \in matching : request.legs[l].alias = c.alias}
           owners == IF Cardinality(matching) = 1 THEN matching ELSE same
<1>1. Legs \in SUBSET Int /\ IsFiniteSet(Legs)
  <2>1. Legs = 1 .. Len(request.legs) /\ Len(request.legs) \in Nat
    BY LegsAre
  <2> QED
    BY <2>1, FS_Interval
<1>2. matching \in SUBSET Legs /\ IsFiniteSet(matching) /\ matching # {}
  <2>1. matching \in SUBSET Legs
    OBVIOUS
  <2>2. matching # {}
    BY DEF NodeOf, Legs, TableOf
  <2> HIDE DEF matching
  <2> QED
    BY <1>1, <2>1, <2>2, FS_Subset
<1>3. resolve_column(c) = IF owners = {} THEN Unattributable ELSE Min(owners)
  <2>1. resolve_column(c) = CASE matching = {} -> NoLeg
                              [] matching # {} /\ owners = {} -> Unattributable
                              [] matching # {} /\ owners # {} -> Min(owners)
    BY DEF resolve_column
  <2> HIDE DEF matching, owners
  <2> QED
    BY <1>2, <2>1
<1>4. ASSUME c.of # NoLeg
      PROVE  c.of \in Legs /\ resolve_column(c) = c.of /\ TableOf(c.of) = c.table
  <2>1. /\ c.of \in matching
        /\ \/ request.legs[c.of].alias = c.alias
           \/ \A l \in Legs \ {c.of} : TableOf(l) # c.table
    BY <1>4 DEF NodeOf, Legs, TableOf
  <2>2. owners = {c.of}
    <3>1. CASE Cardinality(matching) = 1
      <4>1. PICK l : matching = {l}
        <5> HIDE DEF matching
        <5> QED
          BY <1>2, <3>1, FS_Singleton
      <4> QED
        BY <2>1, <3>1, <4>1
    <3>2. CASE Cardinality(matching) # 1
      <4>1. matching # {c.of}
        <5> HIDE DEF matching
        <5> QED
          BY <3>2, FS_Singleton
      <4>2. request.legs[c.of].alias = c.alias
        BY <2>1, <4>1
      <4>3. \A l, m \in DOMAIN request.legs :
              request.legs[l].table = request.legs[m].table
                /\ request.legs[l].alias = request.legs[m].alias => l = m
        BY RequestsAssumption DEF Known
      <4> QED
        BY <2>1, <3>2, <4>2, <4>3 DEF Legs, TableOf
    <3> QED
      BY <3>1, <3>2
  <2>3. c.of \in Int /\ c.of \in Legs /\ TableOf(c.of) = c.table
    BY <1>1, <2>1
  <2>4. Min({c.of}) = c.of
    BY <2>3, MinIs
  <2> HIDE DEF owners
  <2> QED
    BY <1>3, <2>2, <2>3, <2>4
<1>5. ASSUME c.of = NoLeg PROVE resolve_column(c) = Unattributable
  <2>1. \A l \in matching : /\ request.legs[l].alias # c.alias
                            /\ \E m \in matching : m # l
    BY <1>5 DEF NodeOf, Legs, TableOf
  <2>2. Cardinality(matching) # 1
    <3>1. ASSUME NEW l, matching = {l} PROVE FALSE
      BY <2>1, <3>1
    <3> HIDE DEF matching
    <3> QED
      BY <1>2, <3>1, FS_Singleton
  <2>3. owners = {}
    BY <2>1, <2>2
  <2> HIDE DEF owners
  <2> QED
    BY <1>3, <2>3
<1> QED
  BY <1>4, <1>5

\* resolve_column is a leg exactly where SQL means one.
LEMMA Attributed ==
  ASSUME Known, NEW c, NodeOf(request.legs, c)
  PROVE  /\ resolve_column(c) \in Legs <=> c.of # NoLeg
         /\ resolve_column(c) # NoLeg
         /\ resolve_column(c) \in Legs => resolve_column(c) = c.of
<1>1. Legs = 1 .. Len(request.legs) /\ Len(request.legs) \in Nat
  BY LegsAre
<1> QED
  BY <1>1, Attribution DEF Unattributable, NoLeg

\* plan_join refuses by table name exactly the joins that name a refused column of
\* an occurrence, or an occurrence that is not there.
LEMMA Refusals ==
  ASSUME Known
  PROVE  /\ RefusedNamed => SideRefuses
         /\ SideRefuses => RefusedNamed \/ \E c \in ColumnNodes : c.of = NoLeg
<1>1. RefusedNamed => SideRefuses
  <2> SUFFICES ASSUME NEW l \in Legs, NEW n \in Columns(l),
                      <<TableOf(l), n>> \in request.refused,
                      request.star \/ \E c \in ColumnNodes : c.of = l /\ c.name = n
               PROVE  request.star \/ \E c \in ColumnNodes : c.table = TableOf(l) /\ c.name = n
    BY DEF RefusedNamed, SideRefuses
  <2>1. ASSUME NEW c \in ColumnNodes, c.of = l PROVE c.table = TableOf(l)
    <3>1. l # NoLeg
      BY LegsAre DEF NoLeg
    <3> QED
      BY <2>1, <3>1, NodesAre, Attribution
  <2> QED
    BY <2>1
<1>2. SideRefuses => RefusedNamed \/ \E c \in ColumnNodes : c.of = NoLeg
  <2> SUFFICES ASSUME NEW l \in Legs, NEW n \in Columns(l),
                      <<TableOf(l), n>> \in request.refused,
                      request.star \/ \E c \in ColumnNodes : c.table = TableOf(l) /\ c.name = n,
                      \A c \in ColumnNodes : c.of # NoLeg
               PROVE  RefusedNamed
    BY DEF SideRefuses
  <2>1. CASE request.star
    BY <2>1 DEF RefusedNamed
  <2>2. ASSUME NEW c \in ColumnNodes, c.table = TableOf(l), c.name = n PROVE RefusedNamed
    <3>1. c.of \in Legs /\ TableOf(c.of) = TableOf(l)
      BY <2>2, NodesAre, Attribution
    <3>2. n \in Columns(c.of)
      BY <3>1 DEF Columns
    <3> QED
      BY <2>2, <3>1, <3>2 DEF RefusedNamed
  <2> QED
    BY <2>1, <2>2
<1> QED
  BY <1>1, <1>2

\* What plan_join refuses is what no route can serve.
LEMMA Unservable ==
  ASSUME Known, PlanDeclines
  PROVE  \/ RefusedNamed
         \/ \E c \in ColumnNodes : c.of = NoLeg
         \/ request.render = "nowhere"
         \/ \E e \in ToSet(request.conditions) \cup ToSet(request.filter) : e.render = "nowhere"
         \/ \E key \in ToSet(request.order_by) : key.kind = "nowhere"
<1>1. \A c \in ColumnNodes : resolve_column(c) \notin Legs => c.of = NoLeg
  BY NodesAre, Attributed
<1>2. Unattributable \notin Legs
  BY LegsAre DEF Unattributable
<1>3. OuterDeclines => \/ request.render = "nowhere"
                       \/ \E key \in ToSet(request.order_by) : key.kind = "nowhere"
                       \/ \E c \in ColumnNodes : c.of = NoLeg
  BY <1>1, <1>2 DEF OuterDeclines, ToSet
<1>4. Residual \subseteq DOMAIN request.filter
  BY DEF Residual, cross_leg_residual_filter, leg_local_filter, renderable_only, declined_only,
         Conjuncts
<1>5. NScanDeclines => \/ OuterDeclines
                       \/ \E e \in ToSet(request.conditions) \cup ToSet(request.filter) :
                            e.render = "nowhere"
  BY <1>4 DEF NScanDeclines, ToSet
<1>6. SideRefuses => RefusedNamed \/ \E c \in ColumnNodes : c.of = NoLeg
  BY Refusals
<1> QED
  BY <1>1, <1>3, <1>5, <1>6 DEF PlanDeclines

\* plan_join fails exactly on what no route can serve, for every join tree, every
\* placement of conjuncts and every pruning; a broadcast that cannot be built falls
\* back, and neither a refused column nor a table without another one is planned,
\* not even for an empty side.
THEOREM DeclinesExact == Spec => []DeclinesExactlyUnservable
<1>1. ASSUME IInv PROVE DeclinesExactlyUnservable
  <2>1. Known /\ Planned
    BY <1>1 DEF IInv
  <2>2. ASSUME stage = "declined", request.inner
        PROVE  \/ RefusedNamed \/ RefusedWhole
               \/ \E c \in ColumnNodes : c.of = NoLeg
               \/ request.render = "nowhere"
               \/ \E e \in ToSet(request.conditions) \cup ToSet(request.filter) :
                    e.render = "nowhere"
               \/ \E key \in ToSet(request.order_by) : key.kind = "nowhere"
    <3>1. PlanDeclines \/ ~AllScannable
      BY <2>1, <2>2 DEF Planned
    <3>2. ~AllScannable => RefusedWhole
      BY DEF AllScannable, ensure_scannable, RefusedWhole
    <3> QED
      BY <2>1, <3>1, <3>2, Unservable
  <2>3. ASSUME stage \in {"scanning", "answered"} PROVE ~RefusedNamed /\ ~RefusedWhole
    <3>1. ~SideRefuses /\ AllScannable
      BY <2>1, <2>3 DEF Planned, PlanDeclines
    <3>2. ~RefusedWhole
      BY <3>1 DEF AllScannable, ensure_scannable, RefusedWhole
    <3> QED
      BY <2>1, <3>1, <3>2, Refusals
  <2> QED
    BY <2>2, <2>3 DEF DeclinesExactlyUnservable
<1> QED
  BY <1>1, Invariance, PTL

-----------------------------------------------------------------------------
(* ORDER BY, LIMIT and OFFSET                                              *)

\* One key of an order: a comes before b.
KeyLess(a, b, key) ==
    \/ a = Null /\ b # Null /\ ~key.nulls_last
    \/ a # Null /\ b = Null /\ key.nulls_last
    \/ /\ a # Null /\ b # Null
       /\ IF key.ascending THEN a < b ELSE a > b

\* An order by one key is total and transitive.
LEMMA KeyOrder ==
  ASSUME NEW key, key.ascending \in BOOLEAN, key.nulls_last \in BOOLEAN,
         NEW a \in Int, NEW b \in Int, NEW c \in Int
  PROVE  /\ a # b => KeyLess(a, b, key) \/ KeyLess(b, a, key)
         /\ KeyLess(a, b, key) /\ KeyLess(b, c, key) => KeyLess(a, c, key)
BY DEF KeyLess, Null

\* The keys of an order.
Ordering(keys) ==
    /\ Len(keys) \in Nat /\ DOMAIN keys = 1 .. Len(keys)
    /\ \A j \in DOMAIN keys : keys[j].ascending \in BOOLEAN /\ keys[j].nulls_last \in BOOLEAN

\* Before, key by key.
LEMMA BeforeAt ==
  ASSUME NEW x, NEW y, NEW keys
  PROVE  Before(x, y, keys) <=>
           \E i \in DOMAIN keys : /\ \A j \in 1 .. i - 1 : x[j] = y[j]
                                  /\ KeyLess(x[i], y[i], keys[i])
BY DEF Before, KeyLess

\* ORDER BY is a weak order: what comes before y comes before everything that
\* does not.
LEMMA WeakOrder ==
  ASSUME NEW keys, Ordering(keys),
         NEW x \in [DOMAIN keys -> Int], NEW y \in [DOMAIN keys -> Int],
         NEW z \in [DOMAIN keys -> Int],
         Before(x, y, keys), ~Before(z, y, keys)
  PROVE  Before(x, z, keys)
<1>1. PICK i \in DOMAIN keys : /\ \A j \in 1 .. i - 1 : x[j] = y[j]
                               /\ KeyLess(x[i], y[i], keys[i])
  BY BeforeAt
<1>2. /\ DOMAIN keys = 1 .. Len(keys) /\ Len(keys) \in Nat
      /\ \A j \in DOMAIN keys : keys[j].ascending \in BOOLEAN /\ keys[j].nulls_last \in BOOLEAN
  BY DEF Ordering
<1> DEFINE D == {j \in 1 .. i : z[j] # y[j]}
<1>3. CASE D = {}
  <2>1. i \in Nat /\ \A j \in 1 .. i : z[j] = y[j]
    BY <1>2, <1>3
  <2>2. \A j \in 1 .. i - 1 : x[j] = z[j]
    BY <1>1, <2>1
  <2>3. KeyLess(x[i], z[i], keys[i])
    BY <1>1, <1>2, <2>1
  <2> QED
    BY <2>2, <2>3, BeforeAt
<1>4. CASE D # {}
  <2>1. D \in SUBSET Nat
    BY <1>2
  <2>2. PICK m \in D : \A n \in D : m <= n
    <3> HIDE DEF D
    <3> QED
      BY <1>4, <2>1, LeastNumber
  <2>3. m \in DOMAIN keys /\ m <= i /\ \A j \in 1 .. m - 1 : z[j] = y[j]
    BY <1>2, <2>2
  <2>4. x[m] \in Int /\ y[m] \in Int /\ z[m] \in Int
    BY <2>3
  <2>5. KeyLess(y[m], z[m], keys[m])
    <3>1. ~KeyLess(z[m], y[m], keys[m])
      BY <2>3, BeforeAt
    <3> QED
      BY <1>2, <2>2, <2>3, <2>4, <3>1, KeyOrder
  <2>6. \A j \in 1 .. m - 1 : x[j] = z[j]
    BY <1>1, <1>2, <2>3
  <2>7. KeyLess(x[m], z[m], keys[m])
    <3>1. CASE m = i
      <4>1. KeyLess(x[m], y[m], keys[m])
        BY <1>1, <3>1
      <4> QED
        BY <1>2, <2>3, <2>4, <2>5, <4>1, KeyOrder
    <3>2. CASE m # i
      <4>1. x[m] = y[m]
        BY <1>1, <1>2, <2>3, <3>2
      <4> QED
        BY <2>5, <4>1
    <3> QED
      BY <3>1, <3>2
  <2> QED
    BY <2>3, <2>6, <2>7, BeforeAt
<1> QED
  BY <1>3, <1>4

\* Only the empty set has no elements.
LEMMA NoElements ==
  ASSUME NEW S, IsFiniteSet(S), NEW P \in SUBSET S, Cardinality(P) = 0
  PROVE  P = {}
<1>1. IsFiniteSet(P)
  BY FS_Subset
<1> QED
  BY <1>1, FS_EmptySet

\* Nothing of T comes before anything of W.
Leads(W, T, val, keys) == \A a \in W, b \in T : ~Before(val[b], val[a], keys)

\* The windows, with the names of their parts.
Skipped(n, offset) == IF offset < n THEN offset ELSE n
Shown(n, limit, offset) ==
    IF limit = NoLimit \/ limit > n - Skipped(n, offset) THEN n - Skipped(n, offset) ELSE limit

IsWindow(W, val, S, keys, width, skip) ==
    /\ W \in SUBSET S /\ Cardinality(W) = width
    /\ \E P \in SUBSET (S \ W) : /\ Cardinality(P) = skip
                                 /\ Leads(P, W, val, keys)
                                 /\ Leads(P \cup W, S \ (P \cup W), val, keys)

\* A window has the width that is left, after the rows skipped.
LEMMA WindowsAre ==
  ASSUME NEW val, NEW keys, NEW limit, NEW offset
  PROVE  \A W : W \in Windows(val, keys, limit, offset) <=>
           IsWindow(W, val, DOMAIN val, keys, Shown(Cardinality(DOMAIN val), limit, offset),
                    Skipped(Cardinality(DOMAIN val), offset))
BY DEF Windows, kSubset, Leads, Skipped, Shown, IsWindow

\* A window that skips nothing leads the rest.
LEMMA LeadingWindow ==
  ASSUME NEW val, NEW S, IsFiniteSet(S), NEW keys, NEW width, NEW W
  PROVE  IsWindow(W, val, S, keys, width, 0) <=>
           W \in SUBSET S /\ Cardinality(W) = width /\ Leads(W, S \ W, val, keys)
<1>1. ASSUME IsWindow(W, val, S, keys, width, 0)
      PROVE  W \in SUBSET S /\ Cardinality(W) = width /\ Leads(W, S \ W, val, keys)
  <2>1. PICK P \in SUBSET (S \ W) : /\ Cardinality(P) = 0
                                    /\ Leads(P \cup W, S \ (P \cup W), val, keys)
    BY <1>1 DEF IsWindow
  <2>2. P \in SUBSET S
    BY <2>1
  <2>3. P = {}
    BY <2>1, <2>2, NoElements
  <2>4. P \cup W = W
    BY <2>3
  <2> QED
    BY <1>1, <2>1, <2>4 DEF IsWindow
<1>2. ASSUME W \in SUBSET S, Cardinality(W) = width, Leads(W, S \ W, val, keys)
      PROVE  IsWindow(W, val, S, keys, width, 0)
  <2> DEFINE P == {}
  <2>1. Cardinality(P) = 0 /\ P \in SUBSET (S \ W) /\ P \cup W = W
    BY FS_EmptySet
  <2>2. Leads(P, W, val, keys) /\ Leads(P \cup W, S \ (P \cup W), val, keys)
    BY <1>2, <2>1 DEF Leads
  <2> HIDE DEF P
  <2> QED
    BY <1>2, <2>1, <2>2 DEF IsWindow
<1> QED
  BY <1>1, <1>2

\* The first rows, as many as the limit leaves.
IsTop(W, val, S, keys, limit) ==
    /\ W \in SUBSET S /\ Leads(W, S \ W, val, keys)
    /\ Cardinality(W) = IF limit = NoLimit \/ limit > Cardinality(S) THEN Cardinality(S) ELSE limit

\* What a top-N is.
LEMMA TopIs ==
  ASSUME NEW val, NEW S, IsFiniteSet(S), DOMAIN val = S, NEW keys,
         NEW limit \in Nat \cup {NoLimit}, NEW W
  PROVE  W \in Windows(val, keys, limit, 0) <=> IsTop(W, val, S, keys, limit)
<1>1. Cardinality(S) \in Nat
  BY FS_CardinalityType
<1>2. Skipped(Cardinality(S), 0) = 0
  BY <1>1 DEF Skipped
<1>3. Shown(Cardinality(S), limit, 0) = IF limit = NoLimit \/ limit > Cardinality(S)
                                        THEN Cardinality(S) ELSE limit
  BY <1>1, <1>2 DEF Shown
<1>4. W \in Windows(val, keys, limit, 0) <=>
        IsWindow(W, val, S, keys, Shown(Cardinality(S), limit, 0), Skipped(Cardinality(S), 0))
  BY WindowsAre
<1>5. IsWindow(W, val, S, keys, Shown(Cardinality(S), limit, 0), 0) <=>
        /\ W \in SUBSET S /\ Cardinality(W) = Shown(Cardinality(S), limit, 0)
        /\ Leads(W, S \ W, val, keys)
  BY LeadingWindow
<1> QED
  BY <1>2, <1>3, <1>4, <1>5 DEF IsTop

\* Without a limit it is everything.
LEMMA WholeWindow ==
  ASSUME NEW val, NEW S, IsFiniteSet(S), DOMAIN val = S, NEW keys,
         NEW W \in Windows(val, keys, NoLimit, 0)
  PROVE  W = S
<1>1. NoLimit \in Nat \cup {NoLimit}
  OBVIOUS
<1>2. IsTop(W, val, S, keys, NoLimit)
  BY <1>1, TopIs
<1>3. W \in SUBSET S /\ Cardinality(W) = Cardinality(S)
  BY <1>2 DEF IsTop
<1> QED
  BY <1>3, FS_Subset

\* Of nothing, it is nothing.
LEMMA EmptyWindow ==
  ASSUME NEW val, DOMAIN val = {}, NEW keys, NEW limit \in Nat \cup {NoLimit},
         NEW offset \in Nat, NEW W
  PROVE  W \in Windows(val, keys, limit, offset) <=> W = {}
<1>1. Cardinality({}) = 0 /\ IsFiniteSet({})
  BY FS_EmptySet
<1>2. Skipped(0, offset) = 0
  BY DEF Skipped
<1>3. Shown(0, limit, offset) = 0
  BY <1>2 DEF Shown, NoLimit
<1>4. W \in Windows(val, keys, limit, offset) <=> IsWindow(W, val, {}, keys, 0, 0)
  <2>1. W \in Windows(val, keys, limit, offset) <=>
          IsWindow(W, val, {}, keys, Shown(Cardinality({}), limit, offset),
                   Skipped(Cardinality({}), offset))
    BY WindowsAre
  <2> QED
    BY <1>1, <1>2, <1>3, <2>1
<1>5. IsWindow(W, val, {}, keys, 0, 0) <=>
        W \in SUBSET {} /\ Cardinality(W) = 0 /\ Leads(W, {} \ W, val, keys)
  BY <1>1, LeadingWindow
<1> QED
  BY <1>1, <1>4, <1>5 DEF Leads

\* The tops of the parts of a set, and what they hold.
TopParts(e, part, I, val, keys, limit) ==
    \A s \in I : e[s] \in Windows([x \in part[s] |-> val[x]], keys, limit, 0)

Parts(part, I, S) ==
    /\ \A s \in I : part[s] \in SUBSET S
    /\ \A x \in S : \E s \in I : x \in part[s]

TopUnion(U, e, I) == \A x : x \in U <=> \E s \in I : x \in e[s]

\* The top-N of what the top-Ns of the parts hold is a top-N of the whole: a row
\* cut from a part has N rows of that part ahead of it.
LEMMA TopMerge ==
  ASSUME NEW S, IsFiniteSet(S), NEW keys, Ordering(keys), NEW val \in [S -> [DOMAIN keys -> Int]],
         NEW limit \in Nat, NEW I, NEW part, NEW e, NEW U,
         Parts(part, I, S), TopParts(e, part, I, val, keys, limit), TopUnion(U, e, I),
         NEW W \in Windows([x \in U |-> val[x]], keys, limit, 0)
  PROVE  W \in Windows(val, keys, limit, 0)
<1>0. limit \in Nat \cup {NoLimit} /\ limit # NoLimit
  BY DEF NoLimit
<1>1. ASSUME NEW T \in SUBSET S, NEW V \in Windows([x \in T |-> val[x]], keys, limit, 0)
      PROVE  /\ V \in SUBSET T /\ IsFiniteSet(V) /\ IsFiniteSet(T)
             /\ Leads(V, T \ V, val, keys)
             /\ Cardinality(V) = IF limit > Cardinality(T) THEN Cardinality(T) ELSE limit
  <2> DEFINE w == [x \in T |-> val[x]]
  <2>1. IsFiniteSet(T) /\ DOMAIN w = T
    BY FS_Subset
  <2>2. /\ V \in SUBSET T /\ Leads(V, T \ V, w, keys)
        /\ Cardinality(V) = IF limit = NoLimit \/ limit > Cardinality(T)
                            THEN Cardinality(T) ELSE limit
    <3> HIDE DEF w
    <3>1. V \in Windows(w, keys, limit, 0)
      BY <1>1 DEF w
    <3>2. IsTop(V, w, T, keys, limit)
      BY <1>0, <2>1, <3>1, TopIs
    <3> QED
      BY <3>2 DEF IsTop
  <2>3. Leads(V, T \ V, val, keys)
    BY <2>2 DEF Leads
  <2> QED
    BY <1>0, <2>1, <2>2, <2>3, FS_Subset
<1>2. \A s \in I : part[s] \in SUBSET S /\ e[s] \in Windows([x \in part[s] |-> val[x]], keys, limit, 0)
  BY DEF Parts, TopParts
<1>3. ASSUME NEW s \in I
      PROVE  /\ e[s] \in SUBSET part[s] /\ IsFiniteSet(e[s]) /\ e[s] \in SUBSET U
             /\ Leads(e[s], part[s] \ e[s], val, keys)
             /\ e[s] # part[s] => Cardinality(e[s]) = limit
  <2>1. /\ e[s] \in SUBSET part[s] /\ IsFiniteSet(e[s]) /\ IsFiniteSet(part[s])
        /\ Leads(e[s], part[s] \ e[s], val, keys)
        /\ Cardinality(e[s]) = IF limit > Cardinality(part[s]) THEN Cardinality(part[s]) ELSE limit
    BY <1>1, <1>2
  <2>2. Cardinality(part[s]) = Cardinality(e[s]) => part[s] = e[s]
    BY <2>1, FS_Subset
  <2>3. e[s] \in SUBSET U
    BY DEF TopUnion
  <2> QED
    BY <2>1, <2>2, <2>3
<1>4. U \in SUBSET S
  BY <1>2, <1>3 DEF TopUnion
<1>5. /\ W \in SUBSET U /\ IsFiniteSet(W) /\ IsFiniteSet(U) /\ Leads(W, U \ W, val, keys)
      /\ Cardinality(W) = IF limit > Cardinality(U) THEN Cardinality(U) ELSE limit
  BY <1>1, <1>4
<1>6. CASE \A s \in I : e[s] = part[s]
  <2>1. U = S
    BY <1>4, <1>6 DEF Parts, TopUnion
  <2>2. [x \in U |-> val[x]] = val
    BY <2>1
  <2> QED
    BY <2>2
<1>7. ASSUME NEW s \in I, e[s] # part[s]
      PROVE  W \in Windows(val, keys, limit, 0)
  <2>1. Cardinality(e[s]) = limit
    BY <1>3, <1>7
  <2>2. Cardinality(e[s]) <= Cardinality(U)
    BY <1>3, <1>5, FS_Subset
  <2>3. Cardinality(U) <= Cardinality(S) /\ Cardinality(U) \in Nat /\ Cardinality(S) \in Nat
    BY <1>4, <1>5, FS_Subset, FS_CardinalityType
  <2>4. Cardinality(W) = limit /\ ~(limit > Cardinality(S))
    BY <1>5, <2>1, <2>2, <2>3
  <2>5. ASSUME NEW a \in W, NEW b \in S \ W PROVE ~Before(val[b], val[a], keys)
    <3>1. CASE b \in U
      BY <1>5, <3>1 DEF Leads
    <3>2. CASE b \notin U
      <4>1. PICK p \in I : b \in part[p]
        BY DEF Parts
      <4>2. b \notin e[p] /\ e[p] # part[p]
        BY <1>3, <3>2, <4>1
      <4>3. Cardinality(e[p]) = limit
        BY <1>3, <4>2
      <4>4. CASE e[p] \in SUBSET W
        <5>1. W = e[p]
          BY <1>5, <2>4, <4>3, <4>4, FS_Subset
        <5> QED
          BY <1>3, <4>1, <4>2, <5>1 DEF Leads
      <4>5. ASSUME NEW c \in e[p], c \notin W PROVE ~Before(val[b], val[a], keys)
        <5>1. c \in U /\ c \in S /\ a \in S
          BY <1>3, <1>4, <1>5, <4>5
        <5>2. ~Before(val[c], val[a], keys)
          BY <1>5, <4>5, <5>1 DEF Leads
        <5>3. ~Before(val[b], val[c], keys)
          BY <1>3, <4>1, <4>2 DEF Leads
        <5>4. /\ val[a] \in [DOMAIN keys -> Int] /\ val[b] \in [DOMAIN keys -> Int]
              /\ val[c] \in [DOMAIN keys -> Int]
          BY <5>1
        <5> QED
          BY <5>2, <5>3, <5>4, WeakOrder
      <4> QED
        BY <4>4, <4>5
    <3> QED
      BY <3>1, <3>2
  <2>6. Leads(W, S \ W, val, keys) /\ W \in SUBSET S /\ DOMAIN val = S
    BY <1>4, <1>5, <2>5 DEF Leads
  <2>7. IsTop(W, val, S, keys, limit)
    BY <1>0, <2>4, <2>6 DEF IsTop
  <2> QED
    BY <1>0, <2>6, <2>7, TopIs
<1> QED
  BY <1>6, <1>7

-----------------------------------------------------------------------------
(* Predicates over the values read and over the values emitted             *)

\* The values of the columns of an expression.
Values(e) == [DOMAIN e.cols -> Int]

\* An expression of the request.
ExpressionOf(e) == e \in ToSet(request.conditions) \cup ToSet(request.filter)

\* Every operation has its columns.
LEMMA Expressions ==
  ASSUME Known, NEW e, ExpressionOf(e)
  PROVE  /\ IsList(e.cols) /\ <<e.op, Len(e.cols)>> \in Operations
         /\ \A c \in ToSet(e.cols) : c \in ColumnNodes /\ NodeOf(request.legs, c)
<1>1. /\ IsList(e.cols) /\ <<e.op, Len(e.cols)>> \in Operations
      /\ \A c \in ToSet(e.cols) : NodeOf(request.legs, c)
  BY RequestsAssumption DEF Known, ExpressionOf
<1>2. \A c \in ToSet(e.cols) : c \in ColumnNodes
  BY DEF ColumnNodes, ExpressionOf
<1> QED
  BY <1>1, <1>2

\* Which operations those are.
LEMMA OperationIs ==
  ASSUME NEW e, IsList(e.cols), <<e.op, Len(e.cols)>> \in Operations
  PROVE  /\ e.op \in {"eq", "lt", "ge2", "either", "true"}
         /\ e.op \in {"eq", "lt", "either"} => DOMAIN e.cols = {1, 2}
         /\ e.op = "ge2" => DOMAIN e.cols = {1}
<1>1. DOMAIN e.cols = 1 .. Len(e.cols)
  BY ListIs
<1>2. \/ e.op = "eq" /\ Len(e.cols) = 2
      \/ e.op = "lt" /\ Len(e.cols) = 2
      \/ e.op = "ge2" /\ Len(e.cols) = 1
      \/ e.op = "either" /\ Len(e.cols) = 2
      \/ e.op = "true" /\ Len(e.cols) = 0
  <2>1. ASSUME NEW o, NEW n, <<e.op, Len(e.cols)>> = <<o, n>>
        PROVE  e.op = o /\ Len(e.cols) = n
    BY <2>1
  <2>2. \/ <<e.op, Len(e.cols)>> = <<"eq", 2>>
        \/ <<e.op, Len(e.cols)>> = <<"lt", 2>>
        \/ <<e.op, Len(e.cols)>> = <<"ge2", 1>>
        \/ <<e.op, Len(e.cols)>> = <<"either", 2>>
        \/ <<e.op, Len(e.cols)>> = <<"true", 0>>
    BY DEF Operations
  <2> QED
    BY <2>1, <2>2
<1>3. 1 .. 2 = {1, 2} /\ 1 .. 1 = {1}
  OBVIOUS
<1>4. e.op \in {"eq", "lt", "either"} => Len(e.cols) = 2
  BY <1>2
<1>5. e.op = "ge2" => Len(e.cols) = 1
  BY <1>2
<1>6. e.op \in {"eq", "lt", "ge2", "either", "true"}
  BY <1>2
<1> QED
  BY <1>1, <1>3, <1>4, <1>5, <1>6

\* What is true of the values Exasol receives is true of those DataFusion reads: to
\* lose a value to NULL never makes a predicate true.
LEMMA EmittedTrue ==
  ASSUME NEW e, IsList(e.cols), <<e.op, Len(e.cols)>> \in Operations,
         NEW x \in Values(e), IsTrue(e, [i \in DOMAIN e.cols |-> Emit(x[i])])
  PROVE  IsTrue(e, x)
<1> DEFINE y == [i \in DOMAIN e.cols |-> Emit(x[i])]
<1>1. /\ e.op \in {"eq", "lt", "ge2", "either", "true"}
      /\ e.op \in {"eq", "lt", "either"} => DOMAIN e.cols = {1, 2}
      /\ e.op = "ge2" => DOMAIN e.cols = {1}
  BY OperationIs
<1>2. \A i \in DOMAIN e.cols : x[i] \in Int /\ y[i] = Emit(x[i])
  BY DEF Values
<1>3. IsTrue(e, y)
  OBVIOUS
<1> HIDE DEF y
<1>4. CASE e.op \in {"eq", "lt", "either"}
  <2>1. x[1] \in Int /\ x[2] \in Int /\ y[1] = Emit(x[1]) /\ y[2] = Emit(x[2])
    BY <1>1, <1>2, <1>4
  <2>2. CASE e.op = "eq"
    BY <1>3, <2>1, <2>2 DEF IsTrue, Emit, Null, Blank
  <2>3. CASE e.op = "lt"
    BY <1>3, <2>1, <2>3 DEF IsTrue, Emit, Null, Blank
  <2>4. CASE e.op = "either"
    BY <1>3, <2>1, <2>4 DEF IsTrue, Emit, Null, Blank
  <2> QED
    BY <1>4, <2>2, <2>3, <2>4
<1>5. CASE e.op = "ge2"
  <2>1. x[1] \in Int /\ y[1] = Emit(x[1])
    BY <1>1, <1>2, <1>5
  <2> QED
    BY <1>3, <1>5, <2>1 DEF IsTrue, Emit, Null, Blank
<1>6. CASE e.op = "true"
  BY <1>6 DEF IsTrue
<1> QED
  BY <1>1, <1>4, <1>5, <1>6

\* The blanks a comparison must not meet.
NoBlanks(e, x) ==
    /\ e.op = "eq" => x[1] # Blank \/ x[2] # Blank
    /\ e.op = "lt" => x[1] # Blank /\ x[2] # Blank

\* Where it meets none, the converse holds.
LEMMA ReadTrue ==
  ASSUME NEW e, IsList(e.cols), <<e.op, Len(e.cols)>> \in Operations,
         NEW x \in Values(e), NoBlanks(e, x), IsTrue(e, x)
  PROVE  IsTrue(e, [i \in DOMAIN e.cols |-> Emit(x[i])])
<1> DEFINE y == [i \in DOMAIN e.cols |-> Emit(x[i])]
<1>1. /\ e.op \in {"eq", "lt", "ge2", "either", "true"}
      /\ e.op \in {"eq", "lt", "either"} => DOMAIN e.cols = {1, 2}
      /\ e.op = "ge2" => DOMAIN e.cols = {1}
  BY OperationIs
<1>2. \A i \in DOMAIN e.cols : x[i] \in Int /\ y[i] = Emit(x[i])
  BY DEF Values
<1> SUFFICES IsTrue(e, y)
  OBVIOUS
<1> HIDE DEF y
<1>4. CASE e.op \in {"eq", "lt", "either"}
  <2>1. x[1] \in Int /\ x[2] \in Int /\ y[1] = Emit(x[1]) /\ y[2] = Emit(x[2])
    BY <1>1, <1>2, <1>4
  <2>2. CASE e.op = "eq"
    BY <2>1, <2>2 DEF IsTrue, Emit, Null, Blank, NoBlanks
  <2>3. CASE e.op = "lt"
    BY <2>1, <2>3 DEF IsTrue, Emit, Null, Blank, NoBlanks
  <2>4. CASE e.op = "either"
    BY <2>1, <2>4 DEF IsTrue, Emit, Null, Blank
  <2> QED
    BY <1>4, <2>2, <2>3, <2>4
<1>5. CASE e.op = "ge2"
  <2>1. x[1] \in Int /\ y[1] = Emit(x[1])
    BY <1>1, <1>2, <1>5
  <2> QED
    BY <1>5, <2>1 DEF IsTrue, Emit, Null, Blank
<1>6. CASE e.op = "true"
  BY <1>6 DEF IsTrue
<1> QED
  BY <1>1, <1>4, <1>5, <1>6

\* The cells of a joined row are values.
LEMMA Cells ==
  ASSUME Known, NEW t \in Tuples, NEW l \in Legs
  PROVE  /\ t[l] \in RowsOf(l)
         /\ \A n \in Columns(l) : Row(l, t[l])[n] \in Int
<1>1. t[l] \in RowsOf(l)
  BY DEF Tuples
<1>2. TableOf(l) \in DOMAIN Types
  BY LegsAre
<1> QED
  BY <1>1, <1>2, ContentsAssumption DEF Known, RowsOf, Row, Columns

\* What every column of an expression reads in a joined row.
Resolved(e) == \A c \in ToSet(e.cols) : c.of \in Legs /\ resolve_column(c) = c.of

Read(e, t) == [i \in DOMAIN e.cols |-> Row(e.cols[i].of, t[e.cols[i].of])[e.cols[i].name]]

AsMeant(e, t) == IsTrue(e, [i \in DOMAIN e.cols |-> Meant(e.cols[i], t)])

\* The values read are values of the expression.
LEMMA ReadValues ==
  ASSUME Known, NEW e, ExpressionOf(e), Resolved(e), NEW t \in Tuples
  PROVE  /\ Read(e, t) \in Values(e)
         /\ AsMeant(e, t) = IsTrue(e, [i \in DOMAIN e.cols |-> Emit(Read(e, t)[i])])
         /\ InExasol(e, t) = AsMeant(e, t)
         /\ Natively(e, t) = IsTrue(e, Read(e, t))
<1>1. IsList(e.cols) /\ \A c \in ToSet(e.cols) : NodeOf(request.legs, c)
  BY Expressions
<1>2. \A i \in DOMAIN e.cols : e.cols[i] \in ToSet(e.cols)
  BY <1>1, ListIs
<1>3. ASSUME NEW i \in DOMAIN e.cols
      PROVE  /\ e.cols[i].of \in Legs /\ resolve_column(e.cols[i]) = e.cols[i].of
             /\ Row(e.cols[i].of, t[e.cols[i].of])[e.cols[i].name] \in Int
  <2>1. e.cols[i].of \in Legs /\ resolve_column(e.cols[i]) = e.cols[i].of
    BY <1>2 DEF Resolved
  <2>2. NodeOf(request.legs, e.cols[i])
    BY <1>1, <1>2
  <2>3. e.cols[i].of # NoLeg
    BY <2>1, LegsAre DEF NoLeg
  <2>4. e.cols[i].name \in Columns(e.cols[i].of)
    BY <2>2, <2>3 DEF NodeOf, Columns, TableOf
  <2> QED
    BY <2>1, <2>4, Cells
<1>4. Read(e, t) \in Values(e)
  BY <1>3 DEF Read, Values
<1>5. [i \in DOMAIN e.cols |-> Emit(Read(e, t)[i])] = [i \in DOMAIN e.cols |-> Meant(e.cols[i], t)]
  BY DEF Read, Meant
<1>6. [i \in DOMAIN e.cols |->
         Emit(Row(resolve_column(e.cols[i]), t[resolve_column(e.cols[i])])[e.cols[i].name])]
        = [i \in DOMAIN e.cols |-> Meant(e.cols[i], t)]
  BY <1>3 DEF Meant
<1>7. [i \in DOMAIN e.cols |->
         Row(resolve_column(e.cols[i]), t[resolve_column(e.cols[i])])[e.cols[i].name]]
        = Read(e, t)
  BY <1>3 DEF Read
<1>8. AsMeant(e, t) = IsTrue(e, [i \in DOMAIN e.cols |-> Emit(Read(e, t)[i])])
  BY <1>5 DEF AsMeant
<1>9. InExasol(e, t) = AsMeant(e, t)
  BY <1>6 DEF InExasol, AsMeant
<1>10. Natively(e, t) = IsTrue(e, Read(e, t))
  BY <1>7 DEF Natively
<1> QED
  BY <1>4, <1>8, <1>9, <1>10

\* DataFusion keeps every row SQL keeps, and no other where it meets no blank.
LEMMA ReadAsMeant ==
  ASSUME Known, NEW e, ExpressionOf(e), Resolved(e), NEW t \in Tuples
  PROVE  /\ AsMeant(e, t) => Natively(e, t)
         /\ DecidedAlike(data, e) /\ Natively(e, t) => AsMeant(e, t)
<1>0. IsList(e.cols) /\ <<e.op, Len(e.cols)>> \in Operations
  BY Expressions
<1>1. /\ Read(e, t) \in Values(e)
      /\ AsMeant(e, t) = IsTrue(e, [i \in DOMAIN e.cols |-> Emit(Read(e, t)[i])])
      /\ Natively(e, t) = IsTrue(e, Read(e, t))
  BY ReadValues
<1>2. AsMeant(e, t) => Natively(e, t)
  BY <1>0, <1>1, EmittedTrue
<1>3. ASSUME DecidedAlike(data, e), Natively(e, t) PROVE AsMeant(e, t)
  <2>1. ASSUME NEW i \in DOMAIN e.cols, Read(e, t)[i] = Blank PROVE ReadsBlank(data, e.cols[i])
    <3>1. e.cols[i] \in ToSet(e.cols)
      BY <1>0, ListIs
    <3>2. e.cols[i].of \in Legs /\ e.cols[i].of # NoLeg
      BY <3>1, LegsAre DEF Resolved, NoLeg
    <3>3. TableOf(e.cols[i].of) = e.cols[i].table
      BY <3>1, <3>2, Expressions, Attribution
    <3>4. t[e.cols[i].of] \in DOMAIN data[e.cols[i].table]
      BY <3>2, <3>3, Cells DEF RowsOf
    <3>5. data[e.cols[i].table][t[e.cols[i].of]][e.cols[i].name] = Blank
      BY <2>1, <3>3 DEF Read, Row
    <3> QED
      BY <3>4, <3>5 DEF ReadsBlank
  <2>2. NoBlanks(e, Read(e, t))
    <3>1. e.op \in {"eq", "lt", "either"} => DOMAIN e.cols = {1, 2}
      BY <1>0, OperationIs
    <3>2. CASE e.op \in {"eq", "lt"}
      <4>1. 1 \in DOMAIN e.cols /\ 2 \in DOMAIN e.cols
        BY <3>1, <3>2
      <4>2. /\ Read(e, t)[1] = Blank => ReadsBlank(data, e.cols[1])
            /\ Read(e, t)[2] = Blank => ReadsBlank(data, e.cols[2])
        BY <2>1, <4>1
      <4> QED
        BY <1>3, <4>2 DEF DecidedAlike, NoBlanks
    <3>3. CASE e.op \notin {"eq", "lt"}
      BY <3>3 DEF NoBlanks
    <3> QED
      BY <3>2, <3>3
  <2> QED
    BY <1>0, <1>1, <1>3, <2>2, ReadTrue
<1> QED
  BY <1>2, <1>3

-----------------------------------------------------------------------------
(* Pruning and the route of N scans                                        *)

\* A conjunct is local to a leg when all its columns are that leg's.
LEMMA ConjunctLeg ==
  ASSUME Known, NEW e, ExpressionOf(e)
  PROVE  /\ conjunct_leg(e) \in Legs \cup {NoLeg}
         /\ \A l \in Legs : conjunct_leg(e) = l =>
              /\ Resolved(e) /\ \A c \in ToSet(e.cols) : c.of = l
<1> DEFINE L == legs_referenced(e)
<1>1. Legs \in SUBSET Int /\ NoLeg \notin Legs
  BY LegsAre DEF NoLeg
<1>2. ASSUME Cardinality(L) = 1, L \subseteq Legs
      PROVE  conjunct_leg(e) \in Legs /\ L = {conjunct_leg(e)}
  <2>1. conjunct_leg(e) = Min(L)
    BY <1>2 DEF conjunct_leg
  <2>2. IsFiniteSet(L)
    <3>1. Legs = 1 .. Len(request.legs) /\ Len(request.legs) \in Nat
      BY LegsAre
    <3>2. IsFiniteSet(Legs)
      BY <3>1, FS_Interval
    <3> HIDE DEF L
    <3> QED
      BY <1>2, <3>2, FS_Subset
  <2> HIDE DEF L
  <2>3. PICK x : L = {x}
    BY <1>2, <2>2, FS_Singleton
  <2>4. x \in Legs /\ {x} \in SUBSET Int
    BY <1>1, <1>2, <2>3
  <2>5. Min({x}) = x
    BY <2>4, MinIs
  <2> QED
    BY <2>1, <2>3, <2>4, <2>5
<1>3. ~(Cardinality(L) = 1 /\ L \subseteq Legs) => conjunct_leg(e) = NoLeg
  BY DEF conjunct_leg
<1>4. ASSUME NEW l \in Legs, conjunct_leg(e) = l
      PROVE  Resolved(e) /\ \A c \in ToSet(e.cols) : c.of = l
  <2>1. L = {l}
    BY <1>1, <1>2, <1>3, <1>4
  <2>2. ASSUME NEW c \in ToSet(e.cols) PROVE resolve_column(c) = l /\ c.of = l
    <3>1. resolve_column(c) = l
      BY <2>1 DEF legs_referenced
    <3> QED
      BY <3>1, Expressions, Attributed
  <2> QED
    BY <2>2 DEF Resolved
<1> QED
  BY <1>2, <1>3, <1>4

\* A predicate over the columns of one leg, on a row of that leg.
RowTrue(e, l, r) == IsTrue(e, [j \in DOMAIN e.cols |-> Row(l, r)[e.cols[j].name]])

\* A local conjunct is decided on the row of its leg alone.
LEMMA LocalRow ==
  ASSUME Known, NEW e, ExpressionOf(e), NEW l \in Legs, conjunct_leg(e) = l, NEW t \in Tuples
  PROVE  RowTrue(e, l, t[l]) = Natively(e, t)
<1>1. Resolved(e) /\ \A c \in ToSet(e.cols) : c.of = l
  BY ConjunctLeg
<1>2. \A i \in DOMAIN e.cols : e.cols[i].of = l
  BY <1>1, Expressions, ListIs
<1>3. [j \in DOMAIN e.cols |-> Row(l, t[l])[e.cols[j].name]] = Read(e, t)
  BY <1>2 DEF Read
<1> QED
  BY <1>1, <1>3, ReadValues DEF RowTrue

\* The joined rows, expression by expression.
LEMMA TheJoinIs ==
  ASSUME NEW t
  PROVE  t \in TheJoin <=> t \in Tuples /\ \A e : ExpressionOf(e) => AsMeant(e, t)
BY DEF TheJoin, ExpressionOf, AsMeant

\* Conjuncts are expressions of the request.
LEMMA ConjunctsAre ==
  ASSUME NEW i \in Conjuncts
  PROVE  ExpressionOf(request.filter[i])
BY DEF Conjuncts, ExpressionOf, ToSet

\* So are the conditions.
LEMMA ConditionsAre ==
  ASSUME NEW i \in DOMAIN request.conditions
  PROVE  ExpressionOf(request.conditions[i])
BY DEF ExpressionOf, ToSet

\* The rows of a joined row are in files that pruning kept.
LEMMA KeptRows ==
  ASSUME Known, PrunedLegs, NEW t \in TheJoin, NEW l \in Legs
  PROVE  Row(l, t[l]).file \in kept[l]
<1>1. t \in Tuples /\ \A e : ExpressionOf(e) => AsMeant(e, t)
  BY TheJoinIs
<1>2. t[l] \in RowsOf(l)
  BY <1>1, Cells
<1>3. ASSUME NEW i \in PruneFilter(l) PROVE RowTrue(request.filter[i], l, t[l])
  <2>1. i \in Conjuncts /\ conjunct_leg(request.filter[i]) = l
    BY DEF PruneFilter, leg_local_filter
  <2>2. ExpressionOf(request.filter[i])
    BY <2>1, ConjunctsAre
  <2>3. Resolved(request.filter[i])
    BY <2>1, <2>2, ConjunctLeg
  <2>4. Natively(request.filter[i], t)
    BY <1>1, <2>2, <2>3, ReadAsMeant
  <2> QED
    BY <1>1, <2>1, <2>2, <2>4, LocalRow
<1>4. Row(l, t[l]).file \in kept[l] \/ \E i \in PruneFilter(l) : ~RowTrue(request.filter[i], l, t[l])
  BY <1>2 DEF PrunedLegs, MayKeep, RowTrue
<1> QED
  BY <1>3, <1>4

\* A side without files left joins to nothing.
LEMMA EmptyJoin ==
  ASSUME Known, PrunedLegs, NEW l \in Legs, kept[l] = {}
  PROVE  TheJoin = {}
BY KeptRows

\* The three plans.
LEMMA PlanIs ==
         /\ PlannedJoin.kind \in {"empty", "broadcast", "nscan"}
         /\ PlannedJoin.kind = "empty" =>
              PlannedJoin = EmptyPlan /\ \E l \in Legs : kept[l] = {}
         /\ PlannedJoin.kind = "broadcast" => PlannedJoin = BroadcastPlan /\ BroadcastServes
         /\ PlannedJoin.kind = "nscan" => PlannedJoin = NScanPlan
<1>1. EmptyPlan.kind = "empty" /\ BroadcastPlan.kind = "broadcast" /\ NScanPlan.kind = "nscan"
  BY DEF EmptyPlan, BroadcastPlan, NScanPlan
<1> QED
  BY <1>1 DEF PlannedJoin

\* A plan that scans has found the occurrence of every column.
LEMMA Served ==
  ASSUME Known, ~PlanDeclines, PlannedJoin.kind # "empty"
  PROVE  /\ \A c \in ColumnNodes : c.of \in Legs /\ resolve_column(c) = c.of
                                   /\ c.name \in Columns(c.of)
         /\ \A e : ExpressionOf(e) => Resolved(e)
<1>1. ASSUME NEW c \in ColumnNodes PROVE c.of # NoLeg
  <2>1. CASE PlannedJoin.kind = "broadcast"
    <3>1. broadcast_eligible
      BY <2>1, PlanIs DEF BroadcastServes
    <3>2. resolve_column(c) \in Legs
      BY <3>1 DEF PlanDeclines
    <3> QED
      BY <3>2, NodesAre, Attributed
  <2>2. CASE PlannedJoin.kind = "nscan"
    <3>1. resolve_column(c) # Unattributable
      BY <2>2 DEF PlanDeclines, NScanDeclines, OuterDeclines
    <3> QED
      BY <3>1, NodesAre, Attribution
  <2> QED
    BY <2>1, <2>2, PlanIs
<1>2. ASSUME NEW c \in ColumnNodes
      PROVE  c.of \in Legs /\ resolve_column(c) = c.of /\ c.name \in Columns(c.of)
  <2>1. c.of \in Legs /\ resolve_column(c) = c.of /\ TableOf(c.of) = c.table
    BY <1>1, NodesAre, Attribution
  <2>2. c.name \in DOMAIN Types[c.table]
    BY NodesAre DEF NodeOf
  <2> QED
    BY <2>1, <2>2 DEF Columns
<1>3. \A e : ExpressionOf(e) => Resolved(e)
  BY <1>2, Expressions DEF Resolved
<1> QED
  BY <1>2, <1>3

\* Every conjunct is applied by its leg or by the outer WHERE.
LEMMA ConjunctPlaced ==
  ASSUME Known, NEW i \in Conjuncts
  PROVE  \/ i \in Residual
         \/ /\ request.filter[i].render = "both"
            /\ \E l \in Legs : /\ conjunct_leg(request.filter[i]) = l
                               /\ i \in TypeAccepted(leg_local_filter(renderable_only, l))
<1> DEFINE local == UNION {leg_local_filter(renderable_only, l) : l \in Legs}
<1>0. Residual = cross_leg_residual_filter(renderable_only) \cup declined_only
                   \cup (local \ TypeAccepted(Conjuncts))
  BY DEF Residual
<1>1. conjunct_leg(request.filter[i]) \in Legs \cup {NoLeg}
  BY ConjunctsAre, ConjunctLeg
<1>2. CASE i \notin renderable_only
  BY <1>2 DEF Residual, declined_only
<1>3. CASE i \in renderable_only /\ conjunct_leg(request.filter[i]) = NoLeg
  BY <1>3 DEF Residual, cross_leg_residual_filter
<1>4. CASE i \in renderable_only /\ conjunct_leg(request.filter[i]) \in Legs
  <2>1. PICK l \in Legs : conjunct_leg(request.filter[i]) = l
    BY <1>4
  <2>2. i \in leg_local_filter(renderable_only, l)
    BY <1>4, <2>1 DEF leg_local_filter
  <2>3. CASE request.filter[i].render = "both"
    BY <2>1, <2>2, <2>3 DEF TypeAccepted
  <2>4. CASE request.filter[i].render # "both"
    <3>1. i \notin TypeAccepted(Conjuncts)
      BY <2>4 DEF TypeAccepted
    <3>2. i \in local
      BY <2>2
    <3> HIDE DEF local
    <3> QED
      BY <1>0, <3>1, <3>2
  <2> QED
    BY <2>3, <2>4
<1> QED
  BY <1>1, <1>2, <1>3, <1>4

\* Every condition is attached to a join point or to the outer WHERE, where its
\* legs are in scope.
LEMMA ConditionPlaced ==
  ASSUME Known, NEW i \in DOMAIN request.conditions
  PROVE  /\ JoinPoint(i) \in Legs \cup {NoLeg} /\ JoinPoint(i) # 1
         /\ JoinPoint(i) # NoLeg => legs_referenced(request.conditions[i]) \subseteq 1 .. JoinPoint(i)
<1> DEFINE e == request.conditions[i]
           L == legs_referenced(e)
           a == attachment_leg(e)
<1>1. Legs = 1 .. Len(request.legs) /\ Len(request.legs) \in Nat /\ Len(request.legs) >= 2
  <2>1. IsList(request.conditions)
    BY RequestsAssumption DEF Known
  <2>2. Len(request.conditions) \in Nat /\ i \in 1 .. Len(request.conditions)
    BY <2>1, ListIs
  <2> QED
    BY <2>2, LegsAre
<1>2. JoinPoint(i) = IF a = 1 THEN 2 ELSE a
  BY DEF JoinPoint
<1>3. CASE e.cols # <<>> /\ L \subseteq Legs
  <2>1. a = Max(L)
    BY <1>3 DEF attachment_leg
  <2>2. L # {}
    <3>1. IsList(e.cols)
      BY ConditionsAre, Expressions
    <3>2. \E j \in DOMAIN e.cols : TRUE
      <4> DEFINE q == e.cols
      <4>1. q \in Seq(ToSet(q)) /\ q # <<>>
        BY <1>3, <3>1 DEF IsList
      <4> HIDE DEF q
      <4>2. 1 \in DOMAIN q
        BY <4>1
      <4> QED
        BY <4>2 DEF q
    <3> QED
      BY <3>2 DEF legs_referenced, ToSet
  <2>3. IsFiniteSet(L) /\ L \in SUBSET Int
    <3>1. IsFiniteSet(Legs) /\ Legs \in SUBSET Int
      BY <1>1, FS_Interval
    <3>2. L \in SUBSET Legs
      BY <1>3
    <3> HIDE DEF L
    <3>3. IsFiniteSet(L)
      BY <3>1, <3>2, FS_Subset
    <3> QED
      BY <3>1, <3>2, <3>3
  <2>4. a \in L /\ \A y \in L : y <= a
    <3> HIDE DEF L, a
    <3> QED
      BY <2>1, <2>2, <2>3, MaxIs
  <2> HIDE DEF L, a, e
  <2>5. a \in Legs /\ L \subseteq 1 .. a
    BY <1>1, <1>3, <2>3, <2>4
  <2>6. CASE a = 1
    <3>1. L \subseteq 1 .. 2
      BY <2>5, <2>6
    <3> QED
      BY <1>1, <1>2, <2>6, <3>1 DEF L, e, NoLeg
  <2>7. CASE a # 1
    BY <1>2, <2>5, <2>7 DEF L, e
  <2> QED
    BY <2>6, <2>7
<1>4. CASE ~(e.cols # <<>> /\ L \subseteq Legs)
  <2>1. a = NoLeg
    BY <1>4 DEF attachment_leg
  <2> HIDE DEF a
  <2> QED
    BY <1>2, <2>1 DEF NoLeg
<1> QED
  BY <1>3, <1>4

\* A state that scans what was planned.
Scanning ==
    /\ Known /\ PrunedLegs /\ plan = PlannedJoin /\ ~PlanDeclines
    /\ DOMAIN emitted \subseteq ScanCalls
    /\ \A c \in DOMAIN emitted : emitted[c] \in ScanOutputs(c)

\* Nothing is left to scan.
Scanned == Scanning /\ Unscanned = {}

\* The columns a leg emits are those that clauses name, or all.
LEMMA LegColumns ==
  ASSUME Known, ~PlanDeclines, PlannedJoin.kind = "nscan", NEW c \in ColumnNodes
  PROVE  c.name \in referenced_leg_columns(resolve_column(c))
<1>1. c.of \in Legs /\ resolve_column(c) = c.of /\ c.name \in Columns(c.of)
  BY Served
<1>2. c.name \in {n.name : n \in {m \in ColumnNodes : resolve_column(m) = c.of}}
  BY <1>1
<1> QED
  BY <1>1, <1>2 DEF referenced_leg_columns

\* The SQL of N scans names only what is in scope.
LEMMA NScanResolves ==
  ASSUME Scanning, plan.kind = "nscan"
  PROVE  SqlResolves
<1>1. plan = NScanPlan /\ PlannedJoin.kind = "nscan" /\ Known /\ ~PlanDeclines
  BY PlanIs DEF Scanning
<1>2. ASSUME NEW l \in Legs, NEW i \in plan.on[l]
      PROVE  legs_referenced(request.conditions[i]) \subseteq 1 .. l
  <2>1. plan.on[l] = {k \in DOMAIN request.conditions : l > 1 /\ JoinPoint(k) = l}
    BY <1>1 DEF NScanPlan
  <2>2. i \in DOMAIN request.conditions /\ JoinPoint(i) = l
    BY <2>1
  <2>3. l # NoLeg
    BY <1>1, LegsAre DEF NoLeg
  <2> QED
    BY <1>1, <2>2, <2>3, ConditionPlaced
<1>3. plan.residual \subseteq DOMAIN request.filter /\ plan.outer.order_by = request.order_by
  <2>1. plan.residual = Residual /\ plan.outer.order_by = request.order_by
    BY <1>1 DEF NScanPlan, Outer
  <2> QED
    BY <2>1 DEF Residual, cross_leg_residual_filter, leg_local_filter, renderable_only,
                declined_only, Conjuncts
<1>4. ASSUME NEW c \in ColumnNodes PROVE c.name \in plan.cols[resolve_column(c)]
  <2>1. resolve_column(c) \in Legs
    BY <1>1, Served
  <2>2. plan.cols[resolve_column(c)] = referenced_leg_columns(resolve_column(c))
    BY <1>1, <2>1 DEF NScanPlan
  <2> QED
    BY <1>1, <2>2, LegColumns
<1> DEFINE read == ToSet(request.items)
                     \cup (UNION {ToSet(e.cols) : e \in ToSet(request.conditions)})
                     \cup (UNION {ToSet(request.filter[i].cols) : i \in plan.residual})
                     \cup {key.col : key \in ToSet(plan.outer.order_by)}
<1>5. read \subseteq ColumnNodes
  <2>1. \A i \in plan.residual : request.filter[i] \in ToSet(request.filter)
    BY <1>3 DEF ToSet
  <2>2. UNION {ToSet(request.filter[i].cols) : i \in plan.residual} \subseteq ColumnNodes
    BY <2>1 DEF ColumnNodes
  <2>3. UNION {ToSet(e.cols) : e \in ToSet(request.conditions)} \subseteq ColumnNodes
    BY DEF ColumnNodes
  <2>4. {key.col : key \in ToSet(plan.outer.order_by)} \subseteq ColumnNodes
    BY <1>3 DEF ColumnNodes
  <2>5. ToSet(request.items) \subseteq ColumnNodes
    BY DEF ColumnNodes
  <2> QED
    BY <2>2, <2>3, <2>4, <2>5
<1>6. \A c \in read : c.name \in plan.cols[resolve_column(c)]
  BY <1>4, <1>5
<1>7. SqlResolves <=> /\ \A l \in Legs : \A i \in plan.on[l] :
                           legs_referenced(request.conditions[i]) \subseteq 1 .. l
                      /\ \A c \in read : c.name \in plan.cols[resolve_column(c)]
  BY DEF SqlResolves
<1> HIDE DEF read
<1> QED
  BY <1>2, <1>6, <1>7

\* The rows a leg's scans emit.
LEMMA LegRows ==
  ASSUME Scanned, plan.kind = "nscan", NEW l \in Legs, NEW r
  PROVE  (\E c \in DOMAIN emitted : c[1] = l /\ r \in emitted[c]) <=>
           /\ r \in RowsOf(l) /\ Row(l, r).file \in kept[l]
           /\ \A i \in plan.filters[l] : RowTrue(request.filter[i], l, r)
<1>1. ScanCalls = UNION {{<<m, f>> : f \in kept[m]} : m \in Legs}
  BY DEF ScanCalls
<1>2. DOMAIN emitted = ScanCalls
  BY DEF Scanned, Scanning, Unscanned
<1>3. \A c \in DOMAIN emitted : emitted[c] = {q \in RowsOf(c[1]) :
             /\ Row(c[1], q).file = c[2]
             /\ \A i \in plan.filters[c[1]] : RowTrue(request.filter[i], c[1], q)}
  BY DEF Scanned, Scanning, ScanOutputs, RowTrue
<1>4. \A c \in DOMAIN emitted : c[1] = l => c[2] \in kept[l]
  BY <1>1, <1>2
<1>5. ASSUME NEW c \in DOMAIN emitted, c[1] = l, r \in emitted[c]
      PROVE  /\ r \in RowsOf(l) /\ Row(l, r).file \in kept[l]
             /\ \A i \in plan.filters[l] : RowTrue(request.filter[i], l, r)
  BY <1>3, <1>4, <1>5
<1>6. ASSUME r \in RowsOf(l), Row(l, r).file \in kept[l],
             \A i \in plan.filters[l] : RowTrue(request.filter[i], l, r)
      PROVE  \E c \in DOMAIN emitted : c[1] = l /\ r \in emitted[c]
  <2> DEFINE c == <<l, Row(l, r).file>>
  <2>1. c \in DOMAIN emitted /\ c[1] = l /\ c[2] = Row(l, r).file
    BY <1>1, <1>2, <1>6
  <2> HIDE DEF c
  <2>2. r \in emitted[c]
    BY <1>3, <1>6, <2>1
  <2> QED
    BY <2>1, <2>2
<1> QED
  BY <1>5, <1>6

\* Where its assumption on blanks holds, the conjuncts and conditions that
\* DataFusion may be given are decided as Exasol decides them.
LEMMA Alike ==
  ASSUME NoBlankCompared(Requests, Contents), Known
  PROVE  /\ \A i \in Conjuncts : request.filter[i].render = "both" => DecidedAlike(data, request.filter[i])
         /\ \A i \in DOMAIN request.conditions :
              request.conditions[i].render \in {"both", "typed"} => DecidedAlike(data, request.conditions[i])
BY DEF NoBlankCompared, Known, Conjuncts, ToSet

\* What Exasol joins from the legs is the join.
LEMMA NScanJoined ==
  ASSUME NoBlankCompared(Requests, Contents), Scanned, plan.kind = "nscan"
  PROVE  Joined = TheJoin
<1>1. /\ plan = NScanPlan /\ PlannedJoin.kind = "nscan" /\ Known /\ ~PlanDeclines /\ PrunedLegs
      /\ \A e : ExpressionOf(e) => Resolved(e)
  BY PlanIs, Served DEF Scanned, Scanning
<1> DEFINE attached == (UNION Range(plan.on)) \cup plan.where
<1>2. /\ \A l \in Legs : plan.filters[l] = TypeAccepted(leg_local_filter(renderable_only, l))
      /\ plan.residual = Residual
      /\ plan.on = [l \in Legs |-> {i \in DOMAIN request.conditions : l > 1 /\ JoinPoint(i) = l}]
      /\ plan.where = {i \in DOMAIN request.conditions : JoinPoint(i) = NoLeg}
  BY <1>1 DEF NScanPlan
<1>3. attached = DOMAIN request.conditions
  <2>1. ASSUME NEW i \in DOMAIN request.conditions PROVE i \in attached
    <3>1. JoinPoint(i) \in Legs \cup {NoLeg} /\ JoinPoint(i) # 1
      BY <1>1, ConditionPlaced
    <3>2. CASE JoinPoint(i) = NoLeg
      BY <1>2, <3>2
    <3>3. ASSUME NEW l \in Legs, JoinPoint(i) = l PROVE i \in attached
      <4>1. l > 1
        BY <1>1, <3>1, <3>3, LegsAre
      <4>2. i \in plan.on[l] /\ plan.on[l] \in Range(plan.on)
        BY <1>2, <3>3, <4>1 DEF Range
      <4> QED
        BY <4>2
    <3> QED
      BY <3>1, <3>2, <3>3
  <2>2. ASSUME NEW i \in attached PROVE i \in DOMAIN request.conditions
    BY <1>2 DEF Range
  <2> QED
    BY <2>1, <2>2
<1>4. ASSUME NEW t
      PROVE  t \in Joined <=>
               /\ t \in Tuples
               /\ \A l \in Legs : \E c \in DOMAIN emitted : c[1] = l /\ t[l] \in emitted[c]
               /\ \A i \in DOMAIN request.conditions : InExasol(request.conditions[i], t)
               /\ \A i \in Residual : InExasol(request.filter[i], t)
  <2>1. Joined = {u \in Tuples :
              /\ \A l \in Legs : \E c \in DOMAIN emitted : c[1] = l /\ u[l] \in emitted[c]
              /\ \A i \in attached : InExasol(request.conditions[i], u)
              /\ \A i \in plan.residual : InExasol(request.filter[i], u)}
    BY DEF Joined
  <2> HIDE DEF attached
  <2> QED
    BY <1>2, <1>3, <2>1
<1>5. ASSUME NEW t \in TheJoin PROVE t \in Joined
  <2>1. t \in Tuples /\ \A e : ExpressionOf(e) => AsMeant(e, t)
    BY TheJoinIs
  <2>2. ASSUME NEW l \in Legs
        PROVE  \E c \in DOMAIN emitted : c[1] = l /\ t[l] \in emitted[c]
    <3>1. t[l] \in RowsOf(l) /\ Row(l, t[l]).file \in kept[l]
      BY <1>1, <2>1, Cells, KeptRows
    <3>2. ASSUME NEW i \in plan.filters[l] PROVE RowTrue(request.filter[i], l, t[l])
      <4>1. i \in Conjuncts /\ conjunct_leg(request.filter[i]) = l
        BY <1>2 DEF TypeAccepted, leg_local_filter, renderable_only
      <4>2. ExpressionOf(request.filter[i])
        BY <4>1, ConjunctsAre
      <4>3. Natively(request.filter[i], t)
        BY <1>1, <2>1, <4>2, ReadAsMeant
      <4> QED
        BY <1>1, <2>1, <4>1, <4>2, <4>3, LocalRow
    <3> QED
      BY <3>1, <3>2, LegRows
  <2>3. ASSUME NEW i \in DOMAIN request.conditions PROVE InExasol(request.conditions[i], t)
    BY <1>1, <2>1, ConditionsAre, ReadValues
  <2>4. ASSUME NEW i \in Residual PROVE InExasol(request.filter[i], t)
    <3>1. i \in Conjuncts
      BY DEF Residual, cross_leg_residual_filter, leg_local_filter, renderable_only,
             declined_only
    <3> QED
      BY <1>1, <2>1, <3>1, ConjunctsAre, ReadValues
  <2> QED
    BY <1>4, <2>1, <2>2, <2>3, <2>4
<1>6. ASSUME NEW t \in Joined PROVE t \in TheJoin
  <2>1. /\ t \in Tuples
        /\ \A l \in Legs : \E c \in DOMAIN emitted : c[1] = l /\ t[l] \in emitted[c]
        /\ \A i \in DOMAIN request.conditions : InExasol(request.conditions[i], t)
        /\ \A i \in Residual : InExasol(request.filter[i], t)
    BY <1>4
  <2>2. ASSUME NEW i \in DOMAIN request.conditions PROVE AsMeant(request.conditions[i], t)
    BY <1>1, <2>1, ConditionsAre, ReadValues
  <2>3. ASSUME NEW i \in Conjuncts PROVE AsMeant(request.filter[i], t)
    <3>0. ExpressionOf(request.filter[i])
      BY ConjunctsAre
    <3>1. CASE i \in Residual
      BY <1>1, <2>1, <3>0, <3>1, ReadValues
    <3>2. ASSUME request.filter[i].render = "both", NEW l \in Legs,
                 conjunct_leg(request.filter[i]) = l, i \in plan.filters[l]
          PROVE  AsMeant(request.filter[i], t)
      <4>1. RowTrue(request.filter[i], l, t[l])
        BY <2>1, <3>2, LegRows
      <4>2. Natively(request.filter[i], t)
        BY <1>1, <2>1, <3>0, <3>2, <4>1, LocalRow
      <4>3. DecidedAlike(data, request.filter[i])
        BY <1>1, <3>2, Alike
      <4> QED
        BY <1>1, <2>1, <3>0, <4>2, <4>3, ReadAsMeant
    <3> QED
      BY <1>1, <1>2, <3>1, <3>2, ConjunctPlaced
  <2>4. ASSUME NEW e, ExpressionOf(e) PROVE AsMeant(e, t)
    <3>1. \/ \E i \in DOMAIN request.conditions : e = request.conditions[i]
          \/ \E i \in Conjuncts : e = request.filter[i]
      BY <2>4 DEF ExpressionOf, ToSet, Conjuncts
    <3> QED
      BY <2>2, <2>3, <3>1
  <2> QED
    BY <2>1, <2>4, TheJoinIs
<1> QED
  BY <1>5, <1>6

-----------------------------------------------------------------------------
(* The broadcast                                                           *)

\* What plan_join has made sure of before it broadcasts a side.
LEMMA BroadcastIs ==
  ASSUME Scanning, plan.kind = "broadcast"
  PROVE  /\ Known /\ PrunedLegs /\ ~PlanDeclines /\ plan = BroadcastPlan /\ BroadcastServes
         /\ Legs = {1, 2} /\ plan.fact \in Legs
         /\ 3 - plan.fact \in Legs /\ \A l \in Legs : l = plan.fact \/ l = 3 - plan.fact
         /\ DOMAIN request.conditions = {1} /\ request.conditions[1].render \in {"both", "typed"}
         /\ plan.filter = Conjuncts /\ \A i \in Conjuncts : request.filter[i].render = "both"
         /\ \A e : ExpressionOf(e) => Resolved(e)
         /\ ~PostProcessed
<1>1. /\ Known /\ PrunedLegs /\ ~PlanDeclines /\ plan = BroadcastPlan /\ BroadcastServes
      /\ PlannedJoin.kind = "broadcast"
  BY PlanIs DEF Scanning
<1>2. \A e : ExpressionOf(e) => Resolved(e)
  BY <1>1, Served
<1>3. Len(request.legs) = 2 /\ classify_join_window # "post" /\ render_broadcast_join
  BY <1>1 DEF BroadcastServes, broadcast_eligible
<1>4. Legs = {1, 2} /\ Len(request.conditions) = 1
  <2>1. Legs = 1 .. 2 /\ 2 = Len(request.conditions) + 1
    BY <1>1, <1>3, LegsAre
  <2>2. Len(request.conditions) \in Nat
    <3>1. IsList(request.conditions)
      BY <1>1, RequestsAssumption DEF Known
    <3> QED
      BY <3>1, ListIs
  <2>3. 1 .. 2 = {1, 2}
    OBVIOUS
  <2>4. Len(request.conditions) = 1
    <3>1. \A n \in Nat : 2 = n + 1 => n = 1
      OBVIOUS
    <3> QED
      BY <2>1, <2>2, <3>1, Zenon
  <2> QED
    BY <2>1, <2>3, <2>4, Zenon
<1>5. DOMAIN request.conditions = {1}
  <2>1. IsList(request.conditions)
    BY <1>1, RequestsAssumption DEF Known
  <2>2. DOMAIN request.conditions = 1 .. 1
    BY <1>4, <2>1, ListIs
  <2> QED
    BY <2>2
<1>6. request.conditions[1].render \in {"both", "typed"} /\ TypeAccepted(Conjuncts) = Conjuncts
  BY <1>3 DEF render_broadcast_join
<1>7. \A i \in Conjuncts : request.filter[i].render = "both"
  BY <1>6 DEF TypeAccepted
<1>8. plan.filter = Conjuncts /\ plan.fact = fact_leg
  BY <1>1, <1>6 DEF BroadcastPlan, BroadcastFilter
<1>9. fact_leg \in {1, 2} /\ 3 - fact_leg \in {1, 2} /\ fact_leg # 3 - fact_leg
  BY DEF fact_leg, dimension_leg
<1>10. ~PostProcessed
  BY <1>3 DEF classify_join_window
<1>11. \A l \in Legs : l = plan.fact \/ l = 3 - plan.fact
  BY <1>4, <1>8, <1>9
<1> QED
  BY <1>1, <1>2, <1>4, <1>5, <1>6, <1>7, <1>8, <1>9, <1>10, <1>11

\* A shard is given a cap only when a LIMIT without OFFSET is all the window.
LEMMA BroadcastWindow ==
  ASSUME Scanning, plan.kind = "broadcast"
  PROVE  /\ \/ plan.cap = NoLimit
            \/ /\ plan.cap = request.limit /\ request.limit \in Nat
               /\ plan.order_by = request.order_by /\ request.offset = 0
         /\ plan.outer = Outer(request.order_by, request.limit, request.offset)
<1>1. Known /\ plan = BroadcastPlan /\ ~PostProcessed
  BY BroadcastIs
<1>2. request.limit \in Nat \cup {NoLimit} /\ request.offset \in Nat
  BY <1>1, RequestsAssumption DEF Known
<1>3. classify_join_window = "bare" =>
        request.limit # NoLimit /\ request.order_by = <<>> /\ request.offset = 0
  BY <1>1 DEF classify_join_window, PostProcessed
<1> DEFINE capped == \/ classify_join_window = "bare"
                     \/ request.limit # NoLimit /\ request.offset = 0
<1>4. capped => request.limit \in Nat /\ request.offset = 0
  BY <1>2, <1>3
<1>5. /\ plan.cap = IF capped THEN request.limit ELSE NoLimit
      /\ plan.order_by = IF capped THEN request.order_by ELSE <<>>
      /\ plan.outer = Outer(request.order_by, request.limit, request.offset)
  BY <1>1 DEF BroadcastPlan, place_broadcast_window
<1> HIDE DEF capped
<1> QED
  BY <1>4, <1>5

\* A shard joins the rows of the join whose fact row it holds.
LEMMA ShardJoinIs ==
  ASSUME NoBlankCompared(Requests, Contents), Scanning, plan.kind = "broadcast", NEW f, NEW t
  PROVE  t \in ShardJoin(f) <=> t \in TheJoin /\ Row(plan.fact, t[plan.fact]).file = f
<1>1. /\ Known /\ PrunedLegs /\ 3 - plan.fact \in Legs
      /\ DOMAIN request.conditions = {1} /\ request.conditions[1].render \in {"both", "typed"}
      /\ plan.filter = Conjuncts /\ \A i \in Conjuncts : request.filter[i].render = "both"
      /\ \A e : ExpressionOf(e) => Resolved(e)
  BY BroadcastIs
<1>2. ASSUME NEW e, ExpressionOf(e)
      PROVE  /\ DecidedAlike(data, e)
             /\ e \in ToSet(request.conditions) \/ \E i \in plan.filter : e = request.filter[i]
  <2>1. \/ e \in ToSet(request.conditions) /\ e = request.conditions[1]
        \/ \E i \in Conjuncts : e = request.filter[i]
    <3>1. CASE e \in ToSet(request.conditions)
      <4>1. PICK i \in DOMAIN request.conditions : e = request.conditions[i]
        BY <3>1 DEF ToSet
      <4> QED
        BY <1>1, <3>1, <4>1
    <3>2. CASE e \in ToSet(request.filter)
      BY <3>2 DEF ToSet, Conjuncts
    <3> QED
      BY <1>2, <3>1, <3>2 DEF ExpressionOf
  <2>2. DecidedAlike(data, request.conditions[1]) /\ \A i \in Conjuncts : DecidedAlike(data, request.filter[i])
    BY <1>1, Alike
  <2> QED
    BY <1>1, <2>1, <2>2
<1>3. (\A e \in ToSet(request.conditions) : Natively(e, t))
        /\ (\A i \in plan.filter : Natively(request.filter[i], t))
      <=> \A e : ExpressionOf(e) => Natively(e, t)
  <2>1. \A e \in ToSet(request.conditions) : ExpressionOf(e)
    BY DEF ExpressionOf
  <2>2. \A i \in plan.filter : ExpressionOf(request.filter[i])
    BY <1>1, ConjunctsAre
  <2> QED
    BY <1>2, <2>1, <2>2
<1>4. ASSUME t \in Tuples
      PROVE  (\A e : ExpressionOf(e) => Natively(e, t)) <=> (\A e : ExpressionOf(e) => AsMeant(e, t))
  BY <1>1, <1>2, <1>4, ReadAsMeant
<1>5. t \in ShardJoin(f) <=>
        /\ t \in Tuples
        /\ Row(plan.fact, t[plan.fact]).file = f
        /\ Row(3 - plan.fact, t[3 - plan.fact]).file \in kept[3 - plan.fact]
        /\ (\A e \in ToSet(request.conditions) : Natively(e, t))
             /\ (\A i \in plan.filter : Natively(request.filter[i], t))
  BY DEF ShardJoin
<1>6. t \in TheJoin => Row(3 - plan.fact, t[3 - plan.fact]).file \in kept[3 - plan.fact]
  BY <1>1, KeptRows
<1> QED
  BY <1>3, <1>4, <1>5, <1>6, TheJoinIs

\* Two legs have finitely many joined rows.
LEMMA FinitelyMany ==
  ASSUME Known, Legs = {1, 2}
  PROVE  IsFiniteSet(TheJoin)
<1> DEFINE D == RowsOf(1) \X RowsOf(2)
           pair == [p \in D |-> [l \in {1, 2} |-> IF l = 1 THEN p[1] ELSE p[2]]]
           R == {pair[p] : p \in D}
<1>1. \A l \in Legs : IsFiniteSet(RowsOf(l))
  BY LegsAre, ContentsAssumption DEF Known, RowsOf
<1>2. IsFiniteSet(D)
  BY <1>1, FS_Product
<1>3. IsFiniteSet(R)
  <2>1. DOMAIN pair = D
    OBVIOUS
  <2> HIDE DEF D, pair
  <2> QED
    BY <1>2, <2>1, FiniteImage
<1>4. ASSUME NEW t \in TheJoin PROVE t \in R
  <2>1. t \in Tuples
    BY TheJoinIs
  <2>2. t[1] \in RowsOf(1) /\ t[2] \in RowsOf(2)
    BY <2>1 DEF Tuples
  <2>3. t = [l \in {1, 2} |-> t[l]]
    BY <2>1 DEF Tuples
  <2> DEFINE p == <<t[1], t[2]>>
  <2>4. p \in D /\ p[1] = t[1] /\ p[2] = t[2]
    BY <2>2
  <2>5. pair[p] = [l \in {1, 2} |-> IF l = 1 THEN p[1] ELSE p[2]]
    BY <2>4
  <2>6. pair[p] = t
    BY <2>3, <2>4, <2>5
  <2> HIDE DEF D, pair, p
  <2> QED
    BY <2>4, <2>6
<1>5. TheJoin \in SUBSET R
  BY <1>4
<1> HIDE DEF R
<1> QED
  BY <1>3, <1>5, FS_Subset

\* The values of the sort keys, as SQL means them.
MeantKeys(t) == [i \in DOMAIN request.order_by |-> Meant(request.order_by[i].col, t)]

\* They are what the scans and Exasol rank by.
LEMMA Ranks ==
  ASSUME Known, ~PlanDeclines, PlannedJoin.kind # "empty", NEW t \in Tuples
  PROVE  /\ SortValues(t, request.order_by) = MeantKeys(t)
         /\ MeantKeys(t) \in [DOMAIN request.order_by -> Int]
<1>1. ASSUME NEW i \in DOMAIN request.order_by
      PROVE  /\ request.order_by[i].col.of \in Legs
             /\ resolve_column(request.order_by[i].col) = request.order_by[i].col.of
             /\ Meant(request.order_by[i].col, t) \in Int
  <2> DEFINE c == request.order_by[i].col
  <2>1. request.order_by[i] \in ToSet(request.order_by)
    BY DEF ToSet
  <2>2. c \in ColumnNodes
    BY <2>1 DEF ColumnNodes
  <2> HIDE DEF c
  <2>3. c.of \in Legs /\ resolve_column(c) = c.of /\ c.name \in Columns(c.of)
    BY <2>2, Served
  <2>4. Row(c.of, t[c.of])[c.name] \in Int
    BY <2>3, Cells
  <2>5. Meant(c, t) \in Int
    BY <2>4 DEF Meant, Emit, Null
  <2> QED
    BY <2>3, <2>5 DEF c
<1> QED
  BY <1>1 DEF SortValues, MeantKeys, Meant

\* The keys are an order.
LEMMA KeysAre ==
  ASSUME Known
  PROVE  Ordering(request.order_by)
<1>1. /\ IsList(request.order_by)
      /\ \A key \in ToSet(request.order_by) :
           key.ascending \in BOOLEAN /\ key.nulls_last \in BOOLEAN
  BY RequestsAssumption DEF Known
<1> QED
  BY <1>1, ListIs DEF Ordering

\* Whatever the shards cut, the outer window over what they emitted is a window of
\* the join.
LEMMA BroadcastRows ==
  ASSUME NoBlankCompared(Requests, Contents), Scanned, plan.kind = "broadcast",
         NEW W \in Windows([t \in Joined |-> SortValues(t, request.order_by)],
                           request.order_by, request.limit, request.offset)
  PROVE  W \in Windows([t \in TheJoin |-> MeantKeys(t)],
                       request.order_by, request.limit, request.offset)
<1>1. /\ Scanning /\ Known /\ PrunedLegs /\ ~PlanDeclines /\ Legs = {1, 2} /\ plan.fact \in Legs
      /\ PlannedJoin.kind = "broadcast"
  BY BroadcastIs DEF Scanned, Scanning
<1> DEFINE keys == request.order_by
           val == [t \in TheJoin |-> MeantKeys(t)]
           part == [c \in ScanCalls |-> ShardJoin(c[2])]
<1>2. IsFiniteSet(TheJoin) /\ \A t \in TheJoin : t \in Tuples
  BY <1>1, FinitelyMany, TheJoinIs
<1>3. val \in [TheJoin -> [DOMAIN keys -> Int]]
  BY <1>1, <1>2, Ranks
<1>4. DOMAIN emitted = ScanCalls /\ ScanCalls = {<<plan.fact, f>> : f \in kept[plan.fact]}
  BY DEF Scanned, Scanning, Unscanned, ScanCalls
<1>5. ASSUME NEW c \in ScanCalls
      PROVE  /\ part[c] \in SUBSET TheJoin
             /\ emitted[c] \in Windows([t \in part[c] |-> SortValues(t, plan.order_by)],
                                       plan.order_by, plan.cap, 0)
  <2>1. part[c] = ShardJoin(c[2])
    OBVIOUS
  <2>2. part[c] \in SUBSET TheJoin
    BY <1>1, <2>1, ShardJoinIs
  <2>3. emitted[c] \in ScanOutputs(c)
    BY <1>1, <1>4 DEF Scanning
  <2>4. ScanOutputs(c) = Windows([t \in ShardJoin(c[2]) |-> SortValues(t, plan.order_by)],
                                 plan.order_by, plan.cap, 0)
    BY DEF ScanOutputs, render_join_sort_target
  <2> QED
    BY <2>1, <2>2, <2>3, <2>4
<1>6. ASSUME NEW t \in TheJoin PROVE \E c \in ScanCalls : t \in part[c]
  <2> DEFINE f == Row(plan.fact, t[plan.fact]).file
             c == <<plan.fact, f>>
  <2>1. f \in kept[plan.fact]
    BY <1>1, KeptRows
  <2>2. c \in ScanCalls /\ c[2] = f
    BY <1>4, <2>1
  <2>3. t \in ShardJoin(f)
    BY <1>1, ShardJoinIs
  <2>4. part[c] = ShardJoin(f)
    BY <2>2
  <2> HIDE DEF f, c, part
  <2> QED
    BY <2>2, <2>3, <2>4
<1>7. \A x : x \in Joined <=> \E c \in ScanCalls : x \in emitted[c]
  BY <1>4 DEF Joined
<1>8. \A t \in TheJoin : SortValues(t, keys) = val[t]
  BY <1>1, <1>2, Ranks
<1>9. CASE plan.cap = NoLimit
  <2>1. ASSUME NEW c \in ScanCalls PROVE emitted[c] = part[c]
    <3> DEFINE w == [t \in part[c] |-> SortValues(t, plan.order_by)]
    <3>1. IsFiniteSet(part[c]) /\ DOMAIN w = part[c]
      BY <1>2, <1>5, FS_Subset
    <3>2. emitted[c] \in Windows(w, plan.order_by, NoLimit, 0)
      BY <1>5, <1>9
    <3> HIDE DEF w, part
    <3> QED
      BY <3>1, <3>2, WholeWindow
  <2>2. Joined = TheJoin
    <3> HIDE DEF part
    <3> QED
      BY <1>5, <1>6, <1>7, <2>1
  <2>3. [t \in Joined |-> SortValues(t, keys)] = val
    BY <1>8, <2>2
  <2> QED
    BY <2>3
<1>10. CASE /\ plan.cap = request.limit /\ request.limit \in Nat
            /\ plan.order_by = request.order_by /\ request.offset = 0
  <2>1. Parts(part, ScanCalls, TheJoin)
    <3> HIDE DEF part
    <3> QED
      BY <1>5, <1>6 DEF Parts
  <2>2. TopParts(emitted, part, ScanCalls, val, keys, request.limit)
    <3>1. ASSUME NEW c \in ScanCalls
          PROVE  emitted[c] \in Windows([t \in part[c] |-> val[t]], keys, request.limit, 0)
      <4>1. [t \in part[c] |-> SortValues(t, keys)] = [t \in part[c] |-> val[t]]
        <5> HIDE DEF part, val, keys
        <5> QED
          BY <1>5, <1>8
      <4>2. emitted[c] \in Windows([t \in part[c] |-> SortValues(t, keys)], keys, request.limit, 0)
        BY <1>5, <1>10
      <4> HIDE DEF part, val, keys
      <4> QED
        BY <4>1, <4>2
    <3> HIDE DEF part, val, keys
    <3> QED
      BY <3>1 DEF TopParts
  <2>3. TopUnion(Joined, emitted, ScanCalls)
    BY <1>7 DEF TopUnion
  <2>4. \A x \in Joined : x \in TheJoin
    <3>1. ASSUME NEW c \in ScanCalls PROVE emitted[c] \subseteq part[c]
      <4> DEFINE w == [t \in part[c] |-> SortValues(t, plan.order_by)]
      <4>1. IsFiniteSet(part[c]) /\ DOMAIN w = part[c] /\ plan.cap \in Nat \cup {NoLimit}
        BY <1>2, <1>5, <1>10, FS_Subset
      <4>2. emitted[c] \in Windows(w, plan.order_by, plan.cap, 0)
        BY <1>5
      <4> HIDE DEF w, part
      <4>3. IsTop(emitted[c], w, part[c], plan.order_by, plan.cap)
        BY <4>1, <4>2, TopIs
      <4> QED
        BY <4>3 DEF IsTop
    <3> HIDE DEF part
    <3> QED
      BY <1>5, <1>7, <3>1
  <2>5. [t \in Joined |-> SortValues(t, keys)] = [t \in Joined |-> val[t]]
    <3> HIDE DEF val, keys
    <3> QED
      BY <1>8, <2>4
  <2>6. W \in Windows([t \in Joined |-> val[t]], keys, request.limit, 0)
    <3>1. W \in Windows([t \in Joined |-> SortValues(t, keys)], keys, request.limit, 0)
      BY <1>10
    <3> HIDE DEF val, keys
    <3> QED
      BY <2>5, <3>1
  <2>7. Ordering(keys)
    BY <1>1, KeysAre
  <2>8. W \in Windows(val, keys, request.limit, 0)
    <3> HIDE DEF val, keys, part
    <3> QED
      BY <1>2, <1>3, <1>10, <2>1, <2>2, <2>3, <2>6, <2>7, TopMerge
  <2> QED
    BY <1>10, <2>8
<1> QED
  BY <1>1, <1>9, <1>10, BroadcastWindow

-----------------------------------------------------------------------------
(* The answer                                                              *)

\* A state of the invariant that scans.
LEMMA ScanningIs ==
  ASSUME IInv, stage \in {"scanning", "answered"}
  PROVE  Scanning /\ (stage = "answered" => Scanned /\ answer \in Answers)
BY DEF IInv, Planned, ScansAllowed, AnswerAllowed, Scanning, Scanned

\* The SQL of every plan resolves.
LEMMA Resolves ==
  ASSUME Scanning
  PROVE  SqlResolves
<1>1. plan.kind \in {"empty", "broadcast", "nscan"}
  BY PlanIs DEF Scanning
<1>2. CASE plan.kind = "empty"
  BY <1>2 DEF SqlResolves
<1>3. CASE plan.kind = "nscan"
  BY <1>3, NScanResolves
<1>4. CASE plan.kind = "broadcast"
  <2>1. plan.outer.order_by = request.order_by
    BY <1>4, BroadcastWindow DEF Outer
  <2>2. \A i \in DOMAIN request.order_by : Qualified(request.order_by[i].col) \in ToSet(Projection)
    BY <1>4, BroadcastIs DEF BroadcastServes, bound_sort_key
  <2>3. \A key \in ToSet(plan.outer.order_by) : Qualified(key.col) \in ToSet(Projection)
    BY <2>1, <2>2 DEF ToSet
  <2> QED
    BY <1>4, <2>3 DEF SqlResolves
<1> QED
  BY <1>1, <1>2, <1>3, <1>4

\* The join that a plan without scans answers is empty.
LEMMA NoScanJoined ==
  ASSUME Scanned, plan.kind = "empty"
  PROVE  TheJoin = {} /\ Joined = {} /\ plan.outer = Outer(<<>>, NoLimit, 0)
<1>1. Known /\ PrunedLegs /\ plan = EmptyPlan /\ \E l \in Legs : kept[l] = {}
  BY PlanIs DEF Scanned, Scanning
<1>2. TheJoin = {}
  BY <1>1, EmptyJoin
<1>3. Joined = {}
  BY DEF Joined
<1> QED
  BY <1>1, <1>2, <1>3 DEF EmptyPlan

\* The rows of an answer are a window of the join.
LEMMA RowsOfAnswer ==
  ASSUME NoBlankCompared(Requests, Contents), Scanned,
         NEW W \in Windows([t \in Joined |-> SortValues(t, plan.outer.order_by)],
                           plan.outer.order_by, plan.outer.limit, plan.outer.offset)
  PROVE  W \in Windows([t \in TheJoin |-> MeantKeys(t)],
                       request.order_by, request.limit, request.offset)
<1>1. /\ Scanning /\ Known /\ ~PlanDeclines /\ plan = PlannedJoin
      /\ plan.kind \in {"empty", "broadcast", "nscan"}
  BY PlanIs DEF Scanned, Scanning
<1>2. request.limit \in Nat \cup {NoLimit} /\ request.offset \in Nat
  BY <1>1, RequestsAssumption DEF Known
<1>3. CASE plan.kind = "empty"
  <2>1. TheJoin = {} /\ Joined = {} /\ plan.outer = Outer(<<>>, NoLimit, 0)
    BY <1>3, NoScanJoined
  <2> DEFINE w == [t \in Joined |-> SortValues(t, plan.outer.order_by)]
             v == [t \in TheJoin |-> MeantKeys(t)]
  <2>2. DOMAIN w = {} /\ DOMAIN v = {}
    BY <2>1
  <2>3. plan.outer.limit \in Nat \cup {NoLimit} /\ plan.outer.offset \in Nat
    BY <2>1 DEF Outer
  <2>4. W \in Windows(w, plan.outer.order_by, plan.outer.limit, plan.outer.offset)
    OBVIOUS
  <2> HIDE DEF w, v
  <2>5. W = {}
    BY <2>2, <2>3, <2>4, EmptyWindow
  <2>6. W \in Windows(v, request.order_by, request.limit, request.offset)
    BY <1>2, <2>2, <2>5, EmptyWindow
  <2> QED
    BY <2>6 DEF v
<1>4. CASE plan.kind = "broadcast"
  <2>1. plan.outer = Outer(request.order_by, request.limit, request.offset)
    BY <1>1, <1>4, BroadcastWindow
  <2>2. /\ plan.outer.order_by = request.order_by /\ plan.outer.limit = request.limit
        /\ plan.outer.offset = request.offset
    BY <2>1 DEF Outer
  <2>3. W \in Windows([t \in Joined |-> SortValues(t, request.order_by)],
                      request.order_by, request.limit, request.offset)
    BY <2>2
  <2> QED
    BY <1>4, <2>3, BroadcastRows
<1>5. CASE plan.kind = "nscan"
  <2>1. plan = NScanPlan
    BY <1>1, <1>5, PlanIs
  <2>2. /\ plan.outer.order_by = request.order_by /\ plan.outer.limit = request.limit
        /\ plan.outer.offset = request.offset
    BY <2>1 DEF NScanPlan, Outer
  <2>3. Joined = TheJoin /\ \A t \in TheJoin : t \in Tuples
    BY <1>5, NScanJoined, TheJoinIs
  <2>4. [t \in Joined |-> SortValues(t, request.order_by)] = [t \in TheJoin |-> MeantKeys(t)]
    BY <1>1, <1>5, <2>3, Ranks
  <2>5. W \in Windows([t \in Joined |-> SortValues(t, request.order_by)],
                      request.order_by, request.limit, request.offset)
    BY <2>2
  <2> QED
    BY <2>4, <2>5
<1> QED
  BY <1>1, <1>3, <1>4, <1>5

\* An aggregate counts the join.
LEMMA CountOfAnswer ==
  ASSUME NoBlankCompared(Requests, Contents), Scanned, request.aggregate
  PROVE  Joined = TheJoin
<1>1. plan.kind \in {"empty", "broadcast", "nscan"} /\ Scanning
  BY PlanIs DEF Scanned, Scanning
<1>2. plan.kind # "broadcast"
  <2> SUFFICES ASSUME plan.kind = "broadcast" PROVE FALSE
    OBVIOUS
  <2>1. ~PostProcessed
    BY <1>1, BroadcastIs
  <2> QED
    BY <2>1 DEF PostProcessed, carries_aggregation_clause
<1> QED
  BY <1>1, <1>2, NoScanJoined, NScanJoined

\* Every select item and every sort key is the occurrence's own.
LEMMA OwnColumns ==
  ASSUME Scanned, plan.kind # "empty"
  PROVE  /\ [i \in DOMAIN plan.outer.order_by |-> Qualified(plan.outer.order_by[i].col)]
              = [i \in DOMAIN request.order_by |-> MeantColumn(request.order_by[i].col)]
         /\ ~request.star =>
              Projection = [i \in DOMAIN request.items |-> MeantColumn(request.items[i])]
<1>1. /\ Scanning /\ Known /\ ~PlanDeclines /\ plan = PlannedJoin
      /\ plan.kind \in {"broadcast", "nscan"}
  BY PlanIs DEF Scanned, Scanning
<1>2. \A c \in ColumnNodes : Qualified(c) = MeantColumn(c)
  BY <1>1, Served DEF Qualified, MeantColumn
<1>3. plan.outer.order_by = request.order_by
  <2>1. CASE plan.kind = "broadcast"
    BY <1>1, <2>1, BroadcastWindow DEF Outer
  <2>2. CASE plan.kind = "nscan"
    BY <1>1, <2>2, PlanIs DEF NScanPlan, Outer
  <2> QED
    BY <1>1, <2>1, <2>2
<1>4. \A i \in DOMAIN request.order_by : request.order_by[i].col \in ColumnNodes
  <2>1. \A i \in DOMAIN request.order_by : request.order_by[i] \in ToSet(request.order_by)
    BY DEF ToSet
  <2> QED
    BY <2>1 DEF ColumnNodes
<1>5. \A i \in DOMAIN request.items : request.items[i] \in ColumnNodes
  BY DEF ColumnNodes, ToSet
<1> QED
  BY <1>2, <1>3, <1>4, <1>5 DEF Projection

\* A join pushdown answers as the join itself, for every join tree, request,
\* contents, pruning and order of the scans, whichever route plan_join takes, as
\* long as DataFusion compares no empty string or NaN (the run join_blank_keys
\* shows what happens where it does); and the SQL it writes always resolves.
THEOREM AnswersTheJoin ==
    ASSUME NoBlankCompared(Requests, Contents)
    PROVE  Spec => []AnswerIsJoin
<1>1. ASSUME IInv PROVE AnswerIsJoin
  <2>1. stage = "scanning" => SqlResolves
    BY <1>1, ScanningIs, Resolves
  <2>2. ASSUME stage = "answered", request.aggregate PROVE answer.count = Cardinality(TheJoin)
    <3>1. Scanned /\ answer \in Answers
      BY <1>1, <2>2, ScanningIs
    <3>2. answer.count = Cardinality(Joined)
      BY <2>2, <3>1 DEF Answers, CountOf
    <3> QED
      BY <2>2, <3>1, <3>2, CountOfAnswer
  <2>3. ASSUME stage = "answered", ~request.aggregate
        PROVE  /\ answer.rows \in Windows([t \in TheJoin |-> MeantKeys(t)],
                                          request.order_by, request.limit, request.offset)
               /\ plan.kind # "empty" =>
                    /\ answer.order = [i \in DOMAIN request.order_by |->
                                         MeantColumn(request.order_by[i].col)]
                    /\ ~request.star =>
                         answer.cols = [i \in DOMAIN request.items |-> MeantColumn(request.items[i])]
    <3>1. Scanned /\ answer \in Answers
      BY <1>1, <2>3, ScanningIs
    <3>2. PICK W \in Windows([t \in Joined |-> SortValues(t, plan.outer.order_by)],
                             plan.outer.order_by, plan.outer.limit, plan.outer.offset) :
            answer = [rows |-> W, cols |-> Projection, types |-> AnswerTypes,
                      order |-> [i \in DOMAIN plan.outer.order_by |->
                                   Qualified(plan.outer.order_by[i].col)],
                      count |-> Null]
      BY <2>3, <3>1 DEF Answers
    <3>3. /\ answer.rows = W /\ answer.cols = Projection
          /\ answer.order = [i \in DOMAIN plan.outer.order_by |->
                               Qualified(plan.outer.order_by[i].col)]
      BY <3>2
    <3>4. W \in Windows([t \in TheJoin |-> MeantKeys(t)],
                        request.order_by, request.limit, request.offset)
      BY <3>1, <3>2, RowsOfAnswer
    <3> QED
      BY <3>1, <3>3, <3>4, OwnColumns
  <2> QED
    BY <2>1, <2>2, <2>3 DEF AnswerIsJoin, MeantKeys
<1> QED
  BY <1>1, Invariance, PTL

-----------------------------------------------------------------------------
(* The split of a side's files over the scan calls, for every file list,    *)
(* cluster and parallelism factor.                                          *)
(*                                                                          *)
(* The greedy's own argument is the inductive invariant: what is placed is  *)
(* at least as heavy as what is not (HeaviestFirst), so the file just       *)
(* placed is the lightest of its shard and that shard was the lightest      *)
(* before it; and a shard stays empty only while every other holds one file *)
(* at most (EmptyFirst), so n files over at most n shards leave none empty. *)


InSomeShard(f) == \E s \in ShardIds : \E k \in DOMAIN shards[s] : shards[s][k] = f

\* Before the loop nothing is split, after it nothing is left.
SplitStaged ==
    /\ progress = "counting" => shards = <<>> /\ unplaced = {}
    /\ progress = "dispatched" => unplaced = {}
    /\ progress # "counting" /\ Files = {} => shards = <<>>

PlacedOrNot ==
    progress # "counting" => \A f \in Files : f \in unplaced \/ InSomeShard(f)

UnplacedIsNew ==
    \A s \in ShardIds : \A k \in DOMAIN shards[s] : shards[s][k] \notin unplaced

HeaviestFirst ==
    \A s \in ShardIds : \A k \in DOMAIN shards[s] : \A g \in unplaced :
        Weight(g) <= Weight(shards[s][k])

DistinctlyPlaced ==
    \A s, t \in ShardIds : \A k \in DOMAIN shards[s], l \in DOMAIN shards[t] :
        shards[s][k] = shards[t][l] => s = t /\ k = l

EmptyFirst ==
    /\ \A s \in ShardIds : shards[s] = <<>> <=> bytes[s] = 0
    /\ \A s, t \in ShardIds : shards[s] = <<>> => Len(shards[t]) <= 1

SplitInv ==
    /\ SplitTypeOK
    /\ SplitStaged
    /\ PlacedOrNot
    /\ UnplacedIsNew
    /\ HeaviestFirst
    /\ DistinctlyPlaced
    /\ EmptyFirst
    /\ NoSingleMoveHelps
    /\ GroupsWithinReach

-----------------------------------------------------------------------------
\* A file weighs at least one byte, an empty one too.
LEMMA WeightIsPositive ==
    ASSUME SplitTypeOK, NEW f \in Files
    PROVE  Weight(f) \in Nat \ {0}
BY DEF SplitTypeOK, Files, Weight

\* The number of shards is one, or what the cluster asks for at most, and never
\* more than the files or Exasol's round-robin limit.
LEMMA ShardCountInReach ==
    ASSUME NEW a \in Nat, NEW b \in Nat, NEW n \in Nat \ {0}
    PROVE  LET c == ShardCount(group_count(a, b, n), n)
           IN  /\ c \in 1 .. MAX_GROUP_COUNT
               /\ c <= n
               /\ c <= a * b \/ c = 1
<1>1. a * b \in Nat
  OBVIOUS
<1>2. ASSUME NEW p \in Nat
      PROVE  LET c == Clamp(Clamp(p, 1, Clamp(n, 1, MAX_GROUP_COUNT)), 1, n)
             IN  /\ c \in 1 .. MAX_GROUP_COUNT
                 /\ c <= n
                 /\ c <= p \/ c = 1
  BY ShardingAssumption DEF Clamp
<1> QED
  BY <1>1, <1>2 DEF ShardCount, group_count

\* Before any file is placed the invariant holds.
LEMMA SplitInitHolds == SplitInit => SplitInv
<1> SUFFICES ASSUME SplitInit PROVE SplitInv
  OBVIOUS
<1>1. SplitTypeOK
  <2>1. size \in Seq(Nat)
    <3>1. PICK n \in 0 .. MaxFiles : size \in [1 .. n -> 0 .. MaxSize]
      BY DEF SplitInit
    <3> QED
      BY <3>1, ShardingAssumption
  <2> QED
    BY <2>1, ShardingAssumption DEF SplitInit, SplitTypeOK, ShardIds, Files
<1> QED
  BY <1>1 DEF SplitInit, SplitInv, SplitStaged, PlacedOrNot, UnplacedIsNew, HeaviestFirst, DistinctlyPlaced,
     EmptyFirst, NoSingleMoveHelps, GroupsWithinReach, ShardIds

\* The choice of the group count keeps the invariant.
LEMMA StartKeeps == SplitInv /\ StartShards => SplitInv'
<1> SUFFICES ASSUME SplitInv, StartShards PROVE SplitInv'
  OBVIOUS
<1> DEFINE n == ShardCount(group_count(nodes, factor, Len(size)), Len(size))
<1>1. Len(size) \in Nat \ {0}
  BY DEF SplitInv, SplitTypeOK, StartShards, Files
<1>2. n \in 1 .. MAX_GROUP_COUNT /\ n <= Len(size) /\ (n <= nodes * factor \/ n = 1)
  BY <1>1, ShardCountInReach DEF SplitInv, SplitTypeOK
<1> HIDE DEF n
<1>3. /\ shards' = [s \in 1 .. n |-> <<>>]
      /\ bytes' = [s \in 1 .. n |-> 0]
      /\ unplaced' = Files
      /\ progress' = "placing"
      /\ size' = size /\ nodes' = nodes /\ factor' = factor
  BY DEF StartShards, n
<1>4. n \in Nat /\ Len(shards') = n /\ ShardIds' = 1 .. n
  BY <1>2, <1>3, ShardingAssumption DEF ShardIds
<1>5. SplitTypeOK'
  BY <1>3, <1>4 DEF SplitInv, SplitTypeOK, Files, ShardIds
<1>6. \A s \in ShardIds' : shards'[s] = <<>> /\ bytes'[s] = 0
  BY <1>3, <1>4
<1>7. SplitStaged' /\ PlacedOrNot'
  BY <1>3 DEF SplitStaged, PlacedOrNot, Files, StartShards
<1>8. UnplacedIsNew' /\ HeaviestFirst' /\ DistinctlyPlaced' /\ EmptyFirst' /\ NoSingleMoveHelps'
  BY <1>6 DEF UnplacedIsNew, HeaviestFirst, DistinctlyPlaced, EmptyFirst, NoSingleMoveHelps
<1>9. GroupsWithinReach'
  BY <1>2, <1>3, <1>4 DEF GroupsWithinReach
<1> QED
  BY <1>5, <1>7, <1>8, <1>9 DEF SplitInv

\* Placing the heaviest file on the lightest shard keeps the invariant.
LEMMA PlaceKeeps ==
    ASSUME SplitInv, NEW f \in Files, NEW s \in ShardIds, Place(f, s)
    PROVE  SplitInv'
<1> USE DEF ShardIds, Files
<1>1. /\ unplaced' = unplaced \ {f}
      /\ shards' = [shards EXCEPT ![s] = Append(@, f)]
      /\ bytes' = [bytes EXCEPT ![s] = @ + Weight(f)]
      /\ progress = "placing" /\ progress' = progress
      /\ size' = size /\ nodes' = nodes /\ factor' = factor
      /\ f \in unplaced
  BY DEF Place
<1>2. SplitTypeOK
  BY DEF SplitInv
<1>3. Weight(f) \in Nat \ {0}
  BY <1>2, WeightIsPositive
<1>4. /\ DOMAIN shards' = DOMAIN shards
      /\ Len(shards') = Len(shards)
      /\ \A t \in DOMAIN shards : t # s => shards'[t] = shards[t] /\ bytes'[t] = bytes[t]
      /\ shards'[s] = Append(shards[s], f)
      /\ bytes'[s] = bytes[s] + Weight(f)
  BY <1>1, <1>2 DEF SplitTypeOK
<1>5. /\ shards[s] \in Seq(Files)
      /\ DOMAIN shards'[s] = DOMAIN shards[s] \cup {Len(shards[s]) + 1}
      /\ \A k \in DOMAIN shards[s] : shards'[s][k] = shards[s][k]
      /\ shards'[s][Len(shards[s]) + 1] = f
      /\ Len(shards[s]) + 1 \notin DOMAIN shards[s]
      /\ Len(shards'[s]) = Len(shards[s]) + 1
      /\ shards'[s] # <<>>
  <2>1. shards[s] \in Seq(Files)
    BY <1>2 DEF SplitTypeOK
  <2>2. shards'[s] = Append(shards[s], f)
    BY <1>4
  <2>3. \A q \in Seq(Files) :
          /\ DOMAIN Append(q, f) = DOMAIN q \cup {Len(q) + 1}
          /\ \A k \in DOMAIN q : Append(q, f)[k] = q[k]
          /\ Append(q, f)[Len(q) + 1] = f
          /\ Len(q) + 1 \notin DOMAIN q
          /\ Len(Append(q, f)) = Len(q) + 1
          /\ Append(q, f) # <<>>
    OBVIOUS
  <2> QED
    BY <2>1, <2>2, <2>3
<1>7. SplitTypeOK'
  <2>1. shards' \in Seq(Seq(Files))
    BY <1>1, <1>2 DEF SplitTypeOK
  <2>2. bytes' \in [DOMAIN shards' -> Nat]
    BY <1>1, <1>2, <1>3, <1>4 DEF SplitTypeOK
  <2> QED
    BY <1>1, <1>2, <2>1, <2>2 DEF SplitTypeOK
<1>8. SplitStaged'
  BY <1>1, <1>2 DEF SplitInv, SplitStaged, SplitTypeOK
<1>9. PlacedOrNot'
  <2> SUFFICES ASSUME NEW g \in Files, g \notin unplaced'
               PROVE  InSomeShard(g)'
    BY <1>1 DEF PlacedOrNot
  <2>1. CASE g = f
    BY <2>1, <1>4, <1>5 DEF InSomeShard
  <2>2. CASE g # f
    <3>1. InSomeShard(g)
      BY <2>2, <1>1 DEF SplitInv, PlacedOrNot
    <3>2. PICK t \in DOMAIN shards : \E k \in DOMAIN shards[t] : shards[t][k] = g
      BY <3>1 DEF InSomeShard
    <3>3. PICK k \in DOMAIN shards[t] : shards[t][k] = g
      BY <3>2
    <3>4. k \in DOMAIN shards'[t] /\ shards'[t][k] = g
      BY <3>3, <1>4, <1>5
    <3> QED
      BY <3>4, <1>4 DEF InSomeShard
  <2> QED
    BY <2>1, <2>2
<1>10. UnplacedIsNew'
  BY <1>1, <1>4, <1>5 DEF SplitInv, UnplacedIsNew
<1>11. \A g \in unplaced : Weight(g) <= Weight(f)
  <2>1. \A g \in unplaced : Weight(f) > Weight(g) \/ Weight(f) = Weight(g)
    BY DEF Place, Heaviest
  <2>2. \A g \in unplaced : Weight(g) \in Nat
    BY <1>2, WeightIsPositive DEF SplitTypeOK
  <2> QED
    BY <2>1, <2>2, <1>3
<1>12. HeaviestFirst'
  <2> SUFFICES ASSUME NEW t \in DOMAIN shards, NEW k \in DOMAIN shards'[t],
                      NEW g \in unplaced'
               PROVE  Weight(g) <= Weight(shards'[t][k])
    BY <1>1, <1>4 DEF HeaviestFirst, Weight
  <2>1. g \in unplaced /\ g \in Files
    BY <1>1, <1>2 DEF SplitTypeOK
  <2>2. CASE t = s /\ k = Len(shards[s]) + 1
    BY <2>1, <2>2, <1>5, <1>11
  <2>3. CASE k \in DOMAIN shards[t]
    <3>1. shards'[t][k] = shards[t][k]
      BY <2>3, <1>4, <1>5
    <3>2. shards[t][k] \in Files
      BY <2>3, <1>2 DEF SplitTypeOK
    <3>3. Weight(g) <= Weight(shards[t][k])
      BY <2>1, <2>3 DEF SplitInv, HeaviestFirst
    <3> QED
      BY <3>1, <3>3
  <2> QED
    BY <2>2, <2>3, <1>4, <1>5
<1>13. DistinctlyPlaced'
  BY <1>1, <1>4, <1>5 DEF SplitInv, UnplacedIsNew, DistinctlyPlaced
<1>14. \A t \in DOMAIN shards : bytes[s] <= bytes[t]
  <2>1. \A t \in DOMAIN shards : bytes[t] \in Nat
    BY <1>2 DEF SplitTypeOK
  <2>2. \A t \in DOMAIN shards : bytes[s] < bytes[t] \/ bytes[s] = bytes[t]
    BY DEF Place, Lightest
  <2> QED
    BY <2>1, <2>2
<1>15. EmptyFirst'
  <2>1. \A t \in DOMAIN shards : shards[t] = <<>> => shards[s] = <<>>
    BY <1>2, <1>14 DEF SplitInv, EmptyFirst, SplitTypeOK
  <2>2. shards[s] = <<>> => Len(shards'[s]) = 1
    BY <1>5
  <2>3. bytes'[s] # 0
    BY <1>2, <1>3, <1>4 DEF SplitTypeOK
  <2> QED
    BY <2>1, <2>2, <2>3, <1>4, <1>5 DEF SplitInv, EmptyFirst
<1>16. NoSingleMoveHelps'
  <2> SUFFICES ASSUME NEW t \in DOMAIN shards, NEW u \in DOMAIN shards,
                      NEW k \in DOMAIN shards'[t]
               PROVE  bytes'[t] <= bytes'[u] + Weight(shards'[t][k])
    BY <1>1, <1>4 DEF NoSingleMoveHelps, Weight
  <2>1. bytes[t] \in Nat /\ bytes[u] \in Nat /\ bytes[s] \in Nat
    BY <1>2 DEF SplitTypeOK
  <2>2. bytes[u] <= bytes'[u]
    BY <2>1, <1>3, <1>4
  <2>3. CASE t = s /\ k = Len(shards[s]) + 1
    BY <2>1, <2>2, <2>3, <1>3, <1>4, <1>5, <1>14
  <2>4. CASE k \in DOMAIN shards[t]
    <3>1. shards'[t][k] = shards[t][k] /\ shards[t][k] \in Files
      <4>1. shards[t] \in Seq(Files)
        BY <1>2 DEF SplitTypeOK
      <4>2. shards[t][k] \in Files
        BY <4>1, <2>4
      <4> QED
        BY <4>2, <2>4, <1>4, <1>5
    <3>2. Weight(shards[t][k]) \in Nat
      BY <3>1, <1>2, WeightIsPositive
    <3>3. bytes[t] <= bytes[u] + Weight(shards[t][k])
      BY <2>4 DEF SplitInv, NoSingleMoveHelps
    <3>4. Weight(f) <= Weight(shards[t][k])
      BY <2>4, <1>1 DEF SplitInv, HeaviestFirst
    <3>5. CASE t = s
      BY <3>1, <3>2, <3>4, <3>5, <2>1, <2>2, <1>3, <1>4, <1>14
    <3>6. CASE t # s
      BY <3>1, <3>2, <3>3, <3>6, <2>1, <2>2, <1>3, <1>4, SMTT(30)
    <3> QED
      BY <3>5, <3>6
  <2> QED
    BY <2>3, <2>4, <1>4, <1>5
<1>17. GroupsWithinReach'
  BY <1>1, <1>4 DEF SplitInv, GroupsWithinReach
<1> QED
  BY <1>7, <1>8, <1>9, <1>10, <1>12, <1>13, <1>15, <1>16, <1>17 DEF SplitInv

\* The steps that end the split change its progress only.
LEMMA SplitEndKeeps == SplitInv /\ (NoFiles \/ Dispatch) => SplitInv'
<1> SUFFICES ASSUME SplitInv, NoFiles \/ Dispatch PROVE SplitInv'
  OBVIOUS
<1>1. /\ progress' = "dispatched" /\ unplaced' = unplaced /\ unplaced = {}
      /\ size' = size /\ nodes' = nodes /\ factor' = factor
      /\ shards' = shards /\ bytes' = bytes
      /\ progress = "counting" => Files = {} /\ shards = <<>>
  BY DEF NoFiles, Dispatch, SplitInv, SplitStaged
<1>2. SplitTypeOK' /\ SplitStaged'
  BY <1>1 DEF SplitInv, SplitTypeOK, SplitStaged, Files, ShardIds, Dispatch, NoFiles
<1>3. \A g \in Files : Weight(g)' = Weight(g)
  BY <1>1 DEF Weight
<1>4. PlacedOrNot'
  BY <1>1 DEF SplitInv, PlacedOrNot, InSomeShard, Files, ShardIds, NoFiles, Dispatch
<1>5. NoSingleMoveHelps'
  <2>1. \A s \in ShardIds : \A k \in DOMAIN shards[s] : shards[s][k] \in Files
    BY DEF SplitInv, SplitTypeOK, ShardIds
  <2> QED
    BY <1>1, <1>3, <2>1 DEF SplitInv, NoSingleMoveHelps, ShardIds
<1>6. UnplacedIsNew' /\ HeaviestFirst' /\ DistinctlyPlaced' /\ EmptyFirst'
  BY <1>1 DEF SplitInv, UnplacedIsNew, HeaviestFirst, DistinctlyPlaced, EmptyFirst, ShardIds
<1>7. GroupsWithinReach'
  BY <1>1 DEF SplitInv, GroupsWithinReach, Files, NoFiles, Dispatch
<1> QED
  BY <1>2, <1>4, <1>5, <1>6, <1>7 DEF SplitInv

\* A stuttering step keeps the invariant.
LEMMA SplitStutter == SplitInv /\ UNCHANGED splitVars => SplitInv'
BY DEF splitVars, SplitInv, SplitTypeOK, SplitStaged, PlacedOrNot, InSomeShard, UnplacedIsNew, HeaviestFirst,
   DistinctlyPlaced, EmptyFirst, NoSingleMoveHelps, GroupsWithinReach, Files, ShardIds, Weight

-----------------------------------------------------------------------------
\* The inductive invariant of the split holds in every state.
THEOREM SplitInvariance == SplitSpec => []SplitInv
<1>1. SplitInv /\ [SplitNext]_splitVars => SplitInv'
  BY StartKeeps, PlaceKeeps, SplitEndKeeps, SplitStutter DEF SplitNext, Dispatched
<1> QED
  BY SplitInitHolds, <1>1, PTL DEF SplitSpec

\* Type correctness of the split, for every file list and cluster.
THEOREM SplitTypeCorrect == SplitSpec => []SplitTypeOK
BY SplitInvariance, PTL DEF SplitInv

\* Every planned file reaches exactly one scan call, once.
THEOREM ExactlyOnce == SplitSpec => []EachFileOnce
<1>1. SplitInv => EachFileOnce
  BY DEF SplitInv, EachFileOnce, DistinctlyPlaced, PlacedOrNot, InSomeShard, SplitStaged
<1> QED
  BY SplitInvariance, <1>1, PTL

\* Moving one file never lightens the heavier of two shards.
THEOREM LocallyOptimal == SplitSpec => []NoSingleMoveHelps
BY SplitInvariance, PTL DEF SplitInv

\* The shard count stays within the files, the cluster and Exasol's limit.
THEOREM ReachableGroups == SplitSpec => []GroupsWithinReach
BY SplitInvariance, PTL DEF SplitInv

\* No scan call is made for an empty shard: a shard left empty would leave room
\* for one file each in fewer shards than there are files.
THEOREM NoneEmpty == SplitSpec => []NoShardEmpty
<1>1. SplitInv => NoShardEmpty
  <2> SUFFICES ASSUME SplitInv, progress = "dispatched", NEW e \in ShardIds, shards[e] = <<>>
               PROVE  FALSE
    BY DEF NoShardEmpty
  <2> DEFINE Full == ShardIds \ {e}
  <2>1. Len(size) \in Nat /\ Files = 1 .. Len(size)
    BY DEF SplitInv, SplitTypeOK, Files
  <2>2. Len(shards) \in Nat /\ ShardIds = 1 .. Len(shards)
    BY DEF SplitInv, SplitTypeOK, ShardIds
  <2>3. Files # {} /\ Len(shards) <= Len(size)
    BY <2>2 DEF SplitInv, SplitStaged, GroupsWithinReach, ShardIds
  <2>4. IsFiniteSet(ShardIds) /\ Cardinality(ShardIds) = Len(shards)
    <3>1. \A n \in Nat : IsFiniteSet(1 .. n) /\ Cardinality(1 .. n) = n
      BY FS_Interval
    <3> QED
      BY <3>1, <2>2
  <2>5. IsFiniteSet(Files) /\ Cardinality(Files) = Len(size)
    BY <2>1, FS_Interval
  <2>6. IsFiniteSet(Full) /\ Cardinality(Full) = Len(shards) - 1
    BY <2>4, FS_RemoveElement
  <2>7. PICK Home \in [Files -> ShardIds] :
           \A f \in Files : \E k \in DOMAIN shards[Home[f]] : shards[Home[f]][k] = f
    <3>1. \A f \in Files : \E s \in ShardIds : \E k \in DOMAIN shards[s] : shards[s][k] = f
      BY DEF SplitInv, SplitStaged, PlacedOrNot, InSomeShard
    <3> WITNESS [f \in Files |-> CHOOSE s \in ShardIds :
                    \E k \in DOMAIN shards[s] : shards[s][k] = f] \in [Files -> ShardIds]
    <3> QED
      BY <3>1
  <2>8. Home \in [Files -> Full]
    BY <2>7
  <2>9. PICK f \in Files, g \in Files : f # g /\ Home[f] = Home[g]
    <3>1. Cardinality(Full) < Cardinality(Files)
      BY <2>2, <2>1, <2>3, <2>5, <2>6
    <3> HIDE DEF Full
    <3> QED
      BY <3>1, <2>5, <2>6, <2>8, FS_PigeonHole
  <2>10. PICK h \in ShardIds : h = Home[f]
    BY <2>7
  <2>11. /\ \E k \in DOMAIN shards[h] : shards[h][k] = f
         /\ \E k \in DOMAIN shards[h] : shards[h][k] = g
    BY <2>7, <2>9, <2>10
  <2>12. Len(shards[h]) <= 1
    BY DEF SplitInv, EmptyFirst
  <2>13. shards[h] \in Seq(Files)
    BY DEF SplitInv, SplitTypeOK, ShardIds
  <2>14. \A k, l \in DOMAIN shards[h] : k = l
    BY <2>12, <2>13
  <2> QED
    BY <2>9, <2>11, <2>14
<1> QED
  BY SplitInvariance, <1>1, PTL
=============================================================================
