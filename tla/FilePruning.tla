----------------------------- MODULE FilePruning -----------------------------
(***************************************************************************)
(* Which data files a filter lets a planner leave out                      *)
(* (crates/lakehouse-engine/src/adapter/iceberg_predicate.rs and           *)
(* adapter/pushdown/format/{delta_predicate,partition_predicate,           *)
(* filter_json}.rs).                                                       *)
(*                                                                         *)
(* Stored values are even numbers; an odd literal lies between two of them *)
(* (a fraction finer than the column's scale or unit), and one above       *)
(* Largest is outside the column's range.  A filter is a tree of nodes,    *)
(* records with a kind t: other stands for all that no translator reads.   *)
(* The predicate it is translated to is a tree of the same connectives,    *)
(* over comparisons of a field's id.                                       *)
(***************************************************************************)
EXTENDS Integers, Sequences, SequencesExt, Selection

CONSTANTS Largest,                   \* the largest value a column's type holds
          MaxDepth                   \* bound on the nesting of a filter

ASSUME DepthAssumption == MaxDepth \in Nat

Null == -1
Empty == -2                          \* the empty string literal, NULL to Exasol
Junk == -3                           \* a partition value that does not convert to its type
NoLiteral == -4                      \* a literal that does not convert exactly

None == <<>>
Some(x) == <<x>>
IsSome(option) == option # None

-----------------------------------------------------------------------------
(* filter_json.rs                                                          *)

Operators == {"eq", "ne", "lt", "le", "gt", "ge"}
Literals == [kind : {"num", "str"}, v : Int]

Leaves ==
    [t : {"cmp"}, op : Operators, col : STRING, lit : Literals, flipped : BOOLEAN]
    \cup [t : {"null", "notnull", "other"}, col : STRING]
    \cup [t : {"in"}, col : STRING, lits : Seq(Literals)]
    \cup [t : {"between"}, col : STRING, low : Literals, high : Literals]
Bounds == [t : {"cmp"}, op : Operators, id : Int, v : Int] \cup [t : {"null"}, id : Int]

\* The trees over some leaves, up to a depth.
Level(leaves, n) ==
    LET level[k \in Nat] ==
          IF k = 0 THEN leaves
          ELSE level[k - 1] \cup [t : {"and", "or"}, args : Seq(level[k - 1])]
                            \cup [t : {"not"}, arg : level[k - 1]]
    IN  level[n]
Trees == Level(Leaves, MaxDepth)
Predicates == Level(Bounds, MaxDepth + 1)    \* a BETWEEN or IN becomes a connective

holds(op, a, b) ==
    CASE op = "eq" -> a = b [] op = "ne" -> a # b [] op = "lt" -> a < b
      [] op = "le" -> a <= b [] op = "gt" -> a > b [] op = "ge" -> a >= b

with_operands_swapped(op) ==
    CASE op = "lt" -> "gt" [] op = "le" -> "ge" [] op = "gt" -> "lt" [] op = "ge" -> "le"
      [] OTHER -> op

\* The comparison as it reads with the column on the left.
comparison_operands(f) == IF f.flipped THEN with_operands_swapped(f.op) ELSE f.op

-----------------------------------------------------------------------------
(* What the filter means, in SQL's three truth values.                     *)

Of(b) == IF b THEN "T" ELSE "F"

\* A comparison with the empty string, or of NULL, is unknown.
Compared(op, a, b) == IF a \in {Null, Junk} \/ b = Empty THEN "N" ELSE Of(holds(op, a, b))

Conj(truths) == IF "F" \in truths THEN "F" ELSE IF "N" \in truths THEN "N" ELSE "T"
Negation(t) == CASE t = "T" -> "F" [] t = "F" -> "T" [] OTHER -> "N"
Disj(truths) == Negation(Conj({Negation(t) : t \in truths}))

ColumnsOf(f) ==
    LET columns[g \in Trees] ==
          CASE g.t \in {"and", "or"} -> UNION {columns[g.args[i]] : i \in DOMAIN g.args}
            [] g.t = "not"           -> columns[g.arg]
            [] OTHER                 -> {g.col}
    IN  columns[f]

LeafTruth(f, row) ==
    CASE f.t = "cmp"     -> Compared(comparison_operands(f), row[f.col], f.lit.v)
      [] f.t = "null"    -> Of(row[f.col] = Null)
      [] f.t = "notnull" -> Of(row[f.col] # Null)
      [] f.t = "in"      -> Disj({Compared("eq", row[f.col], f.lits[i].v) : i \in DOMAIN f.lits})
      [] f.t = "between" -> Conj({Compared("ge", row[f.col], f.low.v),
                                  Compared("le", row[f.col], f.high.v)})
      [] f.t = "other"   -> Compared("gt", row[f.col], 0)

Truth(f, row) ==
    LET truth[g \in Trees] ==
          CASE g.t = "and" -> Conj({truth[g.args[i]] : i \in DOMAIN g.args})
            [] g.t = "or"  -> Disj({truth[g.args[i]] : i \in DOMAIN g.args})
            [] g.t = "not" -> Negation(truth[g.arg])
            [] OTHER       -> LeafTruth(g, row)
    IN  truth[f]

-----------------------------------------------------------------------------
(* The Iceberg and Delta translations: a predicate the filter implies.     *)

Exactly(v) == IF v \in 0 .. Largest /\ v % 2 = 0 THEN v ELSE NoLiteral

\* A float literal is narrowed to the nearest f32, never refused.
literal_to_datum(lit, type) ==
    CASE lit.kind = "num" /\ type \in {"int", "date", "timestamp"} -> Exactly(lit.v)
      [] lit.kind = "num" /\ type = "float" -> IF lit.v % 4 = 1 THEN lit.v + 1 ELSE (lit.v \div 2) * 2
      [] lit.kind = "str" /\ type = "text"  -> IF lit.v = Empty THEN 0 ELSE lit.v
      [] OTHER -> NoLiteral

literal_to_scalar(lit, type) ==
    CASE lit.kind = "num" /\ type \in {"int", "date", "timestamp", "decimal", "float"} -> Exactly(lit.v)
      [] lit.kind = "str" /\ type = "text" -> IF lit.v = Empty THEN NoLiteral ELSE lit.v
      [] OTHER -> NoLiteral

Convert(lit, type, format) ==
    IF format = "iceberg" THEN literal_to_datum(lit, type) ELSE literal_to_scalar(lit, type)

Exact(predicate) == Some([predicate |-> predicate, exact |-> TRUE])

\* columns maps a declared name to the [id, type] of the current field its key names.
Bound(op, col, lit, columns, format) ==
    LET v == Convert(lit, columns[col].type, format)
    IN  IF v = NoLiteral THEN None
        ELSE Exact([t |-> "cmp", op |-> op, id |-> columns[col].id, v |-> v])

\* Mutant: an AND that dropped a conjunct still counts as an exact translation.
and_always_exact(children) ==
    LET kept == Selected(children, {c \in ToSet(children) : IsSome(c)})
    IN  IF kept = <<>> THEN None
        ELSE Some([predicate |-> [t |-> "and", args |-> [i \in DOMAIN kept |-> kept[i][1].predicate]],
                   exact |-> TRUE])

\* An untranslatable conjunct is dropped, which leaves the conjunction inexact.
fold_and(children) ==
    LET kept == Selected(children, {c \in ToSet(children) : IsSome(c)})
    IN  IF kept = <<>> THEN None
        ELSE Some([predicate |-> [t |-> "and", args |-> [i \in DOMAIN kept |-> kept[i][1].predicate]],
                   exact |-> \A i \in DOMAIN children : IsSome(children[i]) /\ children[i][1].exact])

\* An untranslatable disjunct forfeits the whole disjunction.
fold_or(children) ==
    IF children = <<>> \/ \E i \in DOMAIN children : children[i] = None THEN None
    ELSE Some([predicate |-> [t |-> "or", args |-> [i \in DOMAIN children |-> children[i][1].predicate]],
               exact |-> \A i \in DOMAIN children : children[i][1].exact])

translate_comparison(f, columns, format) ==
    IF f.op = "ne" THEN None ELSE Bound(comparison_operands(f), f.col, f.lit, columns, format)

translate_in(f, columns, format) ==
    fold_or([i \in DOMAIN f.lits |-> Bound("eq", f.col, f.lits[i], columns, format)])

translate_between(f, columns, format) ==
    fold_and(<<Bound("ge", f.col, f.low, columns, format),
               Bound("le", f.col, f.high, columns, format)>>)

translate_leaf(f, columns, format) ==
    IF f.t = "other" \/ f.col \notin DOMAIN columns THEN None
    ELSE CASE f.t = "cmp"     -> translate_comparison(f, columns, format)
           [] f.t = "in"      -> translate_in(f, columns, format)
           [] f.t = "between" -> translate_between(f, columns, format)
           [] f.t = "null"    -> Exact([t |-> "null", id |-> columns[f.col].id])
           [] f.t = "notnull" -> Exact([t |-> "not", arg |-> [t |-> "null", id |-> columns[f.col].id]])

\* Only an exact translation may be negated.
translate_not(inner) ==
    IF inner = None \/ ~inner[1].exact THEN None
    ELSE Exact([t |-> "not", arg |-> inner[1].predicate])

translate(f, columns, format) ==
    LET translated[g \in Trees] ==
          CASE g.t = "and" -> fold_and([i \in DOMAIN g.args |-> translated[g.args[i]]])
            [] g.t = "or"  -> fold_or([i \in DOMAIN g.args |-> translated[g.args[i]]])
            [] g.t = "not" -> translate_not(translated[g.arg])
            [] OTHER       -> translate_leaf(g, columns, format)
    IN  translated[f]

Pruning(f, columns, format) ==
    LET translated == translate(f, columns, format)
    IN  IF translated = None THEN None ELSE Some(translated[1].predicate)
to_iceberg_predicate(f, columns) == Pruning(f, columns, "iceberg")
to_delta_predicate(f, columns) == Pruning(f, columns, "delta")

\* Every number that f compares with a float column is one that f32 holds.
LiteralsOf(f) ==
    CASE f.t = "cmp" -> {f.lit} [] f.t = "in" -> ToSet(f.lits) [] f.t = "between" -> {f.low, f.high}
      [] OTHER -> {}
FloatsExact(f, columns) ==
    LET exact[g \in Trees] ==
          CASE g.t \in {"and", "or"} -> \A i \in DOMAIN g.args : exact[g.args[i]]
            [] g.t = "not"           -> exact[g.arg]
            [] OTHER -> g.col \in DOMAIN columns /\ columns[g.col].type = "float" =>
                           \A l \in LiteralsOf(g) : l.v % 2 = 0
    IN  exact[f]

-----------------------------------------------------------------------------
(* partition_predicate.rs: the truth values a filter reaches over the rows *)
(* of a file.                                                              *)

AnyTruth == [true |-> TRUE, false |-> TRUE]
exactly(truth) == [true |-> truth = "T", false |-> truth = "F"]
and(reached) == [true |-> \A i \in DOMAIN reached : reached[i].true,
                 false |-> \E i \in DOMAIN reached : reached[i].false]
or(reached) == [true |-> \E i \in DOMAIN reached : reached[i].true,
                false |-> \A i \in DOMAIN reached : reached[i].false]
negated(reached) == [true |-> reached.false, false |-> reached.true]

(* External: what iceberg-rust and delta_kernel skip by a file's recorded  *)
(* bounds.  stats[id] is Some([low, high, nulls]) or None; low = Null when *)
(* every value is NULL.                                                    *)
BoundReaches(p, stats) ==
    IF stats[p.id] = None THEN AnyTruth
    ELSE LET s == stats[p.id][1]
             among(truth) == s.low # Null /\ \E x \in s.low .. s.high : holds(p.op, x, p.v) = truth
         IN  IF p.t = "null" THEN [true |-> s.nulls, false |-> s.low # Null]
             ELSE [true |-> among(TRUE), false |-> among(FALSE)]

MightHold(p, stats) ==
    LET might[q \in Predicates] ==
          CASE q.t = "and" -> and([i \in DOMAIN q.args |-> might[q.args[i]]])
            [] q.t = "or"  -> or([i \in DOMAIN q.args |-> might[q.args[i]]])
            [] q.t = "not" -> negated(might[q.arg])
            [] OTHER       -> BoundReaches(q, stats)
    IN  might[p].true

-----------------------------------------------------------------------------
(* The pruning by partition values, which a file has for all its rows.     *)

literal_under(lit, type) ==
    CASE lit.kind = "num" /\ type \in {"int", "date", "timestamp", "decimal"} -> Exactly(lit.v)
      [] lit.kind = "str" /\ type = "text" -> IF lit.v = Empty THEN NoLiteral ELSE lit.v
      [] OTHER -> NoLiteral

\* values maps each partition column to the file's value; types gives its declared type.
typed_literal(col, lit, types) ==
    literal_under(lit, IF col \in DOMAIN types THEN types[col] ELSE "text")

\* A value that does not convert keeps its file, for the scan's own conversion to fail the query.
compare(op, col, lit, types, values) ==
    LET v == typed_literal(col, lit, types)
    IN  IF v = NoLiteral \/ col \notin DOMAIN values THEN AnyTruth
        ELSE IF values[col] = Null THEN exactly("N")
        ELSE IF values[col] = Junk THEN AnyTruth
        ELSE exactly(Of(holds(op, values[col], v)))

is_null(col, values) ==
    IF col \in DOMAIN values THEN exactly(Of(values[col] = Null)) ELSE AnyTruth

\* An IN or BETWEEN with one literal that does not convert constrains nothing, and
\* neither does an IN without literals or a connective without operands.
Unless(lits, col, types, reached) ==
    IF lits = {} \/ \E l \in lits : typed_literal(col, l, types) = NoLiteral THEN AnyTruth ELSE reached

reachable_leaf(f, types, values) ==
    CASE f.t = "cmp"     -> compare(comparison_operands(f), f.col, f.lit, types, values)
      [] f.t = "null"    -> is_null(f.col, values)
      [] f.t = "notnull" -> negated(is_null(f.col, values))
      [] f.t = "in"      ->
            Unless(ToSet(f.lits), f.col, types,
                   or([i \in DOMAIN f.lits |-> compare("eq", f.col, f.lits[i], types, values)]))
      [] f.t = "between" ->
            Unless({f.low, f.high}, f.col, types,
                   and(<<compare("ge", f.col, f.low, types, values),
                         compare("le", f.col, f.high, types, values)>>))
      [] f.t = "other"   -> AnyTruth

operands(args, reached) == IF args = <<>> THEN AnyTruth ELSE reached

reachable(f, types, values) ==
    LET reached[g \in Trees] ==
          CASE g.t = "and" -> operands(g.args, and([i \in DOMAIN g.args |-> reached[g.args[i]]]))
            [] g.t = "or"  -> operands(g.args, or([i \in DOMAIN g.args |-> reached[g.args[i]]]))
            [] g.t = "not" -> negated(reached[g.arg])
            [] OTHER       -> reachable_leaf(g, types, values)
    IN  reached[f]

\* The filter, if any, keeps a file when it can be TRUE of one of its rows.
keeps(filter, types, values) == filter = None \/ reachable(filter[1], types, values).true
=============================================================================
