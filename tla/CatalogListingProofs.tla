------------------------ MODULE CatalogListingProofs ------------------------
(* One listing of a namespace tree while other clients change the catalog:  *)
(* the inductive invariant, and the properties that rest on it.             *)
EXTENDS CatalogListing, Induction

\* The levels of the namespace tree.
IsDepth(f) ==
    /\ f \in [Spaces -> Nat]
    /\ f[Root] = 0
    /\ \A ns \in Spaces : \A c \in ToSet(ChildrenIn[ns]) : f[c] = f[ns] + 1
Depth == CHOOSE f : IsDepth(f)

ParentClosed(S) == \A ns \in Spaces : ToSet(ChildrenIn[ns]) \cap S # {} => ns \in S

\* The namespaces that hold one of the tables T at some depth.
NeededFor(T) ==
    {ns \in Spaces : \A S \in SUBSET Spaces :
       ParentClosed(S) /\ (\A t \in T : SpaceOf(t) \in S) => ns \in S}

\* The tables in the call's reach that exist and have not changed so far.
Steady == {t \in Tables : InReach(t) /\ held[t] = {status[t]} /\ status[t] # "absent"}
Needed == NeededFor(Steady)

\* The entries that tell what was so at some time of the call.
Entry == [table : Tables, info : Statuses \cup {"name"}]
Witnessed == {e \in Entry : /\ e.info = "name" \/ e.info \in held[e.table]
                            /\ \E s \in held[e.table] : s # "absent"}

Key(what, x) == IF what = "tables" THEN x.table ELSE x
KeysDistinct(what, s) == \A i, j \in DOMAIN s : Key(what, s[i]) = Key(what, s[j]) => i = j
Holds(what, s, x) == \E i \in DOMAIN s : Key(what, s[i]) = x

\* One listing of a namespace: of the positions it has covered, the items are
\* some, each once, and whatever stayed is among them.
Covered(what, ns, job) == IF job.done THEN Len(Positions(what, ns)) ELSE job.at
JobOK(what, ns, job, stay, items) ==
    /\ job = [at |-> job.at, done |-> job.done, items |-> job.items]
    /\ job.at \in 0 .. Len(Positions(what, ns)) /\ job.done \in BOOLEAN
    /\ job.items \in Seq(items)
    /\ KeysDistinct(what, job.items)
    /\ \A i \in DOMAIN job.items : \E p \in 1 .. Covered(what, ns, job) :
         Positions(what, ns)[p] = Key(what, job.items[i])
    /\ \A p \in 1 .. Covered(what, ns, job) :
         Positions(what, ns)[p] \in stay => Holds(what, job.items, Positions(what, ns)[p])

\* Both listings of a namespace, of the tables and of the child namespaces.
SpaceOK(ns, page, steady, needed, seen) ==
    /\ page = [tables |-> page.tables, spaces |-> page.spaces, failed |-> page.failed]
    /\ JobOK("tables", ns, page.tables, steady, seen)
    /\ JobOK("spaces", ns, page.spaces, needed, Spaces)

\* A level of depth d holds every needed namespace of that depth, and what was
\* found before lies above it.
LevelOK(d, lv, pg, fd, steady, needed, seen) ==
    /\ lv \in Seq(Spaces) /\ IsInjective(lv) /\ DOMAIN pg = DOMAIN lv
    /\ fd \in Seq(seen) /\ KeysDistinct("tables", fd)
    /\ \A k \in DOMAIN lv : Depth[lv[k]] = d /\ SpaceOK(lv[k], pg[k], steady, needed, seen)
    /\ \A ns \in needed : Depth[ns] = d => \E k \in DOMAIN lv : lv[k] = ns
    /\ \A t \in steady : Depth[SpaceOf(t)] < d => Holds("tables", fd, t)
    /\ \A i \in DOMAIN fd : Depth[SpaceOf(fd[i].table)] < d

CatalogOK ==
    /\ kind \in Kinds
    /\ live \in SUBSET Spaces /\ Root \in live /\ ParentClosed(live)
    /\ status \in [Tables -> Statuses] /\ held \in [Tables -> SUBSET Statuses]
    /\ \A t \in Tables : status[t] \in held[t] /\ (status[t] # "absent" => SpaceOf(t) \in live)

ListingOK ==
    phase = "listing" =>
      picks = <<>> /\ \E d \in Nat : LevelOK(d, level, pages, found, Steady, Needed, Witnessed)

\* Why a load may fail, and how a table that stays is taken.
AnswerOK(k) ==
    LET t == picks[k].table
    IN  /\ answers[k] \in {"none", "admitted", "skipped", "failed"}
        /\ answers[k] = "failed" => "broken" \in held[t] \/ (kind \in {"unity", "glue"} /\ "absent" \in held[t])
        /\ Settled(k) /\ t \in Steady => answers[k] = Takes(status[t])

PicksOK(ps, steady, seen, full) ==
    /\ ps \in Seq(seen) /\ KeysDistinct("tables", ps)
    /\ \A k \in DOMAIN ps : ps[k].table \in Exposed
    /\ full => \A t \in Exposed \cap steady : Holds("tables", ps, t)

LoadingOK ==
    /\ PicksOK(picks, Steady, Witnessed, phase \in {"loading", "done"})
    /\ DOMAIN answers = DOMAIN picks
    /\ \A k \in DOMAIN picks : AnswerOK(k)
    /\ phase = "done" => \A k \in DOMAIN picks : Settled(k)

IInv == CatalogOK /\ ListingOK /\ LoadingOK /\ OnlyExposedCount

-----------------------------------------------------------------------------
(* The namespace tree                                                      *)

\* The namespaces form a tree, so that each has a depth.
LEMMA DepthExists == IsDepth(Depth)
<1>1. PICK f \in [Spaces -> 0 .. Cardinality(Spaces)] :
         /\ f[Root] = 0
         /\ \A ns \in Spaces : \A c \in ToSet(ChildrenIn[ns]) : f[c] = f[ns] + 1
  BY TreeAssumption
<1>2. Cardinality(Spaces) \in Nat
  BY TreeAssumption, FS_CardinalityType
<1>3. f \in [Spaces -> Nat]
  BY <1>1, <1>2
<1>4. IsDepth(f)
  BY <1>1, <1>3 DEF IsDepth
<1> QED
  BY <1>4 DEF Depth

\* A table lies in one namespace.
LEMMA TableSpace ==
  /\ \A t \in Tables : SpaceOf(t) \in Spaces /\ t \in ToSet(TablesIn[SpaceOf(t)])
  /\ \A ns \in Spaces : \A t \in ToSet(TablesIn[ns]) : t \in Tables /\ SpaceOf(t) = ns
<1>1. ASSUME NEW t \in Tables PROVE SpaceOf(t) \in Spaces /\ t \in ToSet(TablesIn[SpaceOf(t)])
  <2>1. \E ns \in Spaces : t \in ToSet(TablesIn[ns])
    BY DEF Tables
  <2> QED
    BY <2>1 DEF SpaceOf
<1>2. ASSUME NEW ns \in Spaces, NEW t \in ToSet(TablesIn[ns]) PROVE t \in Tables /\ SpaceOf(t) = ns
  <2>1. t \in Tables
    BY DEF Tables
  <2>2. SpaceOf(t) \in Spaces /\ t \in ToSet(TablesIn[SpaceOf(t)])
    BY <1>1, <2>1
  <2> QED
    BY <2>1, <2>2, TreeAssumption
<1> QED
  BY <1>1, <1>2

\* The namespaces of the tables T, and those above them.
LEMMA NeededHolds ==
  ASSUME NEW T \in SUBSET Tables
  PROVE  /\ NeededFor(T) \subseteq Spaces
         /\ \A t \in T : SpaceOf(t) \in NeededFor(T)
         /\ \A ns \in Spaces : \A c \in ToSet(ChildrenIn[ns]) : c \in NeededFor(T) => ns \in NeededFor(T)
<1>1. \A t \in T : SpaceOf(t) \in NeededFor(T)
  BY TableSpace DEF NeededFor
<1>2. ASSUME NEW ns \in Spaces, NEW c \in ToSet(ChildrenIn[ns]), c \in NeededFor(T)
      PROVE  ns \in NeededFor(T)
  BY <1>2 DEF NeededFor, ParentClosed
<1> QED
  BY <1>1, <1>2 DEF NeededFor

\* The steady tables are tables of the catalog.
LEMMA SteadyTables == Steady \in SUBSET Tables
BY DEF Steady

\* A table that stays keeps its namespace and those above it from being dropped.
LEMMA NeededLive ==
  ASSUME CatalogOK
  PROVE  Needed \subseteq live
<1>1. ParentClosed(live) /\ live \in SUBSET Spaces /\ \A t \in Steady : SpaceOf(t) \in live
  BY DEF CatalogOK, Steady
<1> QED
  BY <1>1 DEF Needed, NeededFor

\* A call that does not descend needs the root alone.
LEMMA NeededFlat ==
  ASSUME ~descend
  PROVE  Needed \subseteq {Root}
<1>1. ParentClosed({Root})
  <2> SUFFICES ASSUME NEW ns \in Spaces, Root \in ToSet(ChildrenIn[ns]) PROVE FALSE
    BY DEF ParentClosed
  <2>1. Depth[Root] = 0 /\ Depth[Root] = Depth[ns] + 1 /\ Depth[ns] \in Nat
    BY DepthExists DEF IsDepth
  <2> QED
    BY <2>1
<1>2. \A t \in Steady : SpaceOf(t) \in {Root}
  BY DEF Steady, InReach
<1>3. {Root} \in SUBSET Spaces
  BY ListingAssumption
<1> QED
  BY <1>1, <1>2, <1>3 DEF Needed, NeededFor

\* Fewer tables need fewer namespaces.
LEMMA NeededShrinks ==
  ASSUME NEW T, NEW U \in SUBSET T
  PROVE  NeededFor(U) \subseteq NeededFor(T)
BY DEF NeededFor

\* A namespace deeper than a level has one above it just below that level.
LEMMA NeededBelow ==
  ASSUME NEW d \in Nat, NEW ns \in Needed, Depth[ns] > d
  PROVE  \E c \in Needed : Depth[c] = d + 1
<1> DEFINE T == {Depth[c] : c \in {x \in Needed : Depth[x] > d}}
<1>0. \A c \in Needed : c \in Spaces /\ Depth[c] \in Nat
  BY DepthExists DEF IsDepth, Needed, NeededFor
<1>1. T \in SUBSET Nat /\ T # {}
  BY <1>0
<1>2. PICK n \in T : \A m \in T : n <= m
  <2> HIDE DEF T
  <2> QED
    BY <1>1, LeastNumber
<1>3. PICK c \in Needed : Depth[c] = n /\ n > d
  BY <1>2
<1>4. c # Root
  BY <1>3, DepthExists DEF IsDepth
<1>5. PICK up \in Spaces : c \in ToSet(ChildrenIn[up])
  BY <1>0, <1>3, <1>4, TreeAssumption
<1>6. up \in Needed /\ Depth[c] = Depth[up] + 1 /\ Depth[up] \in Nat
  BY <1>3, <1>5, NeededHolds, SteadyTables, DepthExists DEF IsDepth, Needed
<1>7. ~(Depth[up] > d)
  <2> SUFFICES ASSUME Depth[up] > d PROVE FALSE
    OBVIOUS
  <2>1. Depth[up] \in T
    BY <1>6
  <2>2. n <= Depth[up] /\ n \in Nat
    BY <1>1, <1>2, <2>1
  <2> QED
    BY <1>3, <1>6, <2>2
<1> QED
  BY <1>3, <1>6, <1>7

-----------------------------------------------------------------------------
(* Sequences of items                                                      *)

\* What the concatenation q of the sequences ss[a], a in K, holds: their elements,
\* all of them, and at two positions those of two positions.
FlatFrom(q, ss, K) == \A i \in DOMAIN q : \E a \in K : \E b \in DOMAIN ss[a] : ss[a][b] = q[i]
FlatInto(q, ss, K) == \A a \in K : \A b \in DOMAIN ss[a] : \E i \in DOMAIN q : q[i] = ss[a][b]
Apart(ss, K, x, y) ==
    \E a, c \in K : \E b \in DOMAIN ss[a], e \in DOMAIN ss[c] :
      (a # c \/ b # e) /\ ss[a][b] = x /\ ss[c][e] = y
FlatApart(q, ss, K) == \A i, j \in DOMAIN q : i # j => Apart(ss, K, q[i], q[j])

\* What a concatenation holds, by position.
LEMMA Concatenated ==
  ASSUME NEW X, NEW s \in Seq(X), NEW r \in Seq(X)
  PROVE  /\ s \o r \in Seq(X)
         /\ \A i \in DOMAIN (s \o r) : \/ i \in DOMAIN s /\ (s \o r)[i] = s[i]
                                       \/ \E j \in DOMAIN r : i = Len(s) + j /\ (s \o r)[i] = r[j]
         /\ \A i \in DOMAIN s : i \in DOMAIN (s \o r) /\ (s \o r)[i] = s[i]
         /\ \A j \in DOMAIN r : Len(s) + j \in DOMAIN (s \o r) /\ (s \o r)[Len(s) + j] = r[j]
<1> DEFINE z == s \o r
<1>1. /\ z \in Seq(X) /\ DOMAIN z = 1 .. Len(s) + Len(r)
      /\ DOMAIN s = 1 .. Len(s) /\ DOMAIN r = 1 .. Len(r) /\ Len(s) \in Nat /\ Len(r) \in Nat
      /\ \A i \in 1 .. Len(s) : z[i] = s[i]
      /\ \A i \in 1 .. Len(r) : z[Len(s) + i] = r[i]
  OBVIOUS
<1> HIDE DEF z
<1>2. ASSUME NEW i \in DOMAIN z, i \notin DOMAIN s
      PROVE  \E j \in DOMAIN r : i = Len(s) + j /\ z[i] = r[j]
  <2>1. i - Len(s) \in 1 .. Len(r) /\ i = Len(s) + (i - Len(s))
    BY <1>1, <1>2
  <2>2. z[i] = r[i - Len(s)]
    BY <1>1, <2>1
  <2> QED
    BY <1>1, <2>1, <2>2
<1>3. \A i \in DOMAIN s : i \in DOMAIN z /\ z[i] = s[i]
  BY <1>1
<1>4. \A j \in DOMAIN r : Len(s) + j \in DOMAIN z /\ z[Len(s) + j] = r[j]
  BY <1>1
<1>5. \A i \in DOMAIN z : (i \in DOMAIN s /\ z[i] = s[i]) \/ (\E j \in DOMAIN r : i = Len(s) + j /\ z[i] = r[j])
  BY <1>2, <1>3
<1> QED
  BY <1>1, <1>3, <1>4, <1>5 DEF z

\* x comes before y in s.
InSeqBefore(s, x, y) == \E i, j \in DOMAIN s : i < j /\ s[i] = x /\ s[j] = y

\* FlattenSeq joins one part after another.
FlatSteps(ss, f) ==
    /\ FlattenSeq(ss) = f[Len(ss)]
    /\ \A i \in 1 .. Len(ss) : f[i] = IF i = 1 THEN ss[i] ELSE f[i - 1] \o ss[i]

\* The concatenation q of the parts ss[a], a in K, keeps their order: part by
\* part, and in each part place by place.
Earlier(a, b, c, e) == a < c \/ (a = c /\ b < e)
FlatOrigins(q, ss, K) ==
    \A i, j \in DOMAIN q : i < j =>
      \E a, c \in K : \E b \in DOMAIN ss[a], e \in DOMAIN ss[c] :
        Earlier(a, b, c, e) /\ ss[a][b] = q[i] /\ ss[c][e] = q[j]
FlatPlaces(q, ss, K) ==
    \A a, c \in K : \A b \in DOMAIN ss[a], e \in DOMAIN ss[c] :
      Earlier(a, b, c, e) => InSeqBefore(q, ss[a][b], ss[c][e])

\* What one more part adds.
LEMMA OnePart ==
  ASSUME NEW X, NEW ss, NEW n \in Nat \ {0}, NEW q \in Seq(X), ss[n + 1] \in Seq(X),
         FlatFrom(q, ss, 1 .. n), FlatInto(q, ss, 1 .. n),
         FlatOrigins(q, ss, 1 .. n), FlatPlaces(q, ss, 1 .. n)
  PROVE  /\ q \o ss[n + 1] \in Seq(X)
         /\ FlatFrom(q \o ss[n + 1], ss, 1 .. n + 1) /\ FlatInto(q \o ss[n + 1], ss, 1 .. n + 1)
         /\ FlatOrigins(q \o ss[n + 1], ss, 1 .. n + 1) /\ FlatPlaces(q \o ss[n + 1], ss, 1 .. n + 1)
<1> DEFINE r == ss[n + 1]
           z == q \o r
<1>1. /\ z \in Seq(X)
      /\ \A i \in DOMAIN z : \/ i \in DOMAIN q /\ z[i] = q[i]
                             \/ \E j \in DOMAIN r : i = Len(q) + j /\ z[i] = r[j]
      /\ \A i \in DOMAIN q : i \in DOMAIN z /\ z[i] = q[i]
      /\ \A j \in DOMAIN r : Len(q) + j \in DOMAIN z /\ z[Len(q) + j] = r[j]
  BY Concatenated
<1>2. /\ Len(q) \in Nat /\ DOMAIN q = 1 .. Len(q) /\ Len(r) \in Nat /\ DOMAIN r = 1 .. Len(r)
      /\ Len(z) \in Nat /\ DOMAIN z = 1 .. Len(z)
  <2>1. Len(q) \in Nat /\ DOMAIN q = 1 .. Len(q) /\ Len(r) \in Nat /\ DOMAIN r = 1 .. Len(r)
    OBVIOUS
  <2> HIDE DEF z
  <2>2. Len(z) \in Nat /\ DOMAIN z = 1 .. Len(z)
    BY <1>1
  <2> QED
    BY <2>1, <2>2
<1>3. /\ n + 1 \in 1 .. n + 1 /\ \A a \in 1 .. n : a \in 1 .. n + 1 /\ a < n + 1 /\ a \in Nat
      /\ \A a \in 1 .. n + 1 : a \in 1 .. n \/ a = n + 1
  OBVIOUS
<1>4. /\ \A i \in DOMAIN q : i \in Nat /\ \A j \in DOMAIN r : i < Len(q) + j
      /\ \A i, j \in DOMAIN r : i \in Nat /\ j \in Nat /\ (i < j <=> Len(q) + i < Len(q) + j)
      /\ \A j \in DOMAIN r, i \in DOMAIN q : ~(Len(q) + j < i)
  BY <1>2
<1>5. r = ss[n + 1]
  OBVIOUS
<1> HIDE DEF z, r
<1>6. FlatFrom(z, ss, 1 .. n + 1)
  <2> SUFFICES ASSUME NEW i \in DOMAIN z PROVE \E a \in 1 .. n + 1 : \E b \in DOMAIN ss[a] : ss[a][b] = z[i]
    BY DEF FlatFrom
  <2>1. CASE i \in DOMAIN q /\ z[i] = q[i]
    <3>1. PICK a \in 1 .. n : \E b \in DOMAIN ss[a] : ss[a][b] = q[i]
      BY <2>1 DEF FlatFrom
    <3> QED
      BY <1>3, <2>1, <3>1
  <2>2. CASE \E j \in DOMAIN r : i = Len(q) + j /\ z[i] = r[j]
    BY <1>3, <1>5, <2>2
  <2> QED
    BY <1>1, <2>1, <2>2
<1>7. FlatInto(z, ss, 1 .. n + 1)
  <2> SUFFICES ASSUME NEW a \in 1 .. n + 1, NEW b \in DOMAIN ss[a] PROVE \E i \in DOMAIN z : z[i] = ss[a][b]
    BY DEF FlatInto
  <2>1. CASE a \in 1 .. n
    <3>1. PICK i \in DOMAIN q : q[i] = ss[a][b]
      BY <2>1 DEF FlatInto
    <3> QED
      BY <1>1, <3>1
  <2>2. CASE a = n + 1
    BY <1>1, <1>5, <2>2
  <2> QED
    BY <1>3, <2>1, <2>2
<1>8. FlatOrigins(z, ss, 1 .. n + 1)
  <2> SUFFICES ASSUME NEW i \in DOMAIN z, NEW j \in DOMAIN z, i < j
               PROVE  \E a, c \in 1 .. n + 1 : \E b \in DOMAIN ss[a], e \in DOMAIN ss[c] :
                        Earlier(a, b, c, e) /\ ss[a][b] = z[i] /\ ss[c][e] = z[j]
    BY DEF FlatOrigins
  <2>1. CASE i \in DOMAIN q /\ z[i] = q[i] /\ j \in DOMAIN q /\ z[j] = q[j]
    <3>1. PICK a, c \in 1 .. n : \E b \in DOMAIN ss[a], e \in DOMAIN ss[c] :
                 Earlier(a, b, c, e) /\ ss[a][b] = q[i] /\ ss[c][e] = q[j]
      BY <2>1 DEF FlatOrigins
    <3>2. a \in 1 .. n + 1 /\ c \in 1 .. n + 1
      BY <1>3
    <3> QED
      BY <2>1, <3>1, <3>2
  <2>2. ASSUME i \in DOMAIN q, z[i] = q[i], NEW l \in DOMAIN r, j = Len(q) + l, z[j] = r[l]
        PROVE  \E a, c \in 1 .. n + 1 : \E b \in DOMAIN ss[a], e \in DOMAIN ss[c] :
                 Earlier(a, b, c, e) /\ ss[a][b] = z[i] /\ ss[c][e] = z[j]
    <3>1. PICK a \in 1 .. n : \E b \in DOMAIN ss[a] : ss[a][b] = q[i]
      BY <2>2 DEF FlatFrom
    <3>2. PICK b \in DOMAIN ss[a] : ss[a][b] = q[i]
      BY <3>1
    <3>3. Earlier(a, b, n + 1, l) /\ a \in 1 .. n + 1 /\ n + 1 \in 1 .. n + 1 /\ l \in DOMAIN ss[n + 1]
      BY <1>3, <1>5 DEF Earlier
    <3> QED
      BY <1>5, <2>2, <3>2, <3>3
  <2>3. ASSUME NEW k \in DOMAIN r, i = Len(q) + k, z[i] = r[k], NEW l \in DOMAIN r, j = Len(q) + l, z[j] = r[l]
        PROVE  \E a, c \in 1 .. n + 1 : \E b \in DOMAIN ss[a], e \in DOMAIN ss[c] :
                 Earlier(a, b, c, e) /\ ss[a][b] = z[i] /\ ss[c][e] = z[j]
    <3>1. k < l
      BY <1>4, <2>3
    <3>2. Earlier(n + 1, k, n + 1, l) /\ n + 1 \in 1 .. n + 1 /\ k \in DOMAIN ss[n + 1] /\ l \in DOMAIN ss[n + 1]
      BY <1>3, <1>5, <3>1 DEF Earlier
    <3> QED
      BY <1>5, <2>3, <3>2
  <2>4. ASSUME NEW k \in DOMAIN r, i = Len(q) + k, j \in DOMAIN q PROVE FALSE
    BY <1>4, <2>4
  <2> QED
    BY <1>1, <2>1, <2>2, <2>3, <2>4
<1>9. FlatPlaces(z, ss, 1 .. n + 1)
  <2> SUFFICES ASSUME NEW a \in 1 .. n + 1, NEW c \in 1 .. n + 1, NEW b \in DOMAIN ss[a], NEW e \in DOMAIN ss[c],
                      Earlier(a, b, c, e)
               PROVE  InSeqBefore(z, ss[a][b], ss[c][e])
    BY DEF FlatPlaces
  <2>1. CASE a \in 1 .. n /\ c \in 1 .. n
    <3>1. InSeqBefore(q, ss[a][b], ss[c][e])
      BY <2>1 DEF FlatPlaces
    <3>2. PICK i, j \in DOMAIN q : i < j /\ q[i] = ss[a][b] /\ q[j] = ss[c][e]
      BY <3>1 DEF InSeqBefore
    <3> QED
      BY <1>1, <3>2 DEF InSeqBefore
  <2>2. CASE a \in 1 .. n /\ c = n + 1
    <3>1. PICK i \in DOMAIN q : q[i] = ss[a][b]
      BY <2>2 DEF FlatInto
    <3>2. e \in DOMAIN r /\ ss[c][e] = r[e]
      BY <1>5, <2>2
    <3>3. i < Len(q) + e
      BY <1>4, <3>2
    <3> QED
      BY <1>1, <3>1, <3>2, <3>3 DEF InSeqBefore
  <2>3. CASE a = n + 1 /\ c = n + 1
    <3>1. b \in DOMAIN r /\ e \in DOMAIN r /\ ss[a][b] = r[b] /\ ss[c][e] = r[e]
      BY <1>5, <2>3
    <3>2. b < e
      BY <2>3 DEF Earlier
    <3>3. Len(q) + b < Len(q) + e
      BY <1>4, <3>1, <3>2
    <3> QED
      BY <1>1, <3>1, <3>3 DEF InSeqBefore
  <2>4. CASE a = n + 1 /\ c \in 1 .. n
    <3>1. c < n + 1 /\ c \in Nat
      BY <1>3, <2>4
    <3>2. ~(n + 1 < c) /\ n + 1 # c
      BY <3>1
    <3> QED
      BY <2>4, <3>2 DEF Earlier
  <2> QED
    BY <1>3, <2>1, <2>2, <2>3, <2>4
<1> QED
  BY <1>1, <1>6, <1>7, <1>8, <1>9 DEF z, r

\* FlattenSeq of one part or more has such steps.
LEMMA StepsOfFlatten ==
  ASSUME NEW X, NEW ss \in Seq(Seq(X)), Len(ss) # 0
  PROVE  \E f : FlatSteps(ss, f)
<1> DEFINE N == Len(ss)
<1>a. N \in Nat /\ DOMAIN ss = 1 .. N /\ \A a \in 1 .. N : ss[a] \in Seq(X)
  OBVIOUS
<1>b. N # 0
  OBVIOUS
<1> DEFINE A == Seq(X)
           F == [n \in Nat |-> [q \in A |-> IF n + 2 \in DOMAIN ss THEN q \o ss[n + 2] ELSE q]]
           Recursive(f) == f = [i \in 1 .. N |-> IF i = 1 THEN ss[i] ELSE f[i - 1] \o ss[i]]
<1>1. StepFunction(F, A) /\ ss[1] \in A /\ N - 1 \in Nat
  <2>1. ASSUME NEW n \in Nat, NEW q \in A PROVE (IF n + 2 \in DOMAIN ss THEN q \o ss[n + 2] ELSE q) \in A
    BY <1>a
  <2> QED
    BY <1>a, <1>b, <2>1 DEF StepFunction
<1>2. PICK g : IteratesUpto(g, N - 1, A, ss[1], F)
  <2> DEFINE a == ss[1]  M == N - 1
  <2>1. StepFunction(F, A) /\ a \in A /\ M \in Nat
    BY <1>1
  <2> HIDE DEF F, A, a, M
  <2>2. \E g : IteratesUpto(g, M, A, a, F)
    BY <2>1, FirstIterates
  <2> QED
    BY <2>2 DEF a, M
<1> DEFINE h == [i \in 1 .. N |-> g[i - 1]]
<1>3. ASSUME NEW i \in 1 .. N PROVE h[i] = IF i = 1 THEN ss[i] ELSE h[i - 1] \o ss[i]
  <2>1. i - 1 \in 0 .. N - 1 /\ h[i] = g[i - 1]
    BY <1>a
  <2>2. CASE i = 1
    <3>1. i - 1 = 0 /\ 0 \in 0 .. N - 1
      BY <2>1, <2>2
    <3> HIDE DEF F, A
    <3>2. g[0] = ss[1]
      BY <1>2, <3>1 DEF IteratesUpto
    <3> QED
      BY <2>1, <2>2, <3>1, <3>2
  <2>3. CASE i # 1
    <3>1. /\ (i - 1) - 1 \in Nat /\ (i - 1) - 1 \in 0 .. N - 1 /\ ((i - 1) - 1) + 2 = i
          /\ i - 1 # 0 /\ i - 1 \in 1 .. N
      BY <1>a, <2>3
    <3>2. g[i - 1] = F[(i - 1) - 1][g[(i - 1) - 1]] /\ g[(i - 1) - 1] \in A
      <4> HIDE DEF F, A
      <4> QED
        BY <1>2, <2>1, <3>1 DEF IteratesUpto
    <3>3. F[(i - 1) - 1][g[(i - 1) - 1]] = g[(i - 1) - 1] \o ss[i]
      BY <1>a, <3>1, <3>2
    <3>4. h[i - 1] = g[(i - 1) - 1]
      BY <3>1
    <3> QED
      BY <2>1, <2>3, <3>2, <3>3, <3>4
  <2> QED
    BY <2>2, <2>3
<1>4. Recursive(h)
  <2>1. h = [i \in 1 .. N |-> h[i]]
    OBVIOUS
  <2> HIDE DEF h
  <2> QED
    BY <1>3, <2>1
<1>5. PICK f : Recursive(f) /\ FlattenSeq(ss) = f[N]
  <2>1. FlattenSeq(ss) = (CHOOSE f : Recursive(f))[N]
    BY <1>b DEF FlattenSeq
  <2> HIDE DEF Recursive
  <2> QED
    BY <1>4, <2>1
<1> HIDE DEF F, h
<1>6. \A i \in 1 .. N : f[i] = IF i = 1 THEN ss[i] ELSE f[i - 1] \o ss[i]
  <2> HIDE DEF N
  <2> QED
    BY <1>5
<1> QED
  BY <1>5, <1>6 DEF FlatSteps

\* What FlattenSeq computes: each element comes from one of the parts, each
\* element of a part is in it, and the order is that of the parts.
LEMMA FlatInOrder ==
  ASSUME NEW X, NEW ss \in Seq(Seq(X))
  PROVE  /\ FlattenSeq(ss) \in Seq(X)
         /\ FlatFrom(FlattenSeq(ss), ss, DOMAIN ss)
         /\ FlatInto(FlattenSeq(ss), ss, DOMAIN ss)
         /\ FlatOrigins(FlattenSeq(ss), ss, DOMAIN ss)
         /\ FlatPlaces(FlattenSeq(ss), ss, DOMAIN ss)
<1> DEFINE N == Len(ss)
<1>1. N \in Nat /\ DOMAIN ss = 1 .. N /\ \A a \in 1 .. N : ss[a] \in Seq(X)
  OBVIOUS
<1>2. CASE N = 0
  <2>1. FlattenSeq(ss) = ss /\ DOMAIN ss = {} /\ ss \in Seq(X)
    BY <1>1, <1>2 DEF FlattenSeq
  <2> QED
    BY <2>1 DEF FlatFrom, FlatInto, FlatOrigins, FlatPlaces
<1>3. CASE N # 0
  <2>1. PICK f : FlatSteps(ss, f)
    BY <1>3, StepsOfFlatten
  <2>2. FlattenSeq(ss) = f[N] /\ \A i \in 1 .. N : f[i] = IF i = 1 THEN ss[i] ELSE f[i - 1] \o ss[i]
    BY <2>1 DEF FlatSteps
  <2> DEFINE Good(q, K) == /\ q \in Seq(X) /\ FlatFrom(q, ss, K) /\ FlatInto(q, ss, K)
                           /\ FlatOrigins(q, ss, K) /\ FlatPlaces(q, ss, K)
             P == {n \in 0 .. N - 1 : Good(f[n + 1], 1 .. n + 1)}
  <2>3. 0 \in P
    <3>1. f[0 + 1] = ss[1] /\ 1 .. 0 + 1 = {1} /\ 0 \in 0 .. N - 1 /\ ss[1] \in Seq(X)
      BY <1>1, <1>3, <2>2
    <3>2. FlatFrom(ss[1], ss, {1}) /\ FlatInto(ss[1], ss, {1})
      BY DEF FlatFrom, FlatInto
    <3>3. FlatOrigins(ss[1], ss, {1})
      BY DEF FlatOrigins, Earlier
    <3>4. FlatPlaces(ss[1], ss, {1})
      BY DEF FlatPlaces, Earlier, InSeqBefore
    <3> QED
      BY <3>1, <3>2, <3>3, <3>4
  <2>4. ASSUME NEW n \in P, n < N - 1 PROVE n + 1 \in P
    <3>1. /\ n \in Nat /\ n + 1 \in Nat \ {0} /\ (n + 1) + 1 \in 1 .. N /\ (n + 1) + 1 # 1
          /\ ((n + 1) + 1) - 1 = n + 1 /\ n + 1 \in 0 .. N - 1
      BY <1>1, <2>4
    <3>2. f[(n + 1) + 1] = f[n + 1] \o ss[(n + 1) + 1] /\ ss[(n + 1) + 1] \in Seq(X)
      BY <1>1, <2>2, <3>1
    <3>3. Good(f[n + 1], 1 .. n + 1)
      BY <2>4
    <3>4. Good(f[n + 1] \o ss[(n + 1) + 1], 1 .. (n + 1) + 1)
      <4> DEFINE m == n + 1  q == f[n + 1]
      <4>1. m \in Nat \ {0} /\ q \in Seq(X) /\ ss[m + 1] \in Seq(X) /\ Good(q, 1 .. m)
        BY <3>1, <3>2, <3>3
      <4> HIDE DEF m, q
      <4>2. Good(q \o ss[m + 1], 1 .. m + 1)
        BY <4>1, OnePart
      <4> QED
        BY <4>2 DEF m, q
    <3> HIDE DEF Good
    <3> QED
      BY <3>1, <3>2, <3>4
  <2>5. P = 0 .. N - 1
    <3> DEFINE M == N - 1
    <3>1. M \in Nat /\ P \in SUBSET (0 .. M) /\ 0 \in P /\ \A n \in P : n < M => n + 1 \in P
      BY <1>1, <1>3, <2>3, <2>4
    <3> HIDE DEF P, M
    <3>2. P = 0 .. M
      BY <3>1, BoundedInduction
    <3> QED
      BY <3>2 DEF M
  <2>6. N - 1 \in P /\ (N - 1) + 1 = N
    <3>1. N - 1 \in 0 .. N - 1 /\ (N - 1) + 1 = N
      BY <1>1, <1>3
    <3> HIDE DEF P
    <3> QED
      BY <2>5, <3>1
  <2>7. Good(f[N], DOMAIN ss)
    <3> HIDE DEF Good
    <3>1. Good(f[(N - 1) + 1], 1 .. (N - 1) + 1)
      BY <2>6
    <3> QED
      BY <1>1, <2>6, <3>1
  <2> QED
    BY <2>2, <2>7
<1> QED
  BY <1>2, <1>3

\* Elements that no two parts share stay apart.
LEMMA Flattened ==
  ASSUME NEW X, NEW ss \in Seq(Seq(X))
  PROVE  /\ FlattenSeq(ss) \in Seq(X)
         /\ FlatFrom(FlattenSeq(ss), ss, DOMAIN ss)
         /\ FlatInto(FlattenSeq(ss), ss, DOMAIN ss)
         /\ FlatApart(FlattenSeq(ss), ss, DOMAIN ss)
<1> DEFINE q == FlattenSeq(ss)
<1>1. q \in Seq(X) /\ FlatOrigins(q, ss, DOMAIN ss) /\ FlatFrom(q, ss, DOMAIN ss) /\ FlatInto(q, ss, DOMAIN ss)
  BY FlatInOrder
<1> HIDE DEF q
<1>2. \A i, j \in DOMAIN q : i # j => i < j \/ j < i
  BY <1>1
<1>3. ASSUME NEW i \in DOMAIN q, NEW j \in DOMAIN q, i < j
      PROVE  Apart(ss, DOMAIN ss, q[i], q[j]) /\ Apart(ss, DOMAIN ss, q[j], q[i])
  <2>1. PICK a, c \in DOMAIN ss : \E b \in DOMAIN ss[a], e \in DOMAIN ss[c] :
           Earlier(a, b, c, e) /\ ss[a][b] = q[i] /\ ss[c][e] = q[j]
    BY <1>1, <1>3 DEF FlatOrigins
  <2>2. PICK b \in DOMAIN ss[a], e \in DOMAIN ss[c] : Earlier(a, b, c, e) /\ ss[a][b] = q[i] /\ ss[c][e] = q[j]
    BY <2>1
  <2>3. a # c \/ b # e
    <3>1. a \in Int /\ c \in Int /\ b \in Int /\ e \in Int
      OBVIOUS
    <3> QED
      BY <2>2, <3>1 DEF Earlier
  <2> QED
    BY <2>2, <2>3 DEF Apart
<1>4. FlatApart(q, ss, DOMAIN ss)
  BY <1>2, <1>3 DEF FlatApart
<1> QED
  BY <1>1, <1>4 DEF q

-----------------------------------------------------------------------------
(* One page                                                                *)

\* Min picks the least element of a set of numbers.
LEMMA MinOf ==
  ASSUME NEW S \in SUBSET Nat, S # {}
  PROVE  Min(S) \in S /\ \A y \in S : Min(S) <= y
<1>1. \E x \in S : \A y \in S : x <= y
  BY LeastNumber
<1> QED
  BY <1>1 DEF Min

\* Max picks the greatest element of a bounded set of numbers.
LEMMA MaxOf ==
  ASSUME NEW S \in SUBSET Nat, S # {}, NEW b \in Nat, \A x \in S : x <= b
  PROVE  Max(S) \in S /\ \A y \in S : Max(S) >= y
<1>1. \E x \in S : \A y \in S : x >= y
  BY GreatestNumber
<1> QED
  BY <1>1 DEF Max

\* The two listings of a namespace, and what each names.
Listings == {"tables", "spaces"}
NamesOf(what) == IF what = "tables" THEN Tables ELSE Spaces

\* The catalog's order of a listing names each member once.
LEMMA PositionsType ==
  ASSUME NEW what \in Listings, NEW ns \in Spaces
  PROVE  /\ Positions(what, ns) \in Seq(NamesOf(what))
         /\ IsInjective(Positions(what, ns))
         /\ Len(Positions(what, ns)) \in Nat
<1>1. ChildrenIn[ns] \in Seq(Spaces) /\ TablesIn[ns] \in Seq(Tables)
  BY ListingAssumption
<1>2. IsInjective(ChildrenIn[ns]) /\ IsInjective(TablesIn[ns])
  BY TreeAssumption
<1>3. CASE what = "tables"
  <2>1. Positions(what, ns) = TablesIn[ns] /\ NamesOf(what) = Tables
    BY <1>3 DEF Positions, NamesOf
  <2> QED
    BY <1>1, <1>2, <2>1
<1>4. CASE what = "spaces"
  <2>1. Positions(what, ns) = ChildrenIn[ns] /\ NamesOf(what) = Spaces
    BY <1>4 DEF Positions, NamesOf
  <2> QED
    BY <1>1, <1>2, <2>1
<1> QED
  BY <1>3, <1>4 DEF Listings

\* An answer covers positions after its token's, and an empty one of Glue all
\* that are left.
LEMMA PageBounds ==
  ASSUME NEW what \in Listings, NEW ns \in Spaces, NEW at \in 0 .. Len(Positions(what, ns))
  PROVE  /\ PageEnd(what, ns, at) \in at .. Len(Positions(what, ns))
         /\ kind = "glue" /\ (\A p \in at + 1 .. PageEnd(what, ns, at) : ~Exists(what, Positions(what, ns)[p]))
              => PageEnd(what, ns, at) = Len(Positions(what, ns))
<1> DEFINE all == Positions(what, ns)
           N == Len(all)
           due == Min({at + PageSize, N})
           filled == {q \in due .. N : \E p \in at + 1 .. q : Exists(what, all[p])}
<1>1. N \in Nat /\ at \in Nat /\ at <= N /\ PageSize \in Nat
  BY PositionsType, ListingAssumption
<1>2. due \in {at + PageSize, N} /\ due <= at + PageSize /\ due <= N
  <2> DEFINE S == {at + PageSize, N}
  <2>1. S \in SUBSET Nat /\ S # {} /\ at + PageSize \in S /\ N \in S
    BY <1>1
  <2> HIDE DEF S, N
  <2>2. Min(S) \in S /\ \A y \in S : Min(S) <= y
    BY <2>1, MinOf
  <2> QED
    BY <2>1, <2>2 DEF S
<1>3. due \in at .. N
  <2> HIDE DEF due, N
  <2> QED
    BY <1>1, <1>2
<1>4. PageEnd(what, ns, at) = IF kind # "glue" THEN due ELSE IF filled = {} THEN N ELSE Min(filled)
  BY DEF PageEnd
<1>5. filled # {} => Min(filled) \in filled
  <2>1. filled \in SUBSET Nat
    <3> HIDE DEF due, N
    <3> QED
      BY <1>1, <1>3
  <2> HIDE DEF filled
  <2> QED
    BY <2>1, MinOf
<1>6. \A q \in filled : q \in at .. N /\ \E p \in at + 1 .. q : Exists(what, all[p])
  <2> HIDE DEF due, N
  <2> QED
    BY <1>1, <1>3
<1> HIDE DEF filled, due, all
<1>7. PageEnd(what, ns, at) \in at .. N
  BY <1>1, <1>3, <1>4, <1>5, <1>6
<1>8. ASSUME kind = "glue", \A p \in at + 1 .. PageEnd(what, ns, at) : ~Exists(what, all[p])
      PROVE  PageEnd(what, ns, at) = N
  BY <1>4, <1>5, <1>6, <1>8
<1> QED
  BY <1>7, <1>8 DEF all

\* The names of an answer: what exists at the positions it covers, each once.
LEMMA PageNames ==
  ASSUME NEW what \in Listings, NEW ns \in Spaces, NEW at \in 0 .. Len(Positions(what, ns))
  PROVE  LET names == PageItems(what, ns, at)
             end == PageEnd(what, ns, at)
             all == Positions(what, ns)
         IN  /\ names \in Seq(NamesOf(what))
             /\ \A i \in DOMAIN names : Exists(what, names[i]) /\ \E p \in at + 1 .. end : all[p] = names[i]
             /\ \A p \in at + 1 .. end : Exists(what, all[p]) => \E i \in DOMAIN names : names[i] = all[p]
             /\ \A i, j \in DOMAIN names : names[i] = names[j] => i = j
<1> DEFINE all == Positions(what, ns)
           end == PageEnd(what, ns, at)
           names == PageItems(what, ns, at)
           X == NamesOf(what)
           sub == SubSeq(all, at + 1, end)
           T == {e \in ToSet(all) : Exists(what, e)}
<1>1. /\ all \in Seq(X) /\ at \in Nat /\ end \in Nat /\ at <= end /\ end <= Len(all) /\ Len(all) \in Nat
      /\ IsInjective(all)
  BY PositionsType, PageBounds
<1>2. names = Selected(sub, T)
  BY DEF PageItems
<1> HIDE DEF all, end, names, X, T
<1>3. /\ sub \in Seq(X) /\ DOMAIN sub = 1 .. end - at
      /\ \A k \in 1 .. end - at : sub[k] = all[at + k]
  <2>1. /\ sub \in Seq(X) /\ Len(sub) = end - at
        /\ \A k \in 1 .. end - at : sub[k] = all[at + k]
    BY <1>1
  <2> HIDE DEF sub
  <2> QED
    BY <2>1
<1>4. \A p \in at + 1 .. end : p \in DOMAIN all /\ p - at \in DOMAIN sub /\ sub[p - at] = all[p]
  <2> HIDE DEF sub
  <2> SUFFICES ASSUME NEW p \in at + 1 .. end PROVE p \in DOMAIN all /\ p - at \in DOMAIN sub /\ sub[p - at] = all[p]
    OBVIOUS
  <2>1. p \in 1 .. Len(all) /\ p - at \in 1 .. end - at /\ at + (p - at) = p
    BY <1>1
  <2> QED
    BY <1>1, <1>3, <2>1
<1>5. \A k \in DOMAIN sub : at + k \in at + 1 .. end /\ at + k \in DOMAIN all /\ sub[k] = all[at + k]
  <2> HIDE DEF sub
  <2> QED
    BY <1>1, <1>3
<1> HIDE DEF sub
<1>6. /\ names \in Seq(X)
      /\ \A i \in DOMAIN names : names[i] \in T /\ \E k \in DOMAIN sub : sub[k] = names[i]
      /\ \A k \in DOMAIN sub : sub[k] \in T => \E i \in DOMAIN names : names[i] = sub[k]
      /\ DistinctOrigins(names, sub, DOMAIN sub)
  <2>1. /\ Selected(sub, T) \in Seq(X)
        /\ \A i \in DOMAIN Selected(sub, T) :
             /\ Selected(sub, T)[i] \in T
             /\ \E k \in DOMAIN sub : sub[k] = Selected(sub, T)[i]
        /\ \A k \in DOMAIN sub : sub[k] \in T =>
             \E i \in DOMAIN Selected(sub, T) : Selected(sub, T)[i] = sub[k]
        /\ DistinctOrigins(Selected(sub, T), sub, DOMAIN sub)
    BY <1>3, SelectedElements
  <2> QED
    BY <1>2, <2>1
<1>7. \A i \in DOMAIN names : Exists(what, names[i]) /\ \E p \in at + 1 .. end : all[p] = names[i]
  BY <1>5, <1>6 DEF T
<1>8. ASSUME NEW p \in at + 1 .. end, Exists(what, all[p]) PROVE \E i \in DOMAIN names : names[i] = all[p]
  <2>1. all[p] \in T
    BY <1>4, <1>8 DEF T, ToSet
  <2> QED
    BY <1>4, <1>6, <2>1
<1>9. ASSUME NEW i \in DOMAIN names, NEW j \in DOMAIN names, names[i] = names[j], i # j PROVE FALSE
  <2>1. PICK k, l \in DOMAIN sub : k # l /\ sub[k] = names[i] /\ sub[l] = names[j]
    BY <1>6, <1>9 DEF DistinctOrigins
  <2>2. all[at + k] = all[at + l] /\ at + k \in DOMAIN all /\ at + l \in DOMAIN all
    BY <1>5, <1>9, <2>1
  <2>3. at + k = at + l
    BY <1>1, <2>2 DEF IsInjective
  <2>4. k \in Int /\ l \in Int
    BY <1>3
  <2> QED
    BY <1>1, <2>1, <2>3, <2>4
<1> QED
  BY <1>6, <1>7, <1>8, <1>9 DEF all, end, names, X

\* Where a listing stands after one more page.
NextJob(job, names, token, items) ==
    [at |-> IF token = NoToken THEN job.at ELSE token,
     done |-> ~more_pages(names, token),
     items |-> job.items \o items]

\* After a page the job has passed exactly the positions up to the page's
\* end, whether the answer carries a token or not.
LEMMA PageCovers ==
  ASSUME NEW what \in Listings, NEW ns \in Spaces, NEW job, NEW items,
         job.at \in 0 .. Len(Positions(what, ns))
  PROVE  LET next == NextJob(job, PageItems(what, ns, job.at), PageToken(what, ns, job.at), items)
         IN  /\ next.at \in 0 .. Len(Positions(what, ns)) /\ next.done \in BOOLEAN
             /\ Covered(what, ns, next) = PageEnd(what, ns, job.at)
<1> DEFINE at == job.at
           N == Len(Positions(what, ns))
           end == PageEnd(what, ns, at)
           names == PageItems(what, ns, at)
           token == PageToken(what, ns, at)
           next == NextJob(job, names, token, items)
<1>1. /\ next.at = IF token = NoToken THEN at ELSE token
      /\ next.done = ~more_pages(names, token)
  BY DEF NextJob
<1>2. N \in Nat /\ at \in 0 .. N /\ end \in at .. N
  BY PositionsType, PageBounds
<1>3. token = IF end < N \/ trailing THEN end ELSE NoToken
  BY DEF PageToken
<1>4. names = <<>> /\ kind = "glue" => end = N
  <2>1. ASSUME names = <<>>, NEW p \in at + 1 .. end, Exists(what, Positions(what, ns)[p]) PROVE FALSE
    <3>1. \E i \in DOMAIN names : names[i] = Positions(what, ns)[p]
      BY <2>1, PageNames
    <3> QED
      BY <2>1, <3>1
  <2> QED
    BY <2>1, PageBounds
<1>5. names \in Seq(NamesOf(what))
  BY PageNames
<1>6. more_pages(names, token) = (token # NoToken /\ (kind = "glue" => names # <<>>))
  BY DEF more_pages, next_page_token, list_pages
<1>7. Covered(what, ns, next) = IF next.done THEN N ELSE next.at
  BY DEF Covered
<1>8. next.done \in BOOLEAN
  BY <1>1, <1>6
<1> HIDE DEF at, N, end, names, token, next
<1>9. CASE token = NoToken
  <2>1. next.done /\ end = N /\ next.at = at
    <3>1. end # NoToken /\ end \in Nat /\ end <= N
      BY <1>2 DEF NoToken
    <3>2. ~(end < N)
      BY <1>3, <1>9, <3>1
    <3>3. end = N
      BY <1>2, <3>1, <3>2
    <3>4. next.done = TRUE
      BY <1>1, <1>6, <1>9
    <3> QED
      BY <1>1, <1>9, <3>3, <3>4
  <2> QED
    BY <1>2, <1>7, <1>8, <2>1 DEF at, N, end, names, token, next
<1>10. CASE token # NoToken
  <2>1. next.at = end /\ end \in 0 .. N
    BY <1>1, <1>2, <1>3, <1>10
  <2>2. next.done => names = <<>> /\ kind = "glue"
    BY <1>1, <1>6, <1>10
  <2> QED
    BY <1>4, <1>7, <1>8, <2>1, <2>2 DEF at, N, end, names, token, next
<1> QED
  BY <1>9, <1>10

\* What a page adds to a listing keeps it in order.
LEMMA JobGrows ==
  ASSUME NEW what \in Listings, NEW ns \in Spaces, NEW job, NEW stay, NEW X,
         JobOK(what, ns, job, stay, X), ~job.done,
         NEW items \in Seq(X),
         \A x \in stay : Exists(what, x),
         DOMAIN items = DOMAIN PageItems(what, ns, job.at),
         \A i \in DOMAIN items : Key(what, items[i]) = PageItems(what, ns, job.at)[i]
  PROVE  JobOK(what, ns, NextJob(job, PageItems(what, ns, job.at), PageToken(what, ns, job.at), items), stay, X)
<1> DEFINE at == job.at
           old == job.items
           all == Positions(what, ns)
           N == Len(all)
           end == PageEnd(what, ns, at)
           names == PageItems(what, ns, at)
           next == NextJob(job, names, PageToken(what, ns, at), items)
           both == old \o items
<1>1. /\ at \in 0 .. N /\ old \in Seq(X) /\ KeysDistinct(what, old) /\ N \in Nat
      /\ IsInjective(all) /\ DOMAIN all = 1 .. N
  BY PositionsType DEF JobOK
<1>2. /\ \A i \in DOMAIN old : \E p \in 1 .. at : all[p] = Key(what, old[i])
      /\ \A p \in 1 .. at : all[p] \in stay => Holds(what, old, all[p])
  BY DEF JobOK, Covered
<1>3. /\ next.at \in 0 .. N /\ next.done \in BOOLEAN /\ Covered(what, ns, next) = end
  BY <1>1, PageCovers
<1>4. next = [at |-> next.at, done |-> next.done, items |-> next.items] /\ next.items = both
  BY DEF NextJob
<1>5. at \in Nat /\ end \in Nat /\ at <= end /\ end <= N
  BY <1>1, PageBounds
<1>6. /\ \A i \in DOMAIN names : \E p \in at + 1 .. end : all[p] = names[i]
      /\ \A p \in at + 1 .. end : Exists(what, all[p]) => \E i \in DOMAIN names : names[i] = all[p]
      /\ \A i, j \in DOMAIN names : names[i] = names[j] => i = j
  BY <1>1, PageNames
<1>7. DOMAIN items = DOMAIN names /\ \A i \in DOMAIN items : Key(what, items[i]) = names[i]
  OBVIOUS
<1> HIDE DEF at, old, all, N, end, names, next
<1>8. /\ both \in Seq(X) /\ DOMAIN both = 1 .. Len(old) + Len(items)
      /\ DOMAIN old = 1 .. Len(old) /\ DOMAIN items = 1 .. Len(items)
      /\ Len(old) \in Nat /\ Len(items) \in Nat
      /\ \A i \in 1 .. Len(old) : both[i] = old[i]
      /\ \A i \in 1 .. Len(items) : both[Len(old) + i] = items[i]
  BY <1>1
<1>9. /\ 1 .. at \subseteq 1 .. end /\ at + 1 .. end \subseteq 1 .. end /\ 1 .. end \subseteq DOMAIN all
      /\ (1 .. at) \cap (at + 1 .. end) = {}
      /\ \A p \in 1 .. end : p \in 1 .. at \/ p \in at + 1 .. end
  BY <1>1, <1>5
<1> DEFINE m == Len(old)
<1>10. \A i \in DOMAIN both : i \in DOMAIN old \/ (i - m \in DOMAIN items /\ both[i] = items[i - m])
  <2> HIDE DEF both
  <2> SUFFICES ASSUME NEW i \in DOMAIN both, i \notin DOMAIN old PROVE i - m \in DOMAIN items /\ both[i] = items[i - m]
    OBVIOUS
  <2>1. i - m \in 1 .. Len(items) /\ m + (i - m) = i
    BY <1>8
  <2> QED
    BY <1>8, <2>1
<1>11. \A i \in DOMAIN old : i \in DOMAIN both /\ both[i] = old[i]
  <2> HIDE DEF both
  <2> QED
    BY <1>8
<1>12. \A i \in DOMAIN items : m + i \in DOMAIN both /\ both[m + i] = items[i]
  <2> HIDE DEF both
  <2> QED
    BY <1>8
<1> HIDE DEF both
<1>13. ASSUME NEW i \in DOMAIN both, i \notin DOMAIN old PROVE \E p \in at + 1 .. end : all[p] = Key(what, both[i])
  BY <1>6, <1>7, <1>10, <1>13
<1>14. ASSUME NEW i \in DOMAIN both, i \in DOMAIN old PROVE \E p \in 1 .. at : all[p] = Key(what, both[i])
  BY <1>2, <1>11, <1>14
<1>15. ASSUME NEW i \in DOMAIN both PROVE \E p \in 1 .. end : all[p] = Key(what, both[i])
  BY <1>9, <1>13, <1>14
<1>16. KeysDistinct(what, both)
  <2> SUFFICES ASSUME NEW i \in DOMAIN both, NEW j \in DOMAIN both, Key(what, both[i]) = Key(what, both[j])
               PROVE  i = j
    BY DEF KeysDistinct
  <2>1. CASE i \in DOMAIN old /\ j \in DOMAIN old
    BY <1>1, <1>11, <2>1 DEF KeysDistinct
  <2>2. CASE i \notin DOMAIN old /\ j \notin DOMAIN old
    <3>1. i - m \in DOMAIN items /\ j - m \in DOMAIN items /\ names[i - m] = names[j - m]
      BY <1>7, <1>10, <2>2
    <3>2. i - m = j - m
      BY <1>6, <1>7, <3>1
    <3>3. i \in Nat /\ j \in Nat /\ m \in Nat
      BY <1>8
    <3> HIDE DEF m
    <3> QED
      BY <3>2, <3>3
  <2>3. CASE i \in DOMAIN old /\ j \notin DOMAIN old
    <3>1. PICK p \in 1 .. at : all[p] = Key(what, both[i])
      BY <1>14, <2>3
    <3>2. PICK q \in at + 1 .. end : all[q] = Key(what, both[j])
      BY <1>13, <2>3
    <3>3. p = q
      BY <1>1, <1>9, <3>1, <3>2 DEF IsInjective
    <3> QED
      BY <1>9, <3>1, <3>2, <3>3
  <2>4. CASE i \notin DOMAIN old /\ j \in DOMAIN old
    <3>1. PICK p \in 1 .. at : all[p] = Key(what, both[j])
      BY <1>14, <2>4
    <3>2. PICK q \in at + 1 .. end : all[q] = Key(what, both[i])
      BY <1>13, <2>4
    <3>3. p = q
      BY <1>1, <1>9, <3>1, <3>2 DEF IsInjective
    <3> QED
      BY <1>9, <3>1, <3>2, <3>3
  <2> QED
    BY <2>1, <2>2, <2>3, <2>4
<1>17. ASSUME NEW p \in 1 .. end, all[p] \in stay PROVE Holds(what, both, all[p])
  <2>1. CASE p \in 1 .. at
    BY <1>2, <1>11, <1>17, <2>1 DEF Holds
  <2>2. CASE p \in at + 1 .. end
    <3>1. PICK i \in DOMAIN names : names[i] = all[p]
      BY <1>6, <1>17, <2>2
    <3>2. m + i \in DOMAIN both /\ Key(what, both[m + i]) = all[p]
      BY <1>7, <1>12, <3>1
    <3> QED
      BY <3>2 DEF Holds
  <2> QED
    BY <1>9, <2>1, <2>2
<1>18. JobOK(what, ns, next, stay, X)
  BY <1>3, <1>4, <1>8, <1>15, <1>16, <1>17 DEF JobOK, all, N, both
<1> QED
  BY <1>18 DEF next, names, at

-----------------------------------------------------------------------------
(* Other clients change the catalog                                        *)

\* A sequence over a set is one over every larger set.
LEMMA WiderSeq ==
  ASSUME NEW X, NEW Y, X \subseteq Y, NEW s \in Seq(X)
  PROVE  s \in Seq(Y)
OBVIOUS

\* A listing that covers the steady names covers fewer of them, with more
\* seen.
LEMMA JobStays ==
  ASSUME NEW what, NEW ns, NEW job, NEW stay, NEW stay2 \in SUBSET stay, NEW X, NEW Y, X \subseteq Y,
         JobOK(what, ns, job, stay, X)
  PROVE  JobOK(what, ns, job, stay2, Y)
<1>1. job.items \in Seq(Y)
  BY WiderSeq DEF JobOK
<1> QED
  BY <1>1 DEF JobOK

\* A level stays good when fewer tables are steady and more were seen.
LEMMA LevelStays ==
  ASSUME NEW d, NEW lv, NEW pg, NEW fd, NEW steady, NEW steady2 \in SUBSET steady,
         NEW needed, NEW needed2 \in SUBSET needed, NEW seen, NEW seen2, seen \subseteq seen2,
         LevelOK(d, lv, pg, fd, steady, needed, seen)
  PROVE  LevelOK(d, lv, pg, fd, steady2, needed2, seen2)
<1>1. fd \in Seq(seen2)
  BY WiderSeq DEF LevelOK
<1>2. ASSUME NEW k \in DOMAIN lv PROVE SpaceOK(lv[k], pg[k], steady2, needed2, seen2)
  <2>1. SpaceOK(lv[k], pg[k], steady, needed, seen)
    BY DEF LevelOK
  <2>2. JobOK("tables", lv[k], pg[k].tables, steady2, seen2)
    BY <2>1, JobStays DEF SpaceOK
  <2>3. JobOK("spaces", lv[k], pg[k].spaces, needed2, Spaces)
    BY <2>1, JobStays DEF SpaceOK
  <2> QED
    BY <2>1, <2>2, <2>3 DEF SpaceOK
<1> QED
  BY <1>1, <1>2 DEF LevelOK

\* The picked tables stay good when fewer tables are steady and more were
\* seen.
LEMMA PicksStay ==
  ASSUME NEW ps, NEW steady, NEW steady2 \in SUBSET steady, NEW seen, NEW seen2, seen \subseteq seen2,
         NEW full, PicksOK(ps, steady, seen, full)
  PROVE  PicksOK(ps, steady2, seen2, full)
<1>1. ps \in Seq(seen2)
  BY WiderSeq DEF PicksOK
<1> QED
  BY <1>1 DEF PicksOK

\* What a change leaves: fewer tables stay, more was seen.
Moved ==
    /\ CatalogOK'
    /\ Steady' \subseteq Steady /\ Witnessed \subseteq Witnessed'
    /\ \A t \in Steady' : status'[t] = status[t]
    /\ \A t \in Tables : held[t] \subseteq held'[t]
    /\ kind' = kind

\* Another client's change of a table only takes from the steady tables and
\* adds to what was witnessed.
LEMMA TableMoves ==
  ASSUME CatalogOK, NEW t \in Tables, NEW s \in Statuses, TableChanges(t, s)
  PROVE  Moved
<1>1. /\ status' = [status EXCEPT ![t] = s] /\ held' = [held EXCEPT ![t] = @ \cup {s}]
      /\ status[t] # s /\ SpaceOf(t) \in live
      /\ kind' = kind /\ live' = live
  BY DEF TableChanges, call
<1>2. /\ status \in [Tables -> Statuses] /\ held \in [Tables -> SUBSET Statuses]
      /\ \A u \in Tables : status[u] \in held[u] /\ (status[u] # "absent" => SpaceOf(u) \in live)
  BY DEF CatalogOK
<1>3. /\ status'[t] = s /\ held'[t] = held[t] \cup {s}
      /\ \A u \in Tables : u # t => status'[u] = status[u] /\ held'[u] = held[u]
  BY <1>1, <1>2
<1>4. status' \in [Tables -> Statuses] /\ held' \in [Tables -> SUBSET Statuses]
  BY <1>1, <1>2
<1>5. CatalogOK'
  <2>1. \A u \in Tables : status'[u] \in held'[u] /\ (status'[u] # "absent" => SpaceOf(u) \in live)
    BY <1>1, <1>2, <1>3
  <2> QED
    BY <1>1, <1>4, <2>1 DEF CatalogOK
<1>6. t \notin Steady'
  BY <1>1, <1>2, <1>3 DEF Steady
<1>7. ASSUME NEW u \in Steady' PROVE u \in Steady /\ status'[u] = status[u]
  <2>1. u \in Tables /\ InReach(u)' /\ held'[u] = {status'[u]} /\ status'[u] # "absent" /\ u # t
    BY <1>6 DEF Steady
  <2>2. InReach(u)
    BY <1>1, <2>1 DEF InReach, descend
  <2> QED
    BY <1>3, <2>1, <2>2 DEF Steady
<1>8. \A u \in Tables : held[u] \subseteq held'[u]
  BY <1>3
<1>9. Witnessed \subseteq Witnessed'
  BY <1>8 DEF Witnessed, Entry
<1> QED
  BY <1>1, <1>5, <1>7, <1>8, <1>9 DEF Moved

\* Another client's change of a namespace does the same.
LEMMA SpaceMoves ==
  ASSUME CatalogOK, NEW ns \in Spaces, SpaceChanges(ns)
  PROVE  Moved
<1>1. /\ status' = status /\ held' = held /\ kind' = kind /\ ns # Root
      /\ IF ns \in live
           THEN /\ \A t \in ToSet(TablesIn[ns]) : status[t] = "absent"
                /\ ToSet(ChildrenIn[ns]) \cap live = {}
                /\ live' = live \ {ns}
           ELSE /\ \E up \in live : ns \in ToSet(ChildrenIn[up])
                /\ live' = live \cup {ns}
  BY DEF SpaceChanges, call
<1>2. /\ live \in SUBSET Spaces /\ Root \in live /\ ParentClosed(live)
      /\ \A t \in Tables : status[t] # "absent" => SpaceOf(t) \in live
  BY DEF CatalogOK
<1>3. live' \in SUBSET Spaces /\ Root \in live'
  BY <1>1, <1>2
<1>4. ParentClosed(live')
  <2> SUFFICES ASSUME NEW up \in Spaces, NEW c \in ToSet(ChildrenIn[up]), c \in live'
               PROVE  up \in live'
    BY DEF ParentClosed
  <2>1. CASE ns \in live
    BY <1>1, <1>2, <2>1 DEF ParentClosed
  <2>2. CASE ns \notin live
    <3>1. PICK over \in live : ns \in ToSet(ChildrenIn[over])
      BY <1>1, <2>2
    <3>2. c = ns => up = over
      BY <1>2, <3>1, TreeAssumption
    <3> QED
      BY <1>1, <1>2, <2>2, <3>1, <3>2 DEF ParentClosed
  <2> QED
    BY <2>1, <2>2
<1>5. \A t \in Tables : status[t] # "absent" => SpaceOf(t) \in live'
  BY <1>1, <1>2, TableSpace
<1>6. CatalogOK'
  BY <1>1, <1>3, <1>4, <1>5 DEF CatalogOK
<1>7. Steady' = Steady /\ Witnessed' = Witnessed
  BY <1>1 DEF Steady, Witnessed, InReach, descend
<1> QED
  BY <1>1, <1>6, <1>7 DEF Moved

\* A change by another client keeps the invariant wherever the call is.
LEMMA ChangeKeeps ==
  ASSUME IInv, Moved, UNCHANGED <<phase, listing, loading, culprit>>
  PROVE  IInv'
<1>1. /\ phase' = phase /\ level' = level /\ pages' = pages /\ found' = found /\ picks' = picks
      /\ answers' = answers /\ asked' = asked /\ culprit' = culprit
  BY DEF listing, loading
<1>2. Steady' \in SUBSET Steady /\ Witnessed \subseteq Witnessed' /\ Needed' \in SUBSET Needed
  BY NeededShrinks DEF Moved, Needed
<1>3. ListingOK'
  <2> SUFFICES ASSUME phase = "listing"
               PROVE  picks = <<>> /\ \E d \in Nat : LevelOK(d, level, pages, found, Steady', Needed', Witnessed')
    BY <1>1 DEF ListingOK
  <2>1. PICK d \in Nat : LevelOK(d, level, pages, found, Steady, Needed, Witnessed)
    BY DEF IInv, ListingOK
  <2>2. LevelOK(d, level, pages, found, Steady', Needed', Witnessed')
    BY <1>2, <2>1, LevelStays
  <2> QED
    BY <2>2 DEF IInv, ListingOK
<1>4. ASSUME NEW k \in DOMAIN picks PROVE AnswerOK(k)'
  <2>1. picks \in Seq(Witnessed) /\ AnswerOK(k)
    BY DEF IInv, LoadingOK, PicksOK
  <2>2. picks[k].table \in Tables
    BY <2>1 DEF Witnessed, Entry
  <2>3. held[picks[k].table] \subseteq held'[picks[k].table]
    BY <2>2 DEF Moved
  <2>4. picks[k].table \in Steady' => picks[k].table \in Steady /\ status'[picks[k].table] = status[picks[k].table]
    BY DEF Moved
  <2>5. kind' = kind
    BY DEF Moved
  <2>6. Takes(status[picks[k].table])' = Takes(status'[picks[k].table])
    BY <1>1, <2>5 DEF Takes
  <2> QED
    BY <1>1, <2>1, <2>3, <2>4, <2>5, <2>6 DEF AnswerOK, Settled
<1>5. LoadingOK'
  <2>1. PicksOK(picks, Steady, Witnessed, phase \in {"loading", "done"})
    BY DEF IInv, LoadingOK
  <2>2. PicksOK(picks, Steady', Witnessed', phase \in {"loading", "done"})
    BY <1>2, <2>1, PicksStay
  <2> QED
    BY <1>1, <1>4, <2>2 DEF IInv, LoadingOK, Settled
<1>6. OnlyExposedCount'
  <2>1. culprit # NoTable => culprit \in Tables
    BY ListingAssumption DEF IInv, OnlyExposedCount
  <2>2. culprit # NoTable => held[culprit] \subseteq held'[culprit]
    BY <2>1 DEF Moved
  <2>3. kind' = kind
    BY DEF Moved
  <2> QED
    BY <1>1, <2>2, <2>3 DEF IInv, OnlyExposedCount
<1> QED
  BY <1>3, <1>5, <1>6 DEF IInv, Moved

-----------------------------------------------------------------------------
(* The pages of a level                                                    *)

\* A step of the call itself changes nothing that is said of the catalog.
LEMMA SameCatalog ==
  ASSUME UNCHANGED <<call, catalog>>
  PROVE  /\ Steady' = Steady /\ Needed' = Needed /\ Witnessed' = Witnessed
         /\ kind' = kind /\ held' = held /\ status' = status /\ live' = live
         /\ (CatalogOK => CatalogOK')
<1>1. kind' = kind /\ held' = held /\ status' = status /\ live' = live
  BY DEF call, catalog
<1>2. Steady' = Steady
  BY <1>1 DEF Steady, InReach, descend
<1>3. Witnessed' = Witnessed
  BY <1>1 DEF Witnessed
<1> QED
  BY <1>1, <1>2, <1>3 DEF Needed, CatalogOK

\* Nothing is listed yet, and in a flat catalog nothing below a namespace will be.
LEMMA FirstPagesOK ==
  ASSUME NEW ns \in Spaces
  PROVE  SpaceOK(ns, FirstPages, Steady, Needed, Witnessed)
<1> DEFINE sp == IF descend THEN NotListed ELSE NothingToList
<1>1. FirstPages.tables = NotListed /\ FirstPages.spaces = sp
      /\ FirstPages = [tables |-> FirstPages.tables, spaces |-> FirstPages.spaces, failed |-> FirstPages.failed]
  BY DEF FirstPages
<1>2. /\ NotListed = [at |-> 0, done |-> FALSE, items |-> <<>>]
      /\ NothingToList = [at |-> 0, done |-> TRUE, items |-> <<>>]
  <2>1. NotListed = [at |-> 0, done |-> FALSE, items |-> <<>>]
    BY DEF NotListed
  <2>2. NotListed = [at |-> NotListed.at, done |-> NotListed.done, items |-> NotListed.items]
    BY <2>1
  <2>3. NothingToList = [at |-> NotListed.at, done |-> TRUE, items |-> NotListed.items]
    <3>1. NothingToList = [NotListed EXCEPT !.done = TRUE]
      BY DEF NothingToList
    <3> QED
      BY <2>2, <3>1
  <2>4. NotListed.at = 0 /\ NotListed.items = <<>>
    BY <2>1
  <2> QED
    BY <2>1, <2>3, <2>4
<1>3. ASSUME NEW what \in Listings, NEW stay, NEW X PROVE JobOK(what, ns, NotListed, stay, X)
  <2> DEFINE N == Len(Positions(what, ns))
  <2>1. N \in Nat
    BY PositionsType
  <2>2. Covered(what, ns, NotListed) = 0
    BY <1>2 DEF Covered
  <2>3. NotListed.at = 0 /\ NotListed.done = FALSE /\ NotListed.items = <<>>
    BY <1>2
  <2>4. <<>> \in Seq(X) /\ KeysDistinct(what, <<>>)
    BY DEF KeysDistinct
  <2>5. 0 \in 0 .. N /\ 1 .. 0 = {}
    BY <2>1
  <2> QED
    BY <1>2, <2>2, <2>3, <2>4, <2>5 DEF JobOK
<1>4. ASSUME ~descend PROVE JobOK("spaces", ns, NothingToList, Needed, Spaces)
  <2> DEFINE all == Positions("spaces", ns)
             N == Len(all)
  <2>1. N \in Nat /\ all = ChildrenIn[ns] /\ DOMAIN all = 1 .. N
    BY PositionsType DEF Listings, Positions
  <2>2. NothingToList.at = 0 /\ NothingToList.done = TRUE /\ NothingToList.items = <<>>
    BY <1>2
  <2>3. Covered("spaces", ns, NothingToList) = N
    BY <2>2 DEF Covered
  <2>4. \A p \in 1 .. N : all[p] \notin Needed
    <3> SUFFICES ASSUME NEW p \in 1 .. N, all[p] \in Needed PROVE FALSE
      OBVIOUS
    <3>1. all[p] = Root /\ Root \in ToSet(ChildrenIn[ns])
      BY <1>4, <2>1, NeededFlat DEF ToSet
    <3>2. Depth[Root] = 0 /\ Depth[Root] = Depth[ns] + 1 /\ Depth[ns] \in Nat
      BY <3>1, DepthExists DEF IsDepth
    <3> QED
      BY <3>2
  <2>5. <<>> \in Seq(Spaces) /\ KeysDistinct("spaces", <<>>) /\ 0 \in 0 .. N
    BY <2>1 DEF KeysDistinct
  <2> HIDE DEF all, N
  <2> QED
    BY <1>2, <2>2, <2>3, <2>4, <2>5 DEF JobOK, all, N
<1>5. JobOK("tables", ns, NotListed, Steady, Witnessed) /\ JobOK("spaces", ns, sp, Needed, Spaces)
  BY <1>3, <1>4 DEF Listings
<1> QED
  BY <1>1, <1>5 DEF SpaceOK

\* While a level is listed the rest of the state stays.
LEMMA LevelKeeps ==
  ASSUME IInv, phase = "listing", UNCHANGED <<call, catalog, phase, loading, culprit>>,
         NEW d \in Nat, LevelOK(d, level', pages', found', Steady, Needed, Witnessed)
  PROVE  IInv'
<1>1. phase' = phase /\ picks' = picks /\ answers' = answers /\ asked' = asked /\ culprit' = culprit
  BY DEF loading
<1>2. /\ Steady' = Steady /\ Needed' = Needed /\ Witnessed' = Witnessed
      /\ kind' = kind /\ held' = held /\ status' = status /\ CatalogOK'
  BY SameCatalog DEF IInv
<1>3. picks = <<>> /\ LoadingOK /\ OnlyExposedCount
  BY DEF IInv, ListingOK
<1>4. ListingOK'
  BY <1>1, <1>2, <1>3 DEF ListingOK
<1>5. LoadingOK'
  <2>1. ~(phase = "done") /\ ~(phase' = "done")
    BY <1>1
  <2> QED
    BY <1>1, <1>2, <1>3, <2>1 DEF LoadingOK
<1>6. OnlyExposedCount'
  BY <1>1, <1>2, <1>3 DEF OnlyExposedCount
<1> QED
  BY <1>2, <1>4, <1>5, <1>6 DEF IInv

\* One namespace of the level moves on.
LEMMA OneSpaceMoves ==
  ASSUME NEW d, NEW k \in DOMAIN level, LevelOK(d, level, pages, found, Steady, Needed, Witnessed),
         DOMAIN pages' = DOMAIN pages, \A i \in DOMAIN pages : i # k => pages'[i] = pages[i],
         SpaceOK(level[k], pages'[k], Steady, Needed, Witnessed)
  PROVE  LevelOK(d, level, pages', found, Steady, Needed, Witnessed)
<1>1. ASSUME NEW i \in DOMAIN level PROVE SpaceOK(level[i], pages'[i], Steady, Needed, Witnessed)
  <2>1. CASE i = k
    BY <2>1
  <2>2. CASE i # k
    <3>1. pages'[i] = pages[i] /\ SpaceOK(level[i], pages[i], Steady, Needed, Witnessed)
      BY <2>2 DEF LevelOK
    <3> QED
      BY <3>1
  <2> QED
    BY <2>1, <2>2
<1> QED
  BY <1>1 DEF LevelOK

\* An answered page of namespaces or tables keeps the invariant.
LEMMA PageKeeps ==
  ASSUME IInv, NEW k \in DOMAIN level, NEW what \in Listings, Page(k, what)
  PROVE  IInv'
<1> DEFINE ns == level[k]
           job == pages[k][what]
           names == PageItems(what, ns, job.at)
           token == PageToken(what, ns, job.at)
           items == [i \in DOMAIN names |->
                       IF what = "spaces" THEN names[i]
                       ELSE [table |-> names[i],
                             info |-> IF carries_info THEN status[names[i]] ELSE "name"]]
           stay == IF what = "tables" THEN Steady ELSE Needed
           X == IF what = "tables" THEN Witnessed ELSE Spaces
           next == NextJob(job, names, token, items)
<1>1. /\ phase = "listing" /\ ~job.done
      /\ pages' = [pages EXCEPT ![k][what] = next]
      /\ UNCHANGED <<call, catalog, phase, level, found, loading, culprit>>
  BY DEF Page, NextJob
<1>2. PICK d \in Nat : LevelOK(d, level, pages, found, Steady, Needed, Witnessed)
  BY <1>1 DEF IInv, ListingOK
<1>3. ns \in Spaces /\ DOMAIN pages = DOMAIN level /\ SpaceOK(ns, pages[k], Steady, Needed, Witnessed)
  BY <1>2 DEF LevelOK
<1>4. /\ pages[k] = [tables |-> pages[k].tables, spaces |-> pages[k].spaces, failed |-> pages[k].failed]
      /\ JobOK("tables", ns, pages[k].tables, Steady, Witnessed)
      /\ JobOK("spaces", ns, pages[k].spaces, Needed, Spaces)
  BY <1>3 DEF SpaceOK
<1>5. JobOK(what, ns, job, stay, X)
  BY <1>4 DEF Listings
<1>6. \A x \in stay : Exists(what, x)
  <2>1. CASE what = "tables"
    BY <2>1 DEF Steady, Exists
  <2>2. CASE what = "spaces"
    <3>1. Needed \subseteq live
      BY NeededLive DEF IInv
    <3> QED
      BY <2>2, <3>1 DEF Exists
  <2> QED
    BY <2>1, <2>2 DEF Listings
<1>7. job.at \in 0 .. Len(Positions(what, ns))
  BY <1>5 DEF JobOK
<1>8. names \in Seq(NamesOf(what)) /\ \A i \in DOMAIN names : Exists(what, names[i])
  <2> HIDE DEF ns, job
  <2> QED
    BY <1>3, <1>7, PageNames DEF ns
<1>9. DOMAIN items = DOMAIN names /\ \A i \in DOMAIN items : Key(what, items[i]) = names[i]
  <2> HIDE DEF names
  <2> QED
    BY DEF Key, Listings
<1>10. items \in Seq(X)
  <2> HIDE DEF names
  <2>1. ASSUME NEW i \in DOMAIN names PROVE items[i] \in X
    <3>1. names[i] \in NamesOf(what) /\ Exists(what, names[i])
      BY <1>8
    <3>2. CASE what = "spaces"
      BY <3>1, <3>2 DEF NamesOf
    <3>3. CASE what = "tables"
      <4> DEFINE t == names[i]
                 info == IF carries_info THEN status[t] ELSE "name"
      <4>1. items[i] = [table |-> t, info |-> info]
        BY <3>3
      <4>2. t \in Tables /\ status[t] # "absent" /\ status[t] \in held[t] /\ status[t] \in Statuses
        BY <3>1, <3>3 DEF NamesOf, Exists, IInv, CatalogOK
      <4> HIDE DEF t, items
      <4>3. items[i] \in Entry /\ items[i].table = t /\ (items[i].info = "name" \/ items[i].info = status[t])
        BY <4>1, <4>2 DEF Entry
      <4> QED
        BY <3>3, <4>2, <4>3 DEF Witnessed
    <3> QED
      BY <3>2, <3>3 DEF Listings
  <2>2. DOMAIN names = 1 .. Len(names) /\ Len(names) \in Nat
    BY <1>8
  <2>3. items \in [1 .. Len(names) -> X]
    <3> HIDE DEF X
    <3> QED
      BY <2>1, <2>2
  <2> HIDE DEF items, X
  <2> QED
    BY <2>2, <2>3
<1>11. JobOK(what, ns, next, stay, X)
  <2> HIDE DEF ns, job, items, stay, X
  <2> QED
    BY <1>1, <1>3, <1>5, <1>6, <1>9, <1>10, JobGrows DEF ns
<1> HIDE DEF next
<1>12. DOMAIN pages' = DOMAIN pages /\ \A i \in DOMAIN pages : i # k => pages'[i] = pages[i]
  BY <1>1
<1>13. pages'[k] = [pages[k] EXCEPT ![what] = next]
  BY <1>1, <1>3
<1>14. SpaceOK(ns, pages'[k], Steady, Needed, Witnessed)
  <2>1. CASE what = "tables"
    <3>1. pages'[k] = [tables |-> next, spaces |-> pages[k].spaces, failed |-> pages[k].failed]
      BY <1>4, <1>13, <2>1
    <3> QED
      BY <1>4, <1>11, <2>1, <3>1 DEF SpaceOK
  <2>2. CASE what = "spaces"
    <3>1. pages'[k] = [tables |-> pages[k].tables, spaces |-> next, failed |-> pages[k].failed]
      BY <1>4, <1>13, <2>2
    <3> QED
      BY <1>4, <1>11, <2>2, <3>1 DEF SpaceOK
  <2> QED
    BY <2>1, <2>2 DEF Listings
<1>15. LevelOK(d, level, pages', found, Steady, Needed, Witnessed)
  BY <1>2, <1>12, <1>14, OneSpaceMoves
<1>16. level' = level /\ found' = found
  BY <1>1
<1> QED
  BY <1>1, <1>15, <1>16, LevelKeeps

\* A page that fails keeps the invariant.
LEMMA FailureKeeps ==
  ASSUME IInv, NEW k \in DOMAIN level, phase = "listing",
         pages' = [pages EXCEPT ![k].failed = TRUE],
         UNCHANGED <<call, catalog, phase, level, found, loading, culprit>>
  PROVE  IInv'
<1>1. PICK d \in Nat : LevelOK(d, level, pages, found, Steady, Needed, Witnessed)
  BY DEF IInv, ListingOK
<1>2. DOMAIN pages = DOMAIN level /\ SpaceOK(level[k], pages[k], Steady, Needed, Witnessed)
  BY <1>1 DEF LevelOK
<1>3. DOMAIN pages' = DOMAIN pages /\ \A i \in DOMAIN pages : i # k => pages'[i] = pages[i]
  OBVIOUS
<1>4. pages'[k] = [pages[k] EXCEPT !.failed = TRUE]
  BY <1>2
<1>5. pages[k] = [tables |-> pages[k].tables, spaces |-> pages[k].spaces, failed |-> pages[k].failed]
  BY <1>2 DEF SpaceOK
<1>6. pages'[k] = [tables |-> pages[k].tables, spaces |-> pages[k].spaces, failed |-> TRUE]
  BY <1>4, <1>5, ZenonT(40)
<1>7. SpaceOK(level[k], pages'[k], Steady, Needed, Witnessed)
  BY <1>2, <1>6 DEF SpaceOK
<1>8. LevelOK(d, level, pages', found, Steady, Needed, Witnessed)
  BY <1>1, <1>3, <1>7, OneSpaceMoves
<1> QED
  BY <1>8, LevelKeeps

-----------------------------------------------------------------------------
(* From one level to the next                                              *)

\* What the namespaces of a level listed, one sequence for each.
ListedOf(what) == [k \in DOMAIN level |-> IF what = "tables" THEN pages[k].tables.items ELSE pages[k].spaces.items]

\* A finished listing holds names of its namespace only, each once, and all that
\* stayed.
LEMMA ListingComplete ==
  ASSUME NEW d \in Nat, LevelOK(d, level, pages, found, Steady, Needed, Witnessed),
         NEW k \in DOMAIN level, Complete(k), NEW what \in Listings
  PROVE  LET items == ListedOf(what)[k]
         IN  /\ items \in Seq(IF what = "tables" THEN Witnessed ELSE Spaces)
             /\ KeysDistinct(what, items)
             /\ \A b \in DOMAIN items : Key(what, items[b]) \in ToSet(Positions(what, level[k]))
             /\ \A x \in ToSet(Positions(what, level[k])) :
                  x \in (IF what = "tables" THEN Steady ELSE Needed) => Holds(what, items, x)
<1> DEFINE ns == level[k]
           job == pages[k][what]
           stay == IF what = "tables" THEN Steady ELSE Needed
           X == IF what = "tables" THEN Witnessed ELSE Spaces
           all == Positions(what, ns)
<1>1. ns \in Spaces /\ SpaceOK(ns, pages[k], Steady, Needed, Witnessed)
  BY DEF LevelOK
<1>2. JobOK(what, ns, job, stay, X) /\ job.done
  BY <1>1 DEF SpaceOK, Complete, Listings
<1>3. ListedOf(what)[k] = job.items
  BY DEF ListedOf, Listings
<1>4. Covered(what, ns, job) = Len(all) /\ DOMAIN all = 1 .. Len(all)
  BY <1>1, <1>2, PositionsType DEF Covered
<1> HIDE DEF job, stay, X, all, ns
<1>5. job.items \in Seq(X) /\ KeysDistinct(what, job.items)
  BY <1>2 DEF JobOK
<1>6. /\ \A i \in DOMAIN job.items : \E p \in DOMAIN all : all[p] = Key(what, job.items[i])
      /\ \A p \in DOMAIN all : all[p] \in stay => Holds(what, job.items, all[p])
  BY <1>2, <1>4 DEF JobOK, all
<1>7. \A b \in DOMAIN job.items : Key(what, job.items[b]) \in ToSet(all)
  BY <1>6 DEF ToSet
<1>8. \A x \in ToSet(all) : x \in stay => Holds(what, job.items, x)
  BY <1>6 DEF ToSet
<1> QED
  BY <1>3, <1>5, <1>7, <1>8 DEF stay, X, all, ns

\* The listings of a level together.
LEMMA LevelListed ==
  ASSUME NEW d \in Nat, LevelOK(d, level, pages, found, Steady, Needed, Witnessed),
         \A k \in DOMAIN level : Complete(k), NEW what \in Listings
  PROVE  LET flat == FlattenSeq(ListedOf(what))
         IN  /\ flat \in Seq(IF what = "tables" THEN Witnessed ELSE Spaces)
             /\ KeysDistinct(what, flat)
             /\ \A i \in DOMAIN flat : \E k \in DOMAIN level : Key(what, flat[i]) \in ToSet(Positions(what, level[k]))
             /\ \A k \in DOMAIN level : \A x \in ToSet(Positions(what, level[k])) :
                  x \in (IF what = "tables" THEN Steady ELSE Needed) => Holds(what, flat, x)
<1> DEFINE ss == ListedOf(what)
           stay == IF what = "tables" THEN Steady ELSE Needed
           X == IF what = "tables" THEN Witnessed ELSE Spaces
           flat == FlattenSeq(ss)
<1>1. level \in Seq(Spaces) /\ IsInjective(level)
  BY DEF LevelOK
<1>2. ASSUME NEW k \in DOMAIN level
      PROVE  /\ ss[k] \in Seq(X) /\ KeysDistinct(what, ss[k])
             /\ \A b \in DOMAIN ss[k] : Key(what, ss[k][b]) \in ToSet(Positions(what, level[k]))
             /\ \A x \in ToSet(Positions(what, level[k])) : x \in stay => Holds(what, ss[k], x)
  BY ListingComplete
<1>3. DOMAIN ss = DOMAIN level /\ ss \in Seq(Seq(X))
  <2>1. DOMAIN level = 1 .. Len(level) /\ Len(level) \in Nat
    BY <1>1
  <2>2. DOMAIN ss = DOMAIN level
    BY DEF ListedOf
  <2>3. ss = [k \in DOMAIN level |-> ss[k]]
    BY DEF ListedOf
  <2> HIDE DEF ss, X
  <2>4. ss \in [1 .. Len(level) -> Seq(X)]
    BY <1>2, <2>1, <2>3
  <2> QED
    BY <2>1, <2>2, <2>4
<1> HIDE DEF ss, X, stay
<1>4. /\ flat \in Seq(X) /\ FlatFrom(flat, ss, DOMAIN level) /\ FlatInto(flat, ss, DOMAIN level)
      /\ FlatApart(flat, ss, DOMAIN level)
  BY <1>3, Flattened
<1> HIDE DEF flat
<1>5. KeysDistinct(what, flat)
  <2> SUFFICES ASSUME NEW i \in DOMAIN flat, NEW j \in DOMAIN flat, Key(what, flat[i]) = Key(what, flat[j]), i # j
               PROVE  FALSE
    BY DEF KeysDistinct
  <2>1. Apart(ss, DOMAIN level, flat[i], flat[j])
    BY <1>4 DEF FlatApart
  <2>2. PICK a, c \in DOMAIN level : \E b \in DOMAIN ss[a], e \in DOMAIN ss[c] :
          (a # c \/ b # e) /\ ss[a][b] = flat[i] /\ ss[c][e] = flat[j]
    BY <2>1 DEF Apart
  <2>3. PICK b \in DOMAIN ss[a], e \in DOMAIN ss[c] : (a # c \/ b # e) /\ ss[a][b] = flat[i] /\ ss[c][e] = flat[j]
    BY <2>2
  <2>4. a # c
    BY <1>2, <2>3 DEF KeysDistinct
  <2>5. level[a] # level[c] /\ level[a] \in Spaces /\ level[c] \in Spaces
    BY <1>1, <2>4 DEF IsInjective
  <2>6. Key(what, flat[i]) \in ToSet(Positions(what, level[a])) \cap ToSet(Positions(what, level[c]))
    BY <1>2, <2>3
  <2>7. CASE what = "tables"
    <3>1. Positions(what, level[a]) = TablesIn[level[a]] /\ Positions(what, level[c]) = TablesIn[level[c]]
      BY <2>7 DEF Positions
    <3> QED
      BY <2>5, <2>6, <3>1, TreeAssumption
  <2>8. CASE what = "spaces"
    <3>1. Positions(what, level[a]) = ChildrenIn[level[a]] /\ Positions(what, level[c]) = ChildrenIn[level[c]]
      BY <2>8 DEF Positions
    <3> QED
      BY <2>5, <2>6, <3>1, TreeAssumption
  <2> QED
    BY <2>7, <2>8 DEF Listings
<1>6. ASSUME NEW i \in DOMAIN flat
      PROVE  \E k \in DOMAIN level : Key(what, flat[i]) \in ToSet(Positions(what, level[k]))
  <2>1. PICK a \in DOMAIN level : \E b \in DOMAIN ss[a] : ss[a][b] = flat[i]
    BY <1>4 DEF FlatFrom
  <2> QED
    BY <1>2, <2>1
<1>7. ASSUME NEW k \in DOMAIN level, NEW x \in ToSet(Positions(what, level[k])), x \in stay
      PROVE  Holds(what, flat, x)
  <2>1. PICK b \in DOMAIN ss[k] : Key(what, ss[k][b]) = x
    BY <1>2, <1>7 DEF Holds
  <2>2. PICK i \in DOMAIN flat : flat[i] = ss[k][b]
    BY <1>4 DEF FlatInto
  <2> QED
    BY <2>1, <2>2 DEF Holds
<1> QED
  BY <1>4, <1>5, <1>6, <1>7 DEF flat, ss, X, stay

\* The names of a level are its listings joined in order.
LEMMA LevelNames ==
  LevelTables = FlattenSeq(ListedOf("tables")) /\ LevelSpaces = FlattenSeq(ListedOf("spaces"))
<1>1. ListedOf("tables") = [k \in DOMAIN level |-> pages[k].tables.items]
  BY DEF ListedOf
<1>2. ListedOf("spaces") = [k \in DOMAIN level |-> pages[k].spaces.items]
  BY DEF ListedOf
<1> QED
  BY <1>1, <1>2 DEF LevelTables, LevelSpaces

\* The namespaces one level further down.
LEMMA SpacesBelow ==
  ASSUME NEW d \in Nat, LevelOK(d, level, pages, found, Steady, Needed, Witnessed),
         \A k \in DOMAIN level : Complete(k)
  PROVE  /\ LevelSpaces \in Seq(Spaces) /\ IsInjective(LevelSpaces)
         /\ \A i \in DOMAIN LevelSpaces : Depth[LevelSpaces[i]] = d + 1
         /\ \A ns \in Needed : Depth[ns] = d + 1 => \E i \in DOMAIN LevelSpaces : LevelSpaces[i] = ns
<1>1. \A ns : Positions("spaces", ns) = ChildrenIn[ns]
  BY DEF Positions
<1>2. \A x : Key("spaces", x) = x
  BY DEF Key
<1> DEFINE q == LevelSpaces
<1>3. /\ q \in Seq(Spaces) /\ KeysDistinct("spaces", q)
      /\ \A i \in DOMAIN q : \E k \in DOMAIN level : q[i] \in ToSet(ChildrenIn[level[k]])
      /\ \A k \in DOMAIN level : \A x \in ToSet(ChildrenIn[level[k]]) : x \in Needed => Holds("spaces", q, x)
  <2>1. LET flat == FlattenSeq(ListedOf("spaces"))
        IN  /\ flat \in Seq(Spaces)
            /\ KeysDistinct("spaces", flat)
            /\ \A i \in DOMAIN flat : \E k \in DOMAIN level : Key("spaces", flat[i]) \in ToSet(Positions("spaces", level[k]))
            /\ \A k \in DOMAIN level : \A x \in ToSet(Positions("spaces", level[k])) :
                  x \in Needed => Holds("spaces", flat, x)
    BY LevelListed DEF Listings
  <2> QED
    BY <1>1, <1>2, <2>1, LevelNames
<1> HIDE DEF q
<1>4. \A k \in DOMAIN level : level[k] \in Spaces /\ Depth[level[k]] = d
  BY DEF LevelOK
<1>5. \A i \in DOMAIN q : Depth[q[i]] = d + 1
  BY <1>3, <1>4, DepthExists DEF IsDepth
<1>6. ASSUME NEW ns \in Needed, Depth[ns] = d + 1 PROVE \E i \in DOMAIN q : q[i] = ns
  <2>1. ns \in Spaces /\ ns # Root
    BY <1>6, DepthExists DEF IsDepth, Needed, NeededFor
  <2>2. PICK up \in Spaces : ns \in ToSet(ChildrenIn[up])
    BY <2>1, TreeAssumption
  <2>3. up \in Needed /\ Depth[ns] = Depth[up] + 1 /\ Depth[up] \in Nat
    BY <2>2, NeededHolds, SteadyTables, DepthExists DEF IsDepth, Needed
  <2>4. Depth[up] = d
    BY <1>6, <2>3
  <2>5. PICK k \in DOMAIN level : level[k] = up
    BY <2>3, <2>4 DEF LevelOK
  <2>6. Holds("spaces", q, ns)
    BY <1>3, <2>2, <2>5
  <2> QED
    BY <1>2, <2>6 DEF Holds
<1>7. IsInjective(q)
  BY <1>2, <1>3 DEF IsInjective, KeysDistinct
<1> QED
  BY <1>3, <1>5, <1>6, <1>7 DEF q

\* The tables down to the level.
LEMMA TablesSoFar ==
  ASSUME NEW d \in Nat, LevelOK(d, level, pages, found, Steady, Needed, Witnessed),
         \A k \in DOMAIN level : Complete(k)
  PROVE  LET all == found \o LevelTables
         IN  /\ all \in Seq(Witnessed) /\ KeysDistinct("tables", all)
             /\ \A t \in Steady : Depth[SpaceOf(t)] < d + 1 => Holds("tables", all, t)
             /\ \A i \in DOMAIN all : Depth[SpaceOf(all[i].table)] < d + 1
<1>1. \A ns : Positions("tables", ns) = TablesIn[ns]
  BY DEF Positions
<1>2. \A x : Key("tables", x) = x.table
  BY DEF Key
<1> DEFINE q == LevelTables
           all == found \o q
<1>3. /\ q \in Seq(Witnessed) /\ KeysDistinct("tables", q)
      /\ \A i \in DOMAIN q : \E k \in DOMAIN level : q[i].table \in ToSet(TablesIn[level[k]])
      /\ \A k \in DOMAIN level : \A x \in ToSet(TablesIn[level[k]]) : x \in Steady => Holds("tables", q, x)
  <2>1. LET flat == FlattenSeq(ListedOf("tables"))
        IN  /\ flat \in Seq(Witnessed)
            /\ KeysDistinct("tables", flat)
            /\ \A i \in DOMAIN flat : \E k \in DOMAIN level : Key("tables", flat[i]) \in ToSet(Positions("tables", level[k]))
            /\ \A k \in DOMAIN level : \A x \in ToSet(Positions("tables", level[k])) :
                  x \in Steady => Holds("tables", flat, x)
    BY LevelListed DEF Listings
  <2> QED
    BY <1>1, <1>2, <2>1, LevelNames
<1> HIDE DEF q
<1>4. \A k \in DOMAIN level : level[k] \in Spaces /\ Depth[level[k]] = d
  BY DEF LevelOK
<1>5. \A i \in DOMAIN q : Depth[SpaceOf(q[i].table)] = d
  BY <1>3, <1>4, TableSpace
<1>6. /\ found \in Seq(Witnessed) /\ KeysDistinct("tables", found)
      /\ \A t \in Steady : Depth[SpaceOf(t)] < d => Holds("tables", found, t)
      /\ \A i \in DOMAIN found : Depth[SpaceOf(found[i].table)] < d
  BY DEF LevelOK
<1>7. /\ all \in Seq(Witnessed)
      /\ \A i \in DOMAIN all : \/ i \in DOMAIN found /\ all[i] = found[i]
                               \/ \E j \in DOMAIN q : i = Len(found) + j /\ all[i] = q[j]
      /\ \A i \in DOMAIN found : i \in DOMAIN all /\ all[i] = found[i]
      /\ \A j \in DOMAIN q : Len(found) + j \in DOMAIN all /\ all[Len(found) + j] = q[j]
  BY <1>3, <1>6, Concatenated
<1>8. \A ns \in Spaces : Depth[ns] \in Nat
  BY DepthExists DEF IsDepth
<1> HIDE DEF all
<1>9. KeysDistinct("tables", all)
  <2> SUFFICES ASSUME NEW i \in DOMAIN all, NEW j \in DOMAIN all, all[i].table = all[j].table PROVE i = j
    BY <1>2 DEF KeysDistinct
  <2>1. CASE i \in DOMAIN found /\ j \in DOMAIN found
    BY <1>2, <1>6, <1>7, <2>1 DEF KeysDistinct
  <2>2. CASE i \notin DOMAIN found /\ j \notin DOMAIN found
    <3>1. PICK a \in DOMAIN q : i = Len(found) + a /\ all[i] = q[a]
      BY <1>7, <2>2
    <3>2. PICK b \in DOMAIN q : j = Len(found) + b /\ all[j] = q[b]
      BY <1>7, <2>2
    <3>3. a = b
      BY <1>2, <1>3, <3>1, <3>2 DEF KeysDistinct
    <3> QED
      BY <3>1, <3>2, <3>3
  <2>3. CASE i \in DOMAIN found /\ j \notin DOMAIN found
    <3>1. PICK b \in DOMAIN q : all[j] = q[b]
      BY <1>7, <2>3
    <3>2. Depth[SpaceOf(all[i].table)] < d /\ Depth[SpaceOf(all[j].table)] = d
      BY <1>5, <1>6, <1>7, <2>3, <3>1
    <3> QED
      BY <3>2
  <2>4. CASE i \notin DOMAIN found /\ j \in DOMAIN found
    <3>1. PICK b \in DOMAIN q : all[i] = q[b]
      BY <1>7, <2>4
    <3>2. Depth[SpaceOf(all[j].table)] < d /\ Depth[SpaceOf(all[i].table)] = d
      BY <1>5, <1>6, <1>7, <2>4, <3>1
    <3> QED
      BY <3>2
  <2> QED
    BY <2>1, <2>2, <2>3, <2>4
<1>10. ASSUME NEW t \in Steady, Depth[SpaceOf(t)] < d + 1 PROVE Holds("tables", all, t)
  <2>1. t \in Tables /\ SpaceOf(t) \in Spaces /\ t \in ToSet(TablesIn[SpaceOf(t)]) /\ Depth[SpaceOf(t)] \in Nat
    BY <1>8, SteadyTables, TableSpace
  <2>2. CASE Depth[SpaceOf(t)] < d
    <3>1. PICK i \in DOMAIN found : found[i].table = t
      BY <1>2, <1>6, <2>2 DEF Holds
    <3> QED
      BY <1>2, <1>7, <3>1 DEF Holds
  <2>3. CASE ~(Depth[SpaceOf(t)] < d)
    <3>1. Depth[SpaceOf(t)] = d
      BY <1>10, <2>1, <2>3
    <3>2. SpaceOf(t) \in Needed
      BY NeededHolds, SteadyTables DEF Needed
    <3>3. PICK k \in DOMAIN level : level[k] = SpaceOf(t)
      BY <3>1, <3>2 DEF LevelOK
    <3>4. PICK j \in DOMAIN q : q[j].table = t
      BY <1>2, <1>3, <2>1, <3>3 DEF Holds
    <3> QED
      BY <1>2, <1>7, <3>4 DEF Holds
  <2> QED
    BY <2>2, <2>3
<1>11. ASSUME NEW i \in DOMAIN all PROVE Depth[SpaceOf(all[i].table)] < d + 1
  <2>1. all[i].table \in Tables
    BY <1>7 DEF Witnessed, Entry
  <2>2. Depth[SpaceOf(all[i].table)] \in Nat
    BY <1>8, <2>1, TableSpace
  <2>3. Depth[SpaceOf(all[i].table)] < d \/ Depth[SpaceOf(all[i].table)] = d
    BY <1>5, <1>6, <1>7
  <2> QED
    BY <2>2, <2>3
<1> QED
  BY <1>7, <1>9, <1>10, <1>11 DEF all, q

\* The descent to the next level keeps the invariant: what the steady tables
\* need is listed there.
LEMMA NextLevelKeeps ==
  ASSUME IInv, NextLevel
  PROVE  IInv'
<1>1. /\ phase = "listing" /\ \A k \in DOMAIN level : Complete(k)
      /\ found' = found \o LevelTables /\ level' = LevelSpaces
      /\ pages' = [k \in DOMAIN LevelSpaces |-> FirstPages]
      /\ UNCHANGED <<call, catalog, phase, loading, culprit>>
  BY DEF NextLevel
<1>2. PICK d \in Nat : LevelOK(d, level, pages, found, Steady, Needed, Witnessed)
  BY <1>1 DEF IInv, ListingOK
<1>3. /\ level' \in Seq(Spaces) /\ IsInjective(level')
      /\ \A i \in DOMAIN level' : Depth[level'[i]] = d + 1
      /\ \A ns \in Needed : Depth[ns] = d + 1 => \E i \in DOMAIN level' : level'[i] = ns
  BY <1>1, <1>2, SpacesBelow
<1>4. /\ found' \in Seq(Witnessed) /\ KeysDistinct("tables", found')
      /\ \A t \in Steady : Depth[SpaceOf(t)] < d + 1 => Holds("tables", found', t)
      /\ \A i \in DOMAIN found' : Depth[SpaceOf(found'[i].table)] < d + 1
  BY <1>1, <1>2, TablesSoFar
<1>5. DOMAIN pages' = DOMAIN level' /\ \A k \in DOMAIN level' : pages'[k] = FirstPages
  BY <1>1
<1>6. \A k \in DOMAIN level' : SpaceOK(level'[k], pages'[k], Steady, Needed, Witnessed)
  BY <1>3, <1>5, FirstPagesOK
<1>7. LevelOK(d + 1, level', pages', found', Steady, Needed, Witnessed)
  BY <1>3, <1>4, <1>5, <1>6 DEF LevelOK
<1>8. d + 1 \in Nat
  OBVIOUS
<1> QED
  BY <1>1, <1>7, <1>8, LevelKeeps

-----------------------------------------------------------------------------
(* The picks and their loads                                               *)

\* The end of the listing keeps the invariant: every steady table is picked
\* once.
LEMMA ListingEndsKeeps ==
  ASSUME IInv, ListingEnds
  PROVE  IInv'
<1> DEFINE all == found \o LevelTables
           T == {e \in ToSet(all) : e.table \in Exposed}
<1>1. /\ phase = "listing" /\ \A k \in DOMAIN level : Complete(k)
      /\ LevelSpaces = <<>> /\ phase' = "loading"
      /\ picks' = Selected(all, T)
      /\ answers' = [k \in DOMAIN picks' |-> "none"]
      /\ UNCHANGED <<call, catalog, listing, asked, culprit>>
  BY DEF ListingEnds, exposed_only
<1>2. PICK d \in Nat : LevelOK(d, level, pages, found, Steady, Needed, Witnessed)
  BY <1>1 DEF IInv, ListingOK
<1>3. /\ all \in Seq(Witnessed) /\ KeysDistinct("tables", all)
      /\ \A t \in Steady : Depth[SpaceOf(t)] < d + 1 => Holds("tables", all, t)
  BY <1>1, <1>2, TablesSoFar
<1>4. \A ns \in Needed : Depth[ns] # d + 1
  BY <1>1, <1>2, SpacesBelow
<1>5. \A t \in Steady : Depth[SpaceOf(t)] < d + 1
  <2> SUFFICES ASSUME NEW t \in Steady, ~(Depth[SpaceOf(t)] < d + 1) PROVE FALSE
    OBVIOUS
  <2>1. SpaceOf(t) \in Needed /\ Depth[SpaceOf(t)] \in Nat
    BY NeededHolds, SteadyTables, TableSpace, DepthExists DEF IsDepth, Needed
  <2>2. Depth[SpaceOf(t)] > d
    BY <2>1
  <2> QED
    BY <1>4, <2>1, <2>2, NeededBelow
<1> HIDE DEF all
<1>6. /\ picks' \in Seq(Witnessed)
      /\ \A i \in DOMAIN picks' : picks'[i] \in T
      /\ \A k \in DOMAIN all : all[k] \in T => \E i \in DOMAIN picks' : picks'[i] = all[k]
      /\ DistinctOrigins(picks', all, DOMAIN all)
  <2> HIDE DEF T
  <2>1. /\ Selected(all, T) \in Seq(Witnessed)
        /\ \A i \in DOMAIN Selected(all, T) :
             /\ Selected(all, T)[i] \in T
             /\ \E k \in DOMAIN all : all[k] = Selected(all, T)[i]
        /\ \A k \in DOMAIN all : all[k] \in T => \E i \in DOMAIN Selected(all, T) : Selected(all, T)[i] = all[k]
        /\ DistinctOrigins(Selected(all, T), all, DOMAIN all)
    BY <1>3, SelectedElements
  <2> QED
    BY <1>1, <2>1
<1>7. KeysDistinct("tables", picks')
  <2> SUFFICES ASSUME NEW i \in DOMAIN picks', NEW j \in DOMAIN picks',
                      Key("tables", picks'[i]) = Key("tables", picks'[j]), i # j
               PROVE  FALSE
    BY DEF KeysDistinct
  <2>1. PICK k, l \in DOMAIN all : k # l /\ all[k] = picks'[i] /\ all[l] = picks'[j]
    BY <1>6 DEF DistinctOrigins
  <2> QED
    BY <1>3, <2>1 DEF KeysDistinct
<1>8. \A k \in DOMAIN picks' : picks'[k].table \in Exposed
  BY <1>6
<1>9. ASSUME NEW t \in Exposed \cap Steady PROVE Holds("tables", picks', t)
  <2>1. PICK k \in DOMAIN all : all[k].table = t
    BY <1>3, <1>5 DEF Holds, Key
  <2>2. all[k] \in T
    BY <2>1 DEF ToSet
  <2>3. PICK i \in DOMAIN picks' : picks'[i] = all[k]
    BY <1>6, <2>2
  <2> QED
    BY <2>1, <2>3 DEF Holds, Key
<1>10. /\ Steady' = Steady /\ Needed' = Needed /\ Witnessed' = Witnessed
       /\ kind' = kind /\ held' = held /\ status' = status /\ CatalogOK'
  BY <1>1, SameCatalog DEF IInv
<1>11. PicksOK(picks', Steady', Witnessed', phase' \in {"loading", "done"})
  BY <1>6, <1>7, <1>8, <1>9, <1>10 DEF PicksOK
<1>12. DOMAIN answers' = DOMAIN picks' /\ \A k \in DOMAIN picks' : answers'[k] = "none"
  BY <1>1
<1>13. \A k \in DOMAIN picks' : AnswerOK(k)'
  BY <1>12 DEF AnswerOK, Settled
<1>14. LoadingOK'
  BY <1>1, <1>11, <1>12, <1>13 DEF LoadingOK
<1>15. ListingOK'
  BY <1>1 DEF ListingOK
<1>16. OnlyExposedCount'
  BY <1>1, <1>10 DEF IInv, OnlyExposedCount
<1> QED
  BY <1>10, <1>14, <1>15, <1>16 DEF IInv

\* What an answer must say of the table with entry e.
Fits(e, a) ==
    /\ a \in {"none", "admitted", "skipped", "failed"}
    /\ a = "failed" => \/ "broken" \in held[e.table]
                       \/ kind \in {"unity", "glue"} /\ "absent" \in held[e.table]
    /\ a \in {"admitted", "skipped"} /\ e.table \in Steady => a = Takes(status[e.table])

\* The invariant's clause on an answer, read off the pick and the answer.
LEMMA FitsIsOK ==
  ASSUME NEW k
  PROVE  AnswerOK(k) <=> Fits(picks[k], answers[k])
BY DEF AnswerOK, Fits, Settled

\* One load moves on: its entry learns of the table, or it is answered.
LEMMA LoadKeeps ==
  ASSUME IInv, phase = "loading", UNCHANGED <<call, catalog, phase, listing, culprit>>,
         NEW k \in DOMAIN picks, NEW e \in Witnessed, NEW a,
         DOMAIN picks' = DOMAIN picks, DOMAIN answers' = DOMAIN picks,
         picks' \in Seq(Witnessed), picks'[k] = e, answers'[k] = a,
         \A i \in DOMAIN picks : i # k => picks'[i] = picks[i] /\ answers'[i] = answers[i],
         e.table = picks[k].table, Fits(e, a),
         asked' \subseteq asked \cup {picks[k].table}
  PROVE  IInv'
<1>1. /\ Steady' = Steady /\ Needed' = Needed /\ Witnessed' = Witnessed
      /\ kind' = kind /\ held' = held /\ status' = status /\ CatalogOK'
  BY SameCatalog DEF IInv
<1>2. /\ PicksOK(picks, Steady, Witnessed, TRUE) /\ \A i \in DOMAIN picks : AnswerOK(i)
  BY DEF IInv, LoadingOK
<1>3. \A i \in DOMAIN picks : picks'[i].table = picks[i].table
  OBVIOUS
<1>4. KeysDistinct("tables", picks')
  BY <1>2, <1>3 DEF PicksOK, KeysDistinct, Key
<1>5. PicksOK(picks', Steady', Witnessed', TRUE)
  BY <1>1, <1>2, <1>3, <1>4 DEF PicksOK, Holds, Key
<1>6. ASSUME NEW i \in DOMAIN picks PROVE AnswerOK(i)'
  <2>1. Fits(picks'[i], answers'[i])
    <3>1. CASE i = k
      BY <3>1
    <3>2. CASE i # k
      BY <1>2, <3>2, FitsIsOK
    <3> QED
      BY <3>1, <3>2
  <2>2. \A s : Takes(s)' = Takes(s)
    BY <1>1 DEF Takes
  <2> QED
    BY <1>1, <2>1, <2>2 DEF Fits, AnswerOK, Settled
<1>7. LoadingOK'
  <2>1. phase' = "loading"
    OBVIOUS
  <2>2. phase' # "done" /\ (phase' \in {"loading", "done"}) = TRUE
    BY <2>1
  <2> QED
    BY <1>5, <1>6, <2>2 DEF LoadingOK
<1>8. ListingOK'
  BY DEF ListingOK
<1>9. OnlyExposedCount'
  <2>1. picks[k].table \in Exposed
    BY <1>2 DEF PicksOK
  <2> QED
    BY <1>1, <2>1 DEF IInv, OnlyExposedCount
<1> QED
  BY <1>1, <1>7, <1>8, <1>9 DEF IInv

\* An answer that fits its pick keeps the invariant.
LEMMA AnswerKeeps ==
  ASSUME IInv, phase = "loading", UNCHANGED <<call, catalog, phase, listing, picks, culprit>>,
         NEW k \in DOMAIN picks, NEW a, Answered(k, a), Fits(picks[k], a),
         asked' \subseteq asked \cup {picks[k].table}
  PROVE  IInv'
<1>1. /\ answers' = [answers EXCEPT ![k] = a] /\ picks' = picks /\ DOMAIN answers = DOMAIN picks
      /\ picks \in Seq(Witnessed)
  BY DEF Answered, IInv, LoadingOK, PicksOK
<1>2. /\ DOMAIN answers' = DOMAIN picks /\ answers'[k] = a
      /\ \A i \in DOMAIN picks : i # k => answers'[i] = answers[i]
  BY <1>1
<1>3. picks[k] \in Witnessed /\ picks'[k] = picks[k]
  BY <1>1
<1> QED
  BY <1>1, <1>2, <1>3, LoadKeeps

\* What a pick tells of its table.
LEMMA PickTells ==
  ASSUME IInv, NEW k \in DOMAIN picks
  PROVE  /\ picks[k] \in Witnessed /\ picks[k].table \in Tables /\ picks[k].info \in Statuses \cup {"name"}
         /\ status[picks[k].table] \in held[picks[k].table] /\ status[picks[k].table] \in Statuses
         /\ picks[k].info # "name" => picks[k].info \in held[picks[k].table]
         /\ picks[k].info # "name" /\ picks[k].table \in Steady => picks[k].info = status[picks[k].table]
         /\ kind \in {"rest", "rest_sigv4", "unity", "glue"}
<1>1. picks[k] \in Witnessed
  BY DEF IInv, LoadingOK, PicksOK
<1>2. /\ picks[k].table \in Tables /\ picks[k].info \in Statuses \cup {"name"}
      /\ picks[k].info # "name" => picks[k].info \in held[picks[k].table]
  BY <1>1 DEF Witnessed, Entry
<1>3. status[picks[k].table] \in held[picks[k].table] /\ status[picks[k].table] \in Statuses
  BY <1>2 DEF IInv, CatalogOK
<1>4. picks[k].table \in Steady => held[picks[k].table] = {status[picks[k].table]}
  BY DEF Steady
<1>5. kind \in {"rest", "rest_sigv4", "unity", "glue"}
  BY ListingAssumption DEF IInv, CatalogOK
<1> QED
  BY <1>1, <1>2, <1>3, <1>4, <1>5

\* A load from an Iceberg REST catalog keeps the invariant.
LEMMA LoadRestKeeps ==
  ASSUME IInv, NEW k \in DOMAIN picks, LoadRest(k)
  PROVE  IInv'
<1> DEFINE t == picks[k].table
           a == admit_on_session(status[t])
<1>1. /\ phase = "loading" /\ kind \in {"rest", "rest_sigv4"} /\ Answered(k, a)
      /\ asked' = asked \cup {t}
      /\ UNCHANGED <<call, catalog, phase, listing, picks, culprit>>
  BY DEF LoadRest, Due, AsksFor
<1>2. status[t] \in held[t]
  BY PickTells
<1>3. a \in {"admitted", "skipped", "failed"} /\ (a = "failed" => status[t] = "broken")
  BY DEF admit_on_session
<1>4. Takes(status[t]) = a
  BY <1>1 DEF Takes
<1> HIDE DEF a
<1>5. Fits(picks[k], a)
  BY <1>2, <1>3, <1>4 DEF Fits
<1> QED
  BY <1>1, <1>5, AnswerKeeps

\* A load from Unity keeps the invariant.
LEMMA LoadUnityKeeps ==
  ASSUME IInv, NEW k \in DOMAIN picks, LoadUnity(k)
  PROVE  IInv'
<1> DEFINE t == picks[k].table
           info == picks[k].info
           s == status[t]
           a == IF s \in {"absent", "broken"} THEN "failed" ELSE admission(s)
<1>1. /\ phase = "loading" /\ kind = "unity"
      /\ UNCHANGED <<call, catalog, phase, listing, picks, culprit>>
  BY DEF LoadUnity, Due
<1>2. /\ s \in held[t] /\ (info # "name" => info \in held[t])
      /\ (info # "name" /\ t \in Steady => info = s)
  BY PickTells
<1>3. \A x : admission(x) \in {"admitted", "skipped"} /\ Takes(x) = admission(x)
  BY <1>1 DEF Takes, admission
<1>4. CASE info # "name"
  <2>1. Answered(k, admission(info)) /\ asked' = asked
    BY <1>4 DEF LoadUnity
  <2>2. Fits(picks[k], admission(info))
    BY <1>2, <1>3, <1>4 DEF Fits
  <2> QED
    BY <1>1, <2>1, <2>2, AnswerKeeps
<1>5. CASE info = "name"
  <2>1. Answered(k, a) /\ asked' = asked \cup {t}
    BY <1>5 DEF LoadUnity, AsksFor
  <2>2. t \in Steady => s # "absent"
    BY DEF Steady
  <2>3. Fits(picks[k], a)
    BY <1>1, <1>2, <1>3, <2>2 DEF Fits
  <2> QED
    BY <1>1, <2>1, <2>3, AnswerKeeps
<1> QED
  BY <1>4, <1>5

\* Glue's get_table keeps the invariant.
LEMMA GetTableKeeps ==
  ASSUME IInv, NEW k \in DOMAIN picks, GetTable(k)
  PROVE  IInv'
<1> DEFINE t == picks[k].table
           s == status[t]
<1>1. /\ phase = "loading" /\ kind = "glue" /\ answers[k] = "none" /\ asked' = asked \cup {t}
      /\ UNCHANGED <<call, catalog, phase, listing, culprit>>
      /\ IF s = "absent" THEN Answered(k, "failed") /\ UNCHANGED picks
         ELSE picks' = [picks EXCEPT ![k].info = s] /\ UNCHANGED answers
  BY DEF GetTable, Due, AsksFor
<1>2. picks[k] \in Witnessed /\ t \in Tables /\ s \in held[t] /\ s \in Statuses
  BY PickTells
<1>3. CASE s = "absent"
  <2>1. Fits(picks[k], "failed")
    BY <1>1, <1>2, <1>3 DEF Fits
  <2> QED
    BY <1>1, <1>3, <2>1, AnswerKeeps
<1>4. CASE s # "absent"
  <2> DEFINE e == [table |-> t, info |-> s]
  <2>1. e \in Entry /\ e.table = t /\ e.info = s
    BY <1>2 DEF Entry
  <2>2. e \in Witnessed
    <3> HIDE DEF e
    <3> QED
      BY <1>2, <1>4, <2>1 DEF Witnessed
  <2>3. picks[k] = [table |-> t, info |-> picks[k].info]
    BY <1>2 DEF Witnessed, Entry
  <2>4. picks \in Seq(Witnessed) /\ DOMAIN answers = DOMAIN picks
    BY DEF IInv, LoadingOK, PicksOK
  <2>5. picks' = [picks EXCEPT ![k].info = s] /\ answers' = answers
    BY <1>1, <1>4
  <2>6. picks'[k] = [picks[k] EXCEPT !.info = s]
    BY <2>4, <2>5
  <2>7. picks'[k] = e
    BY <2>3, <2>6
  <2>8. DOMAIN picks' = DOMAIN picks /\ \A i \in DOMAIN picks : i # k => picks'[i] = picks[i]
    BY <2>4, <2>5
  <2> HIDE DEF e
  <2>9. picks' \in Seq(Witnessed)
    <3>1. \A i \in DOMAIN picks : picks'[i] \in Witnessed
      BY <2>2, <2>4, <2>7, <2>8
    <3>2. DOMAIN picks = 1 .. Len(picks) /\ Len(picks) \in Nat
      BY <2>4
    <3>3. picks' = [i \in DOMAIN picks |-> picks'[i]]
      BY <2>5
    <3>4. picks' \in [1 .. Len(picks) -> Witnessed]
      BY <3>1, <3>2, <3>3
    <3> QED
      BY <3>2, <3>4
  <2>10. Fits(e, "none")
    BY DEF Fits
  <2> QED
    BY <1>1, <2>1, <2>2, <2>4, <2>5, <2>7, <2>8, <2>9, <2>10, LoadKeeps
<1> QED
  BY <1>3, <1>4

\* The load of a Glue table's metadata keeps the invariant.
LEMMA AdmitGlueKeeps ==
  ASSUME IInv, NEW k \in DOMAIN picks, AdmitGlue(k)
  PROVE  IInv'
<1> DEFINE t == picks[k].table
           info == picks[k].info
           s == status[t]
<1>1. /\ phase = "loading" /\ kind = "glue" /\ info # "name"
      /\ UNCHANGED <<call, catalog, phase, listing, picks, culprit>>
  BY DEF AdmitGlue, Due
<1>2. s \in held[t] /\ info \in held[t] /\ (t \in Steady => info = s)
  BY <1>1, PickTells
<1>3. \A x : Takes(x) = IF route(x) = "skip" THEN "skipped" ELSE "admitted"
  BY <1>1 DEF Takes
<1>4. \A x : route(x) \in {"iceberg", "parquet", "skip"}
  BY DEF route
<1>5. CASE route(info) = "iceberg"
  <2>1. asked' = asked \cup {t}
    BY <1>5 DEF AdmitGlue, AsksFor
  <2>2. CASE Answered(k, "admitted")
    <3>1. Fits(picks[k], "admitted")
      BY <1>2, <1>3, <1>5 DEF Fits
    <3> QED
      BY <1>1, <2>1, <2>2, <3>1, AnswerKeeps
  <2>3. CASE (info = "broken" \/ s = "absent") /\ Answered(k, "failed")
    <3>1. Fits(picks[k], "failed")
      BY <1>1, <1>2, <2>3 DEF Fits
    <3> QED
      BY <1>1, <2>1, <2>3, <3>1, AnswerKeeps
  <2> QED
    BY <1>5, <2>2, <2>3 DEF AdmitGlue
<1>6. CASE route(info) # "iceberg"
  <2> DEFINE a == IF route(info) = "parquet" THEN "admitted" ELSE "skipped"
  <2>1. Answered(k, a) /\ asked' = asked
    BY <1>6 DEF AdmitGlue
  <2>2. Fits(picks[k], a)
    BY <1>2, <1>3, <1>4, <1>6 DEF Fits
  <2> QED
    BY <1>1, <2>1, <2>2, AnswerKeeps
<1> QED
  BY <1>5, <1>6

\* The call ends: the phase alone, and the culprit, change.
LEMMA EndKeeps ==
  ASSUME IInv, UNCHANGED <<call, catalog, loading>>,
         \/ phase' = "failed"
         \/ phase = "loading" /\ phase' = "done" /\ \A k \in DOMAIN picks : Settled(k),
         \/ culprit' = culprit
         \/ \E k \in DOMAIN picks : answers[k] = "failed" /\ culprit' = picks[k].table
  PROVE  IInv'
<1>1. picks' = picks /\ answers' = answers /\ asked' = asked
  BY DEF loading
<1>2. /\ Steady' = Steady /\ Needed' = Needed /\ Witnessed' = Witnessed
      /\ kind' = kind /\ held' = held /\ status' = status /\ CatalogOK'
  BY SameCatalog DEF IInv
<1>3. /\ PicksOK(picks, Steady, Witnessed, phase \in {"loading", "done"})
      /\ DOMAIN answers = DOMAIN picks /\ \A k \in DOMAIN picks : AnswerOK(k)
  BY DEF IInv, LoadingOK
<1>4. PicksOK(picks, Steady, Witnessed, phase' \in {"loading", "done"})
  BY <1>3 DEF PicksOK
<1>5. ASSUME NEW k \in DOMAIN picks PROVE AnswerOK(k)'
  <2>1. AnswerOK(k) /\ \A s : Takes(s)' = Takes(s)
    BY <1>2, <1>3 DEF Takes
  <2> QED
    BY <1>1, <1>2, <2>1 DEF AnswerOK, Settled
<1>6. phase' = "done" => \A k \in DOMAIN picks : Settled(k)'
  BY <1>1 DEF Settled
<1>7. LoadingOK'
  BY <1>1, <1>2, <1>3, <1>4, <1>5, <1>6 DEF LoadingOK
<1>8. ListingOK'
  BY DEF ListingOK
<1>9. OnlyExposedCount'
  <2>1. CASE culprit' = culprit
    BY <1>1, <1>2, <2>1 DEF IInv, OnlyExposedCount
  <2>2. CASE \E k \in DOMAIN picks : answers[k] = "failed" /\ culprit' = picks[k].table
    <3>1. PICK k \in DOMAIN picks : answers[k] = "failed" /\ culprit' = picks[k].table
      BY <2>2
    <3>2. culprit' \in Exposed
      BY <1>3, <3>1 DEF PicksOK
    <3>3. "broken" \in held[culprit'] \/ (kind \in {"unity", "glue"} /\ "absent" \in held[culprit'])
      BY <1>3, <3>1 DEF AnswerOK
    <3> QED
      BY <1>1, <1>2, <3>2, <3>3 DEF IInv, OnlyExposedCount
  <2> QED
    BY <2>1, <2>2
<1> QED
  BY <1>2, <1>7, <1>8, <1>9 DEF IInv

-----------------------------------------------------------------------------
(* The specification                                                       *)

\* A call that has not begun satisfies the invariant.
LEMMA InitHolds ==
  ASSUME Init
  PROVE  IInv
<1>1. /\ kind \in Kinds /\ phase = "listing" /\ level = <<Root>> /\ pages = <<FirstPages>> /\ found = <<>>
      /\ picks = <<>> /\ answers = <<>> /\ asked = {} /\ culprit = NoTable
      /\ live \in SUBSET Spaces /\ Root \in live /\ ParentClosed(live)
      /\ status \in [Tables -> Statuses]
      /\ \A t \in Tables : status[t] # "absent" => SpaceOf(t) \in live
      /\ held = [t \in Tables |-> {status[t]}]
  BY DEF Init, ParentClosed
<1>2. CatalogOK
  <2>1. held \in [Tables -> SUBSET Statuses] /\ \A t \in Tables : status[t] \in held[t]
    BY <1>1
  <2> QED
    BY <1>1, <2>1 DEF CatalogOK
<1>3. Root \in Spaces /\ \A ns \in Spaces : Depth[ns] \in Nat
  BY ListingAssumption, DepthExists DEF IsDepth
<1>4. level \in Seq(Spaces) /\ DOMAIN level = {1} /\ level[1] = Root /\ DOMAIN pages = {1} /\ pages[1] = FirstPages
  BY <1>1, <1>3
<1>5. SpaceOK(Root, FirstPages, Steady, Needed, Witnessed)
  BY <1>3, FirstPagesOK
<1>6. ASSUME NEW ns \in Needed, Depth[ns] = 0 PROVE ns = Root
  <2> SUFFICES ASSUME ns # Root PROVE FALSE
    OBVIOUS
  <2>1. PICK up \in Spaces : ns \in ToSet(ChildrenIn[up])
    BY TreeAssumption DEF Needed, NeededFor
  <2>2. Depth[ns] = Depth[up] + 1 /\ Depth[up] \in Nat
    BY <2>1, DepthExists DEF IsDepth
  <2> QED
    BY <1>6, <2>2
<1>7. \A t \in Steady : ~(Depth[SpaceOf(t)] < 0)
  <2>1. \A t \in Steady : Depth[SpaceOf(t)] \in Nat
    BY <1>3, SteadyTables, TableSpace
  <2> QED
    BY <2>1
<1>8. found \in Seq(Witnessed) /\ KeysDistinct("tables", found) /\ DOMAIN found = {}
  BY <1>1 DEF KeysDistinct
<1>9. IsInjective(level) /\ Depth[Root] = 0
  BY <1>4, DepthExists DEF IsInjective, IsDepth
<1>10. LevelOK(0, level, pages, found, Steady, Needed, Witnessed)
  BY <1>4, <1>5, <1>6, <1>7, <1>8, <1>9 DEF LevelOK
<1>11. ListingOK
  BY <1>1, <1>10 DEF ListingOK
<1>12. LoadingOK
  <2>1. picks \in Seq(Witnessed) /\ DOMAIN picks = {} /\ DOMAIN answers = {} /\ phase \notin {"loading", "done"}
    BY <1>1
  <2>2. PicksOK(picks, Steady, Witnessed, phase \in {"loading", "done"})
    BY <2>1 DEF PicksOK, KeysDistinct
  <2> QED
    BY <2>1, <2>2 DEF LoadingOK
<1>13. OnlyExposedCount
  BY <1>1 DEF OnlyExposedCount
<1> QED
  BY <1>2, <1>11, <1>12, <1>13 DEF IInv

\* A stuttering step keeps the invariant.
LEMMA StutterHolds ==
  ASSUME IInv, UNCHANGED vars
  PROVE  IInv'
<1>1. UNCHANGED <<kind, phase, live, status, held, level, pages, found, picks, answers, asked, culprit>>
  BY DEF vars, call, catalog, listing, loading
<1>2. Moved
  <2>1. UNCHANGED <<call, catalog>>
    BY DEF vars
  <2> QED
    BY <2>1, SameCatalog DEF Moved, IInv
<1>3. UNCHANGED <<phase, listing, loading, culprit>>
  BY <1>1 DEF listing, loading
<1> QED
  BY <1>2, <1>3, ChangeKeeps

\* Every step of the call and of the other clients keeps the invariant.
LEMMA NextHolds ==
  ASSUME IInv, Next
  PROVE  IInv'
<1>1. ASSUME NEW k \in DOMAIN level, NEW what \in {"tables", "spaces"}, Page(k, what) PROVE IInv'
  BY <1>1, PageKeeps DEF Listings
<1>2. ASSUME NEW k \in DOMAIN level, NEW what \in {"tables", "spaces"}, SpaceGone(k, what) \/ PageFails(k, what)
      PROVE  IInv'
  BY <1>2, FailureKeeps DEF SpaceGone, PageFails
<1>3. CASE ListingFails
  <2>1. phase' = "failed" /\ UNCHANGED <<call, catalog, loading>> /\ culprit' = culprit
    BY <1>3 DEF ListingFails
  <2> QED
    BY <2>1, EndKeeps
<1>4. CASE NextLevel
  BY <1>4, NextLevelKeeps
<1>5. CASE ListingEnds
  BY <1>5, ListingEndsKeeps
<1>6. ASSUME NEW k \in DOMAIN picks, LoadRest(k) \/ LoadUnity(k) \/ GetTable(k) \/ AdmitGlue(k) PROVE IInv'
  BY <1>6, LoadRestKeeps, LoadUnityKeeps, GetTableKeeps, AdmitGlueKeeps
<1>7. ASSUME NEW k \in DOMAIN picks, LoadsFail(k) PROVE IInv'
  <2>1. /\ phase' = "failed" /\ UNCHANGED <<call, catalog, loading>>
        /\ answers[k] = "failed" /\ culprit' = picks[k].table
    BY <1>7 DEF LoadsFail
  <2> QED
    BY <2>1, EndKeeps
<1>8. CASE Return
  <2>1. /\ phase = "loading" /\ phase' = "done" /\ UNCHANGED <<call, catalog, loading>> /\ culprit' = culprit
        /\ \A k \in DOMAIN picks : Settled(k)
    BY <1>8 DEF Return
  <2> QED
    BY <2>1, EndKeeps
<1>9. CASE Returned
  BY <1>9, StutterHolds DEF Returned
<1>10. ASSUME NEW t \in Tables, NEW s \in Statuses, TableChanges(t, s) PROVE IInv'
  <2>1. UNCHANGED <<phase, listing, loading, culprit>>
    BY <1>10 DEF TableChanges
  <2>2. Moved
    BY <1>10, TableMoves DEF IInv
  <2> QED
    BY <2>1, <2>2, ChangeKeeps
<1>11. ASSUME NEW ns \in Spaces, SpaceChanges(ns) PROVE IInv'
  <2>1. UNCHANGED <<phase, listing, loading, culprit>>
    BY <1>11 DEF SpaceChanges
  <2>2. Moved
    BY <1>11, SpaceMoves DEF IInv
  <2> QED
    BY <2>1, <2>2, ChangeKeeps
<1>12. CASE ListingStep
  BY <1>1, <1>2, <1>3, <1>4, <1>5, <1>12 DEF ListingStep
<1>13. CASE LoadingStep
  BY <1>6, <1>7, <1>8, <1>13 DEF LoadingStep
<1> QED
  BY <1>2, <1>9, <1>10, <1>11, <1>12, <1>13 DEF Next

\* Every state of a listing satisfies IInv: the level holds every namespace some
\* steady table needs, each listing covers the positions it has passed, and each
\* answer fits its table.
THEOREM Invariance == Spec => []IInv
<1>1. Init => IInv
  BY InitHolds
<1>2. IInv /\ [Next]_vars => IInv'
  BY NextHolds, StutterHolds
<1> QED
  BY <1>1, <1>2, PTL DEF Spec

\* For every namespace tree, page size, concurrency and change of other clients:
\* a table the predicate rejects is never loaded and never fails the call, and on
\* Iceberg REST neither does one dropped after it was listed.
THEOREM ExposedOnly == Spec => []OnlyExposedCount
<1>1. IInv => OnlyExposedCount
  BY DEF IInv
<1> QED
  BY <1>1, Invariance, PTL

-----------------------------------------------------------------------------
(* What the finished call returns                                          *)

\* The result holds a table as often as a pick of it was answered that way.
LEMMA ListedTimes ==
  ASSUME NEW X, picks \in Seq(X), KeysDistinct("tables", picks), NEW t, NEW a
  PROVE  /\ \A k \in DOMAIN picks : picks[k].table = t /\ answers[k] = a => Times(t, Listed(a)) = 1
         /\ (\A k \in DOMAIN picks : picks[k].table = t => answers[k] # a) => Times(t, Listed(a)) = 0
<1> DEFINE idx == [k \in DOMAIN picks |-> k]
           T == {k \in DOMAIN picks : answers[k] = a}
           kept == Selected(idx, T)
           I == {i \in DOMAIN kept : picks[kept[i]].table = t}
<1>1. DOMAIN picks = 1 .. Len(picks) /\ Len(picks) \in Nat
  OBVIOUS
<1>2. idx \in Seq(Nat) /\ DOMAIN idx = DOMAIN picks /\ \A k \in DOMAIN picks : idx[k] = k
  <2>1. idx \in [1 .. Len(picks) -> Nat]
    BY <1>1
  <2> HIDE DEF idx
  <2>2. idx \in Seq(Nat)
    BY <1>1, <2>1
  <2> QED
    BY <2>2 DEF idx
<1>3. Times(t, Listed(a)) = Cardinality(I)
  <2>1. Listed(a) = [i \in DOMAIN kept |-> picks[kept[i]].table]
    BY DEF Listed
  <2> HIDE DEF kept
  <2>2. DOMAIN Listed(a) = DOMAIN kept /\ \A i \in DOMAIN kept : Listed(a)[i] = picks[kept[i]].table
    BY <2>1
  <2>3. {i \in DOMAIN Listed(a) : Listed(a)[i] = t} = I
    BY <2>2
  <2> QED
    BY <2>3 DEF Times
<1> HIDE DEF idx, T
<1>4. /\ kept \in Seq(Nat) /\ \A i \in DOMAIN kept : kept[i] \in T
      /\ \A k \in DOMAIN idx : idx[k] \in T => \E i \in DOMAIN kept : kept[i] = idx[k]
      /\ DistinctOrigins(kept, idx, DOMAIN idx)
  BY <1>2, SelectedElements
<1> HIDE DEF kept
<1>5. \A i, j \in DOMAIN kept : kept[i] = kept[j] => i = j
  <2> SUFFICES ASSUME NEW i \in DOMAIN kept, NEW j \in DOMAIN kept, kept[i] = kept[j], i # j PROVE FALSE
    OBVIOUS
  <2>1. PICK k, l \in DOMAIN idx : k # l /\ idx[k] = kept[i] /\ idx[l] = kept[j]
    BY <1>4 DEF DistinctOrigins
  <2> QED
    BY <1>2, <2>1
<1>6. ASSUME NEW k \in DOMAIN picks, picks[k].table = t, answers[k] = a PROVE Times(t, Listed(a)) = 1
  <2>1. k \in T
    BY <1>6 DEF T
  <2>2. PICK i \in DOMAIN kept : kept[i] = k
    BY <1>2, <1>4, <2>1
  <2>3. \A j \in I : j = i
    <3> SUFFICES ASSUME NEW j \in I PROVE j = i
      OBVIOUS
    <3>1. j \in DOMAIN kept /\ picks[kept[j]].table = t /\ kept[j] \in DOMAIN picks
      BY <1>4 DEF T
    <3>2. kept[j] = k
      BY <1>6, <3>1 DEF KeysDistinct, Key
    <3> QED
      BY <1>5, <2>2, <3>1, <3>2
  <2>4. I = {i}
    BY <1>6, <2>2, <2>3
  <2>5. Cardinality({i}) = 1
    BY FS_Singleton
  <2> QED
    BY <1>3, <2>4, <2>5
<1>7. ASSUME \A k \in DOMAIN picks : picks[k].table = t => answers[k] # a PROVE Times(t, Listed(a)) = 0
  <2>1. I = {}
    BY <1>4, <1>7 DEF T
  <2>2. Cardinality({}) = 0
    BY FS_EmptySet
  <2> HIDE DEF I
  <2> QED
    BY <1>3, <2>1, <2>2
<1> QED
  BY <1>6, <1>7

\* A finished call that satisfies the invariant returns each steady table
\* once.
LEMMA DoneOnce ==
  ASSUME IInv, phase = "done"
  PROVE  SteadyListedOnce
<1>1. /\ picks \in Seq(Witnessed) /\ KeysDistinct("tables", picks)
      /\ \A t \in Exposed \cap Steady : Holds("tables", picks, t)
      /\ \A k \in DOMAIN picks : AnswerOK(k) /\ Settled(k)
  BY DEF IInv, LoadingOK, PicksOK
<1> SUFFICES ASSUME NEW t \in Tables
             PROVE  LET times == Times(t, Listed("admitted")) + Times(t, Listed("skipped"))
                    IN  /\ t \in Exposed /\ InReach(t) /\ held[t] = {status[t]} /\ status[t] # "absent" =>
                             times = 1 /\ Times(t, Listed(Takes(status[t]))) = 1
                        /\ held[t] = {"absent"} => times = 0
  BY DEF SteadyListedOnce
<1> DEFINE in == Times(t, Listed("admitted"))
           out == Times(t, Listed("skipped"))
<1>2. ASSUME t \in Exposed, InReach(t), held[t] = {status[t]}, status[t] # "absent"
      PROVE  in + out = 1 /\ Times(t, Listed(Takes(status[t]))) = 1
  <2>1. t \in Exposed \cap Steady
    BY <1>2 DEF Steady
  <2>2. PICK k \in DOMAIN picks : picks[k].table = t
    BY <1>1, <2>1 DEF Holds, Key
  <2>3. answers[k] = Takes(status[t]) /\ answers[k] \in {"admitted", "skipped"}
    BY <1>1, <2>1, <2>2 DEF AnswerOK, Settled
  <2>4. \A j \in DOMAIN picks : picks[j].table = t => j = k
    BY <1>1, <2>2 DEF KeysDistinct, Key
  <2>5. \A a : Times(t, Listed(a)) = IF answers[k] = a THEN 1 ELSE 0
    BY <1>1, <2>2, <2>4, ListedTimes
  <2>6. CASE answers[k] = "admitted"
    <3>1. in = 1 /\ out = 0
      BY <2>5, <2>6
    <3> QED
      BY <2>3, <2>5, <3>1
  <2>7. CASE answers[k] = "skipped"
    <3>1. in = 0 /\ out = 1
      BY <2>5, <2>7
    <3> QED
      BY <2>3, <2>5, <3>1
  <2> QED
    BY <2>3, <2>6, <2>7
<1>3. ASSUME held[t] = {"absent"} PROVE in + out = 0
  <2>1. \A k \in DOMAIN picks : picks[k].table # t
    BY <1>1, <1>3 DEF Witnessed
  <2>2. in = 0 /\ out = 0
    BY <1>1, <2>1, ListedTimes
  <2> QED
    BY <2>2
<1> QED
  BY <1>2, <1>3

\* For every namespace tree, page size, concurrency and change of other clients:
\* a table that stays as it is during the call is returned exactly once, under the
\* heading its kind gives it, and none is returned that never existed meanwhile.
THEOREM SteadyOnce == Spec => []SteadyListedOnce
<1>1. IInv => SteadyListedOnce
  <2>1. phase # "done" => SteadyListedOnce
    BY DEF SteadyListedOnce
  <2> QED
    BY <2>1, DoneOnce
<1> QED
  BY <1>1, Invariance, PTL

-----------------------------------------------------------------------------
(* The order of the walk                                                   *)

\* The children of the namespaces q, one after the other.
ChildrenOf(q) == FlattenSeq([k \in DOMAIN q |-> ChildrenIn[q[k]]])

\* The children of namespaces are namespaces.
LEMMA ChildParts ==
  ASSUME NEW q \in Seq(Spaces)
  PROVE  /\ [k \in DOMAIN q |-> ChildrenIn[q[k]]] \in Seq(Seq(Spaces))
         /\ ChildrenOf(q) \in Seq(Spaces)
<1>1. DOMAIN q = 1 .. Len(q) /\ Len(q) \in Nat /\ \A k \in DOMAIN q : ChildrenIn[q[k]] \in Seq(Spaces)
  BY ListingAssumption
<1> DEFINE ss == [k \in DOMAIN q |-> ChildrenIn[q[k]]]
<1>2. ss \in [1 .. Len(q) -> Seq(Spaces)]
  BY <1>1
<1>3. ss \in Seq(Seq(Spaces))
  <2> HIDE DEF ss
  <2> QED
    BY <1>1, <1>2
<1> HIDE DEF ss
<1>4. FlattenSeq(ss) \in Seq(Spaces)
  BY <1>3, Flattened
<1> QED
  BY <1>3, <1>4 DEF ss, ChildrenOf

\* The levels of the tree: Root, and then the children of the level above.
LEMMA LevelsAre ==
  /\ LevelAt \in [Nat -> Seq(Spaces)]
  /\ LevelAt[0] = <<Root>>
  /\ \A d \in Nat : LevelAt[d + 1] = ChildrenOf(LevelAt[d])
<1> DEFINE A == Seq(Spaces)
           a == <<Root>>
           F == [n \in Nat |-> [q \in A |-> ChildrenOf(q)]]
           Recursive(f) == f = [d \in Nat |-> IF d = 0 THEN <<Root>>
                                 ELSE FlattenSeq([k \in DOMAIN f[d - 1] |-> ChildrenIn[f[d - 1][k]]])]
<1>1. StepFunction(F, A) /\ a \in A
  <2>1. \A q \in A : ChildrenOf(q) \in A
    BY ChildParts
  <2>2. a \in A
    BY ListingAssumption
  <2> HIDE DEF A
  <2> QED
    BY <2>1, <2>2 DEF StepFunction
<1>2. PICK g : IteratesFrom(g, A, a, F)
  <2> HIDE DEF F, A, a
  <2> QED
    BY <1>1, Iterates
<1>3. g \in [Nat -> A] /\ g[0] = a /\ \A n \in Nat : g[n + 1] = F[n][g[n]]
  <2> HIDE DEF F, A, a
  <2> QED
    BY <1>2 DEF IteratesFrom
<1>4. \A n \in Nat : g[n + 1] = ChildrenOf(g[n])
  <2> HIDE DEF A
  <2> QED
    BY <1>3
<1> HIDE DEF F
<1>5. Recursive(g)
  <2>1. ASSUME NEW d \in Nat
        PROVE  g[d] = IF d = 0 THEN <<Root>>
                      ELSE FlattenSeq([k \in DOMAIN g[d - 1] |-> ChildrenIn[g[d - 1][k]]])
    <3>1. CASE d = 0
      BY <1>3, <3>1
    <3>2. CASE d # 0
      <4>1. d - 1 \in Nat /\ (d - 1) + 1 = d
        BY <3>2
      <4>2. g[d] = ChildrenOf(g[d - 1])
        BY <1>4, <4>1
      <4> QED
        BY <3>2, <4>2 DEF ChildrenOf
    <3> QED
      BY <3>1, <3>2
  <2>2. g = [d \in Nat |-> g[d]]
    BY <1>3
  <2> QED
    BY <2>1, <2>2
<1>6. Recursive(LevelAt)
  <2>1. LevelAt = CHOOSE f : Recursive(f)
    BY DEF LevelAt
  <2> HIDE DEF Recursive
  <2> QED
    BY <1>5, <2>1
<1>7. LevelAt[0] = <<Root>> /\ \A d \in Nat : LevelAt[d + 1] = ChildrenOf(LevelAt[d])
  <2>1. LevelAt[0] = <<Root>>
    BY <1>6
  <2>2. ASSUME NEW d \in Nat PROVE LevelAt[d + 1] = ChildrenOf(LevelAt[d])
    <3>1. d + 1 \in Nat /\ d + 1 # 0 /\ (d + 1) - 1 = d
      OBVIOUS
    <3>2. LevelAt[d + 1] = IF d + 1 = 0 THEN <<Root>>
                           ELSE FlattenSeq([k \in DOMAIN LevelAt[(d + 1) - 1] |-> ChildrenIn[LevelAt[(d + 1) - 1][k]]])
      BY <1>6, <3>1
    <3> QED
      BY <3>1, <3>2 DEF ChildrenOf
  <2> QED
    BY <2>1, <2>2
<1>8. LevelAt \in [Nat -> A]
  <2> DEFINE P == {d \in Nat : LevelAt[d] \in A}
  <2>1. 0 \in P
    <3>1. LevelAt[0] \in A /\ 0 \in Nat
      BY <1>1, <1>7
    <3> HIDE DEF A
    <3> QED
      BY <3>1
  <2>2. ASSUME NEW d \in P PROVE d + 1 \in P
    <3>1. d \in Nat /\ LevelAt[d] \in A /\ LevelAt[d + 1] = ChildrenOf(LevelAt[d]) /\ d + 1 \in Nat
      BY <1>7
    <3>2. LevelAt[d + 1] \in A
      BY <3>1, ChildParts
    <3> HIDE DEF A
    <3> QED
      BY <3>1, <3>2
  <2>3. P = Nat
    <3>1. P \in SUBSET Nat
      OBVIOUS
    <3> HIDE DEF P
    <3> QED
      BY <2>1, <2>2, <3>1, NatSetInduction
  <2>4. LevelAt = [d \in Nat |-> LevelAt[d]]
    BY <1>6
  <2> QED
    BY <2>3, <2>4
<1> QED
  BY <1>7, <1>8

\* A level of depth d holds the namespaces of that depth, each once.
LevelIs(d) ==
    /\ \A k \in DOMAIN LevelAt[d] : Depth[LevelAt[d][k]] = d
    /\ \A i, j \in DOMAIN LevelAt[d] : LevelAt[d][i] = LevelAt[d][j] => i = j
    /\ \A ns \in Spaces : Depth[ns] = d => \E k \in DOMAIN LevelAt[d] : LevelAt[d][k] = ns

\* Every level of the tree is as it should be.
LEMMA LevelsHold ==
  \A d \in Nat : LevelIs(d)
<1> DEFINE P == {d \in Nat : LevelIs(d)}
<1>0. Root \in Spaces /\ Depth[Root] = 0 /\ Depth \in [Spaces -> Nat]
      /\ \A ns \in Spaces : \A c \in ToSet(ChildrenIn[ns]) : Depth[c] = Depth[ns] + 1
  BY DepthExists, ListingAssumption DEF IsDepth
<1>1. LevelIs(0)
  <2>1. LevelAt[0] = <<Root>> /\ DOMAIN <<Root>> = {1} /\ <<Root>>[1] = Root
    BY LevelsAre
  <2>2. ASSUME NEW ns \in Spaces, Depth[ns] = 0 PROVE ns = Root
    <3> SUFFICES ASSUME ns # Root PROVE FALSE
      OBVIOUS
    <3>1. PICK up \in Spaces : ns \in ToSet(ChildrenIn[up])
      BY TreeAssumption
    <3>2. Depth[ns] = Depth[up] + 1 /\ Depth[up] \in Nat
      BY <1>0, <3>1
    <3> QED
      BY <2>2, <3>2
  <2> QED
    BY <1>0, <2>1, <2>2 DEF LevelIs
<1>2. ASSUME NEW d \in Nat, LevelIs(d) PROVE LevelIs(d + 1)
  <2> DEFINE q == LevelAt[d]
             ss == [k \in DOMAIN q |-> ChildrenIn[q[k]]]
             z == LevelAt[d + 1]
  <2>1. q \in Seq(Spaces) /\ z = FlattenSeq(ss)
    BY LevelsAre DEF ChildrenOf
  <2>2. ss \in Seq(Seq(Spaces))
    <3> HIDE DEF q
    <3> QED
      BY <2>1, ChildParts
  <2>3. FlatFrom(z, ss, DOMAIN ss) /\ FlatInto(z, ss, DOMAIN ss) /\ FlatApart(z, ss, DOMAIN ss) /\ z \in Seq(Spaces)
    <3> HIDE DEF ss
    <3> QED
      BY <2>1, <2>2, Flattened
  <2>4. DOMAIN ss = DOMAIN q /\ \A k \in DOMAIN q : ss[k] = ChildrenIn[q[k]] /\ q[k] \in Spaces /\ Depth[q[k]] = d
    BY <1>2, <2>1 DEF LevelIs
  <2>5. \A i, j \in DOMAIN q : q[i] = q[j] => i = j
    BY <1>2 DEF LevelIs
  <2>6. \A ns \in Spaces : Depth[ns] = d => \E k \in DOMAIN q : q[k] = ns
    BY <1>2 DEF LevelIs
  <2> HIDE DEF q, ss, z
  <2>7. ASSUME NEW i \in DOMAIN z PROVE Depth[z[i]] = d + 1
    <3>1. PICK a \in DOMAIN q : \E b \in DOMAIN ss[a] : ss[a][b] = z[i]
      BY <2>3, <2>4 DEF FlatFrom
    <3>2. z[i] \in ToSet(ChildrenIn[q[a]])
      BY <2>4, <3>1 DEF ToSet
    <3> QED
      BY <1>0, <2>4, <3>2
  <2>8. ASSUME NEW i \in DOMAIN z, NEW j \in DOMAIN z, z[i] = z[j], i # j PROVE FALSE
    <3>1. PICK a \in DOMAIN q, c \in DOMAIN q : \E b \in DOMAIN ss[a], e \in DOMAIN ss[c] :
             (a # c \/ b # e) /\ ss[a][b] = z[i] /\ ss[c][e] = z[j]
      BY <2>3, <2>4, <2>8 DEF FlatApart, Apart
    <3>2. PICK b \in DOMAIN ss[a], e \in DOMAIN ss[c] : (a # c \/ b # e) /\ ss[a][b] = z[i] /\ ss[c][e] = z[j]
      BY <3>1
    <3>3. z[i] \in ToSet(ChildrenIn[q[a]]) /\ z[i] \in ToSet(ChildrenIn[q[c]])
      BY <2>4, <2>8, <3>2 DEF ToSet
    <3>4. q[a] = q[c]
      BY <2>4, <3>3, TreeAssumption
    <3>5. a = c
      BY <2>5, <3>4
    <3>6. IsInjective(ChildrenIn[q[a]])
      BY <2>4, TreeAssumption
    <3>7. b = e
      BY <2>4, <2>8, <3>2, <3>5, <3>6 DEF IsInjective
    <3> QED
      BY <3>2, <3>5, <3>7
  <2>9. ASSUME NEW ns \in Spaces, Depth[ns] = d + 1 PROVE \E k \in DOMAIN z : z[k] = ns
    <3>1. ns # Root
      BY <1>0, <2>9
    <3>2. PICK up \in Spaces : ns \in ToSet(ChildrenIn[up])
      BY <3>1, TreeAssumption
    <3>3. Depth[up] = d
      BY <1>0, <2>9, <3>2
    <3>4. PICK k \in DOMAIN q : q[k] = up
      BY <2>6, <3>3
    <3>5. PICK b \in DOMAIN ss[k] : ss[k][b] = ns
      BY <2>4, <3>2, <3>4 DEF ToSet
    <3> QED
      BY <2>3, <2>4, <3>5 DEF FlatInto
  <2> QED
    BY <2>7, <2>8, <2>9 DEF LevelIs, z
<1>3. P = Nat
  <2>1. P \in SUBSET Nat /\ 0 \in P /\ \A d \in P : d + 1 \in P
    BY <1>1, <1>2
  <2> HIDE DEF P
  <2> QED
    BY <2>1, NatSetInduction
<1> QED
  BY <1>3

\* The levels end: no namespace lies as deep as there are namespaces.
LEMMA DepthBound ==
  /\ Cardinality(Spaces) \in Nat
  /\ \A ns \in Spaces : Depth[ns] \in Nat /\ Depth[ns] < Cardinality(Spaces)
<1> DEFINE D == {Depth[x] : x \in Spaces}
           N == Cardinality(Spaces)
<1>0. /\ Depth \in [Spaces -> Nat] /\ Depth[Root] = 0 /\ Root \in Spaces
      /\ \A ns \in Spaces : \A c \in ToSet(ChildrenIn[ns]) : Depth[c] = Depth[ns] + 1
  BY DepthExists, ListingAssumption DEF IsDepth
<1>1. IsFiniteSet(Spaces) /\ N \in Nat
  BY TreeAssumption, FS_CardinalityType
<1>2. IsFiniteSet(D) /\ Cardinality(D) <= N /\ Cardinality(D) \in Nat
  <2>1. Depth \in Surjection(Spaces, D)
    BY <1>0 DEF Surjection
  <2> HIDE DEF D
  <2>2. IsFiniteSet(D) /\ Cardinality(D) <= N
    BY <1>1, <2>1, FS_Surjection
  <2> QED
    BY <2>2, FS_CardinalityType
<1>3. ASSUME NEW n \in D, n # 0 PROVE n - 1 \in D /\ n \in Nat
  <2>1. PICK ns \in Spaces : Depth[ns] = n
    OBVIOUS
  <2>2. ns # Root
    BY <1>0, <1>3, <2>1
  <2>3. PICK up \in Spaces : ns \in ToSet(ChildrenIn[up])
    BY <2>2, TreeAssumption
  <2>4. Depth[ns] = Depth[up] + 1 /\ Depth[up] \in Nat
    BY <1>0, <2>3
  <2>5. n - 1 = Depth[up] /\ n \in Nat
    BY <2>1, <2>4
  <2> QED
    BY <2>5
<1> SUFFICES ASSUME NEW ns \in Spaces PROVE Depth[ns] \in Nat /\ Depth[ns] < N
  BY <1>1
<1> DEFINE m == Depth[ns]
           P == {i \in 0 .. m : m - i \in D}
<1>4. m \in Nat /\ m \in D
  BY <1>0
<1>5. P = 0 .. m
  <2>1. P \in SUBSET (0 .. m) /\ 0 \in P
    <3> HIDE DEF D, m
    <3> QED
      BY <1>4
  <2>2. ASSUME NEW i \in P, i < m PROVE i + 1 \in P
    <3> HIDE DEF D, m
    <3>1. m - i \in D /\ m - i # 0 /\ i \in 0 .. m /\ (m - i) - 1 = m - (i + 1) /\ i + 1 \in 0 .. m
      BY <1>4, <2>2
    <3> QED
      BY <1>3, <3>1
  <2> HIDE DEF P, m
  <2> QED
    BY <1>4, <2>1, <2>2, BoundedInduction
<1>6. 0 .. m \in SUBSET D
  <2> HIDE DEF D, m
  <2> SUFFICES ASSUME NEW j \in 0 .. m PROVE j \in D
    OBVIOUS
  <2>1. m - j \in 0 .. m /\ m - (m - j) = j
    BY <1>4
  <2>2. m - j \in P
    <3> HIDE DEF P
    <3> QED
      BY <1>5, <2>1
  <2> QED
    BY <2>1, <2>2
<1> HIDE DEF D, m, N, P
<1>7. Cardinality(0 .. m) <= Cardinality(D)
  BY <1>2, <1>6, FS_Subset
<1>8. Cardinality(0 .. m) = m + 1
  BY <1>4, FS_Interval
<1>9. m < N
  BY <1>1, <1>2, <1>4, <1>7, <1>8
<1> QED
  BY <1>4, <1>9 DEF m

\* The walk meets every namespace once, level by level.
LEMMA WalkOfSpaces ==
  /\ BreadthFirst \in Seq(Spaces)
  /\ \A ns \in Spaces : \E k \in DOMAIN BreadthFirst : BreadthFirst[k] = ns
  /\ \A i, j \in DOMAIN BreadthFirst : BreadthFirst[i] = BreadthFirst[j] => i = j
  /\ \A a, b \in Spaces : Depth[a] < Depth[b] => InSeqBefore(BreadthFirst, a, b)
  /\ \A a, b \in Spaces : InSeqBefore(LevelAt[Depth[a]], a, b) => InSeqBefore(BreadthFirst, a, b)
<1> DEFINE N == Cardinality(Spaces)
           ss == [d \in 1 .. N |-> LevelAt[d - 1]]
           z == BreadthFirst
<1>1. N \in Nat /\ \A ns \in Spaces : Depth[ns] \in Nat /\ Depth[ns] < N
  BY DepthBound
<1>2. ASSUME NEW d \in 1 .. N
      PROVE  d - 1 \in Nat /\ ss[d] = LevelAt[d - 1] /\ ss[d] \in Seq(Spaces) /\ LevelIs(d - 1)
  <2>1. d - 1 \in Nat
    BY <1>1
  <2> QED
    BY <2>1, LevelsAre, LevelsHold
<1>3. DOMAIN ss = 1 .. N /\ ss \in Seq(Seq(Spaces))
  <2>1. ss \in [1 .. N -> Seq(Spaces)]
    BY <1>2
  <2> HIDE DEF ss, N
  <2> QED
    BY <1>1, <2>1
<1>4. z = FlattenSeq(ss)
  BY DEF BreadthFirst
<1> HIDE DEF z, ss, N
<1>5. z \in Seq(Spaces) /\ FlatFrom(z, ss, DOMAIN ss) /\ FlatInto(z, ss, DOMAIN ss)
  BY <1>3, <1>4, Flattened
<1>6. FlatOrigins(z, ss, DOMAIN ss) /\ FlatPlaces(z, ss, DOMAIN ss)
  BY <1>3, <1>4, FlatInOrder
<1>7. ASSUME NEW ns \in Spaces
      PROVE  /\ Depth[ns] + 1 \in DOMAIN ss /\ ss[Depth[ns] + 1] = LevelAt[Depth[ns]]
             /\ \E b \in DOMAIN ss[Depth[ns] + 1] : ss[Depth[ns] + 1][b] = ns
  <2>1. Depth[ns] + 1 \in 1 .. N /\ (Depth[ns] + 1) - 1 = Depth[ns]
    BY <1>1
  <2>2. ss[Depth[ns] + 1] = LevelAt[Depth[ns]] /\ LevelIs(Depth[ns])
    BY <1>2, <2>1
  <2> QED
    BY <1>3, <2>1, <2>2 DEF LevelIs
<1>8. ASSUME NEW ns \in Spaces PROVE \E k \in DOMAIN z : z[k] = ns
  BY <1>5, <1>7, <1>8 DEF FlatInto
<1>9. ASSUME NEW i \in DOMAIN z, NEW j \in DOMAIN z, i < j, z[i] = z[j] PROVE FALSE
  <2>1. PICK a \in DOMAIN ss, c \in DOMAIN ss : \E b \in DOMAIN ss[a], e \in DOMAIN ss[c] :
           Earlier(a, b, c, e) /\ ss[a][b] = z[i] /\ ss[c][e] = z[j]
    BY <1>6, <1>9 DEF FlatOrigins
  <2>2. PICK b \in DOMAIN ss[a], e \in DOMAIN ss[c] : Earlier(a, b, c, e) /\ ss[a][b] = z[i] /\ ss[c][e] = z[j]
    BY <2>1
  <2>3. a \in 1 .. N /\ c \in 1 .. N
    BY <1>3
  <2>4. Depth[z[i]] = a - 1 /\ Depth[z[i]] = c - 1
    BY <1>2, <1>9, <2>2, <2>3 DEF LevelIs
  <2>5. a = c
    BY <1>1, <2>3, <2>4
  <2>6. b = e
    BY <1>2, <1>9, <2>2, <2>3, <2>5 DEF LevelIs
  <2>7. b \in Int /\ e \in Int /\ a \in Int
    BY <1>1, <1>2, <2>2, <2>3
  <2> QED
    BY <2>2, <2>5, <2>6, <2>7 DEF Earlier
<1>10. \A i, j \in DOMAIN z : z[i] = z[j] => i = j
  <2>1. \A i, j \in DOMAIN z : i = j \/ i < j \/ j < i
    BY <1>5
  <2> QED
    BY <1>9, <2>1
<1>11. ASSUME NEW a \in Spaces, NEW b \in Spaces, Depth[a] < Depth[b] PROVE InSeqBefore(z, a, b)
  <2>1. PICK k \in DOMAIN ss[Depth[a] + 1] : ss[Depth[a] + 1][k] = a
    BY <1>7
  <2>2. PICK l \in DOMAIN ss[Depth[b] + 1] : ss[Depth[b] + 1][l] = b
    BY <1>7
  <2>3. Earlier(Depth[a] + 1, k, Depth[b] + 1, l)
    BY <1>1, <1>11 DEF Earlier
  <2>4. Depth[a] + 1 \in DOMAIN ss /\ Depth[b] + 1 \in DOMAIN ss
    BY <1>7
  <2> QED
    BY <1>6, <2>1, <2>2, <2>3, <2>4 DEF FlatPlaces
<1>12. ASSUME NEW a \in Spaces, NEW b \in Spaces, InSeqBefore(LevelAt[Depth[a]], a, b)
       PROVE  InSeqBefore(z, a, b)
  <2>1. Depth[a] + 1 \in DOMAIN ss /\ ss[Depth[a] + 1] = LevelAt[Depth[a]]
    BY <1>7
  <2>2. PICK k, l \in DOMAIN ss[Depth[a] + 1] : k < l /\ ss[Depth[a] + 1][k] = a /\ ss[Depth[a] + 1][l] = b
    BY <1>12, <2>1 DEF InSeqBefore
  <2>3. Earlier(Depth[a] + 1, k, Depth[a] + 1, l)
    BY <2>2 DEF Earlier
  <2> QED
    BY <1>6, <2>1, <2>2, <2>3 DEF FlatPlaces
<1> QED
  BY <1>5, <1>8, <1>10, <1>11, <1>12 DEF z

\* The tables in the order of the walk: each once, by level, by the order of the
\* namespaces in their level, and by the catalog's order in a namespace.
LEMMA WalkOfTables ==
  /\ TablesInOrder \in Seq(Tables)
  /\ \A t \in Tables : \E k \in DOMAIN TablesInOrder : TablesInOrder[k] = t
  /\ \A i, j \in DOMAIN TablesInOrder : TablesInOrder[i] = TablesInOrder[j] => i = j
  /\ \A t, u \in Tables : InSeqBefore(BreadthFirst, SpaceOf(t), SpaceOf(u)) => InSeqBefore(TablesInOrder, t, u)
  /\ \A ns \in Spaces : \A t, u \in Tables :
       InSeqBefore(TablesIn[ns], t, u) => InSeqBefore(TablesInOrder, t, u)
<1> DEFINE q == BreadthFirst
           ss == [k \in DOMAIN q |-> TablesIn[q[k]]]
           z == TablesInOrder
<1>1. /\ q \in Seq(Spaces) /\ DOMAIN q = 1 .. Len(q) /\ Len(q) \in Nat
      /\ \A k \in DOMAIN q : q[k] \in Spaces /\ TablesIn[q[k]] \in Seq(Tables) /\ IsInjective(TablesIn[q[k]])
  BY WalkOfSpaces, ListingAssumption, TreeAssumption
<1>2. DOMAIN ss = DOMAIN q /\ ss \in Seq(Seq(Tables)) /\ \A k \in DOMAIN q : ss[k] = TablesIn[q[k]]
  <2> HIDE DEF q
  <2>1. ss \in [1 .. Len(q) -> Seq(Tables)]
    BY <1>1
  <2>2. DOMAIN ss = DOMAIN q /\ \A k \in DOMAIN q : ss[k] = TablesIn[q[k]]
    OBVIOUS
  <2> HIDE DEF ss
  <2> QED
    BY <1>1, <2>1, <2>2
<1>3. z = FlattenSeq(ss)
  BY DEF TablesInOrder
<1> HIDE DEF z, ss, q
<1>4. z \in Seq(Tables) /\ FlatFrom(z, ss, DOMAIN ss) /\ FlatInto(z, ss, DOMAIN ss)
  BY <1>2, <1>3, Flattened
<1>5. FlatOrigins(z, ss, DOMAIN ss) /\ FlatPlaces(z, ss, DOMAIN ss)
  BY <1>2, <1>3, FlatInOrder
<1>6. /\ \A ns \in Spaces : \E k \in DOMAIN q : q[k] = ns
      /\ \A i, j \in DOMAIN q : q[i] = q[j] => i = j
  BY WalkOfSpaces DEF q
<1>7. ASSUME NEW t \in Tables, NEW k \in DOMAIN q, q[k] = SpaceOf(t)
      PROVE  \E b \in DOMAIN ss[k] : ss[k][b] = t
  <2>1. t \in ToSet(ss[k])
    BY <1>2, <1>7, TableSpace
  <2> QED
    BY <2>1 DEF ToSet
<1>8. ASSUME NEW k \in DOMAIN q, NEW b \in DOMAIN ss[k] PROVE SpaceOf(ss[k][b]) = q[k]
  BY <1>1, <1>2, TableSpace DEF ToSet
<1>9. ASSUME NEW t \in Tables PROVE \E k \in DOMAIN z : z[k] = t
  <2>1. PICK k \in DOMAIN q : q[k] = SpaceOf(t)
    BY <1>6, TableSpace
  <2>2. PICK b \in DOMAIN ss[k] : ss[k][b] = t
    BY <1>7, <2>1
  <2> QED
    BY <1>2, <1>4, <2>2 DEF FlatInto
<1>10. ASSUME NEW i \in DOMAIN z, NEW j \in DOMAIN z, i < j, z[i] = z[j] PROVE FALSE
  <2>1. PICK a \in DOMAIN q, c \in DOMAIN q : \E b \in DOMAIN ss[a], e \in DOMAIN ss[c] :
           Earlier(a, b, c, e) /\ ss[a][b] = z[i] /\ ss[c][e] = z[j]
    BY <1>2, <1>5, <1>10 DEF FlatOrigins
  <2>2. PICK b \in DOMAIN ss[a], e \in DOMAIN ss[c] : Earlier(a, b, c, e) /\ ss[a][b] = z[i] /\ ss[c][e] = z[j]
    BY <2>1
  <2>3. q[a] = q[c]
    BY <1>8, <1>10, <2>2
  <2>4. a = c
    BY <1>6, <2>3
  <2>5. b = e
    <3>1. IsInjective(ss[a]) /\ b \in DOMAIN ss[a] /\ e \in DOMAIN ss[a] /\ ss[a][b] = ss[a][e]
      BY <1>1, <1>2, <1>10, <2>2, <2>4
    <3> QED
      BY <3>1 DEF IsInjective
  <2>6. b \in Int /\ a \in Int
    BY <1>1, <1>2, <2>2
  <2> QED
    BY <2>2, <2>4, <2>5, <2>6 DEF Earlier
<1>11. \A i, j \in DOMAIN z : z[i] = z[j] => i = j
  <2>1. \A i, j \in DOMAIN z : i = j \/ i < j \/ j < i
    BY <1>4
  <2> QED
    BY <1>10, <2>1
<1>12. ASSUME NEW t \in Tables, NEW u \in Tables, InSeqBefore(q, SpaceOf(t), SpaceOf(u))
       PROVE  InSeqBefore(z, t, u)
  <2>1. PICK a, c \in DOMAIN q : a < c /\ q[a] = SpaceOf(t) /\ q[c] = SpaceOf(u)
    BY <1>12 DEF InSeqBefore
  <2>2. PICK b \in DOMAIN ss[a] : ss[a][b] = t
    BY <1>7, <2>1
  <2>3. PICK e \in DOMAIN ss[c] : ss[c][e] = u
    BY <1>7, <2>1
  <2>4. Earlier(a, b, c, e)
    BY <2>1 DEF Earlier
  <2> QED
    BY <1>2, <1>5, <2>2, <2>3, <2>4 DEF FlatPlaces
<1>13. ASSUME NEW ns \in Spaces, NEW t \in Tables, NEW u \in Tables, InSeqBefore(TablesIn[ns], t, u)
       PROVE  InSeqBefore(z, t, u)
  <2>1. PICK k \in DOMAIN q : q[k] = ns
    BY <1>6
  <2>2. PICK b, e \in DOMAIN ss[k] : b < e /\ ss[k][b] = t /\ ss[k][e] = u
    BY <1>2, <1>13, <2>1 DEF InSeqBefore
  <2>3. Earlier(k, b, k, e)
    BY <2>2 DEF Earlier
  <2> QED
    BY <1>2, <1>5, <2>2, <2>3 DEF FlatPlaces
<1> QED
  BY <1>4, <1>9, <1>11, <1>12, <1>13 DEF z, q

-----------------------------------------------------------------------------
(* The order of a listing                                                  *)

\* The names in s follow the order w.
KeysFollow(what, s, w) ==
    \A i, j \in DOMAIN s : i < j => InSeqBefore(w, Key(what, s[i]), Key(what, s[j]))

\* Of two names in an order that has each once, one comes first.
LEMMA OneFirst ==
  ASSUME NEW X, NEW w \in Seq(X), \A i, j \in DOMAIN w : w[i] = w[j] => i = j, NEW x, NEW y,
         InSeqBefore(w, x, y), InSeqBefore(w, y, x)
  PROVE  FALSE
<1>1. PICK i, j \in DOMAIN w : i < j /\ w[i] = x /\ w[j] = y
  BY DEF InSeqBefore
<1>2. PICK k, l \in DOMAIN w : k < l /\ w[k] = y /\ w[l] = x
  BY DEF InSeqBefore
<1>3. i = l /\ j = k
  BY <1>1, <1>2
<1>4. i \in Int /\ j \in Int
  BY <1>1
<1> QED
  BY <1>1, <1>2, <1>3, <1>4

\* The names in s follow the order w, q holds those of p, and w each name once.
Follows(s, w) == \A i, j \in DOMAIN s : i < j => InSeqBefore(w, s[i], s[j])
HeldBy(q, p) == \A i \in DOMAIN p : \E j \in DOMAIN q : q[j] = p[i]
EachOnce(w) == \A i, j \in DOMAIN w : w[i] = w[j] => i = j

\* Two sequences that hold the same names in the order w are one.
LEMMA OneOrder ==
  ASSUME NEW X, NEW w \in Seq(X), NEW p \in Seq(X), NEW q \in Seq(X), EachOnce(w),
         Follows(p, w), Follows(q, w), HeldBy(q, p), HeldBy(p, q)
  PROVE  p = q
<1> USE DEF Follows, HeldBy, EachOnce
<1>1. /\ Len(p) \in Nat /\ DOMAIN p = 1 .. Len(p) /\ p = [i \in 1 .. Len(p) |-> p[i]]
      /\ Len(q) \in Nat /\ DOMAIN q = 1 .. Len(q) /\ q = [i \in 1 .. Len(q) |-> q[i]]
  OBVIOUS
<1>a. Len(p) \in Nat /\ DOMAIN p = 1 .. Len(p) /\ Len(q) \in Nat /\ DOMAIN q = 1 .. Len(q)
  BY <1>1
<1>2. \A x : ~InSeqBefore(w, x, x)
  BY OneFirst
<1>3. \A x, y : ~(InSeqBefore(w, x, y) /\ InSeqBefore(w, y, x))
  BY OneFirst
<1> DEFINE D == {i \in Nat : i \in DOMAIN p /\ i \in DOMAIN q /\ p[i] # q[i]}
<1>4. D = {}
  <2> SUFFICES ASSUME D # {} PROVE FALSE
    OBVIOUS
  <2>1. PICK i \in D : \A m \in D : i <= m
    <3>1. D \in SUBSET Nat
      OBVIOUS
    <3> HIDE DEF D
    <3> QED
      BY <3>1, LeastNumber
  <2>2. i \in Nat /\ i \in DOMAIN p /\ i \in DOMAIN q /\ p[i] # q[i]
    BY <2>1
  <2>3. ASSUME NEW m \in DOMAIN p, m \in DOMAIN q, m < i PROVE p[m] = q[m]
    <3>1. m \in Nat
      BY <1>a
    <3>2. ~(i <= m)
      BY <2>2, <2>3, <3>1
    <3> QED
      BY <2>1, <2>3, <3>1, <3>2
  <2> HIDE DEF D
  <2>4. PICK j \in DOMAIN q : q[j] = p[i]
    BY <2>2
  <2>5. PICK k \in DOMAIN p : p[k] = q[i]
    BY <2>2
  <2>6. i < j
    <3>1. i # j
      BY <2>2, <2>4
    <3>2. ASSUME j < i PROVE FALSE
      <4>1. j \in DOMAIN p
        BY <1>1, <2>2, <2>4, <3>2
      <4>2. p[j] = q[j]
        BY <2>3, <2>4, <3>2, <4>1
      <4>3. InSeqBefore(w, p[j], p[i])
        BY <2>2, <3>2, <4>1
      <4> QED
        BY <1>2, <2>4, <4>2, <4>3
    <3>3. j \in Int /\ i \in Int
      BY <1>1, <2>2, <2>4
    <3> QED
      BY <3>1, <3>2, <3>3
  <2>7. i < k
    <3>1. i # k
      BY <2>2, <2>5
    <3>2. ASSUME k < i PROVE FALSE
      <4>1. k \in DOMAIN q
        BY <1>1, <2>2, <2>5, <3>2
      <4>2. p[k] = q[k]
        BY <2>3, <2>5, <3>2, <4>1
      <4>3. InSeqBefore(w, q[k], q[i])
        BY <2>2, <3>2, <4>1
      <4> QED
        BY <1>2, <2>5, <4>2, <4>3
    <3>3. k \in Int /\ i \in Int
      BY <1>1, <2>2, <2>5
    <3> QED
      BY <3>1, <3>2, <3>3
  <2>8. InSeqBefore(w, q[i], p[i])
    BY <2>2, <2>4, <2>6
  <2>9. InSeqBefore(w, p[i], q[i])
    BY <2>2, <2>5, <2>7
  <2> QED
    BY <1>3, <2>8, <2>9
<1>5. \A i \in DOMAIN p : i \in DOMAIN q => p[i] = q[i]
  BY <1>1, <1>4
<1> HIDE DEF D
<1>6. ~(Len(p) < Len(q))
  <2> SUFFICES ASSUME Len(p) < Len(q) PROVE FALSE
    OBVIOUS
  <2> DEFINE n == Len(p) + 1
  <2>1. n \in DOMAIN q
    BY <1>1
  <2>2. PICK j \in DOMAIN p : p[j] = q[n]
    BY <2>1
  <2>3. j \in DOMAIN q /\ j < n
    BY <1>1, <2>1, <2>2
  <2>4. InSeqBefore(w, q[j], q[n])
    BY <2>1, <2>3
  <2> QED
    BY <1>2, <1>5, <2>2, <2>3, <2>4
<1>7. ~(Len(q) < Len(p))
  <2> SUFFICES ASSUME Len(q) < Len(p) PROVE FALSE
    OBVIOUS
  <2> DEFINE n == Len(q) + 1
  <2>1. n \in DOMAIN p
    BY <1>1
  <2>2. PICK j \in DOMAIN q : q[j] = p[n]
    BY <2>1
  <2>3. j \in DOMAIN p /\ j < n
    BY <1>1, <2>1, <2>2
  <2>4. InSeqBefore(w, p[j], p[n])
    BY <2>1, <2>3
  <2> QED
    BY <1>2, <1>5, <2>2, <2>3, <2>4
<1>8. Len(p) = Len(q)
  <2> DEFINE a == Len(p)  b == Len(q)
  <2>1. a \in Nat /\ b \in Nat /\ ~(a < b) /\ ~(b < a)
    BY <1>a, <1>6, <1>7
  <2> HIDE DEF a, b
  <2>2. a = b
    BY <2>1
  <2> QED
    BY <2>2 DEF a, b
<1> QED
  BY <1>1, <1>5, <1>8

\* The names of an answer come in the catalog's order.
LEMMA PageInOrder ==
  ASSUME NEW what \in Listings, NEW ns \in Spaces, NEW at \in 0 .. Len(Positions(what, ns)),
         NEW i \in DOMAIN PageItems(what, ns, at), NEW j \in DOMAIN PageItems(what, ns, at), i < j
  PROVE  InSeqBefore(Positions(what, ns), PageItems(what, ns, at)[i], PageItems(what, ns, at)[j])
<1> DEFINE all == Positions(what, ns)
           end == PageEnd(what, ns, at)
           names == PageItems(what, ns, at)
           X == NamesOf(what)
           sub == SubSeq(all, at + 1, end)
           T == {e \in ToSet(all) : Exists(what, e)}
<1>1. all \in Seq(X) /\ at \in Nat /\ end \in Nat /\ at <= end /\ end <= Len(all) /\ Len(all) \in Nat
  BY PositionsType, PageBounds
<1>2. names = Selected(sub, T)
  BY DEF PageItems
<1> HIDE DEF all, end, names, X, T
<1>3. /\ sub \in Seq(X) /\ DOMAIN sub = 1 .. end - at
      /\ \A k \in 1 .. end - at : sub[k] = all[at + k]
  <2>1. /\ sub \in Seq(X) /\ Len(sub) = end - at
        /\ \A k \in 1 .. end - at : sub[k] = all[at + k]
    BY <1>1
  <2> HIDE DEF sub
  <2> QED
    BY <2>1
<1> HIDE DEF sub
<1>4. OrderedOrigins(names, sub, DOMAIN sub)
  BY <1>2, <1>3, SelectedInOrder
<1>5. i \in DOMAIN names /\ j \in DOMAIN names
  BY DEF names
<1>6. PICK k, l \in DOMAIN sub : k < l /\ sub[k] = names[i] /\ sub[l] = names[j]
  BY <1>4, <1>5 DEF OrderedOrigins
<1>7. /\ at + k \in DOMAIN all /\ at + l \in DOMAIN all /\ at + k < at + l
      /\ all[at + k] = names[i] /\ all[at + l] = names[j]
  BY <1>1, <1>3, <1>6
<1>8. InSeqBefore(all, names[i], names[j])
  BY <1>7 DEF InSeqBefore
<1> QED
  BY <1>8 DEF all, names

\* What a page adds comes after what the listing holds.
LEMMA JobInOrder ==
  ASSUME NEW what \in Listings, NEW ns \in Spaces, NEW job, NEW stay, NEW X,
         JobOK(what, ns, job, stay, X), ~job.done,
         KeysFollow(what, job.items, Positions(what, ns)),
         NEW items \in Seq(X),
         DOMAIN items = DOMAIN PageItems(what, ns, job.at),
         \A i \in DOMAIN items : Key(what, items[i]) = PageItems(what, ns, job.at)[i]
  PROVE  KeysFollow(what, job.items \o items, Positions(what, ns))
<1> DEFINE at == job.at
           old == job.items
           all == Positions(what, ns)
           names == PageItems(what, ns, at)
           z == old \o items
<1>1. at \in 0 .. Len(all) /\ old \in Seq(X) /\ Covered(what, ns, job) = at
      /\ \A i \in DOMAIN old : \E p \in 1 .. at : all[p] = Key(what, old[i])
  BY DEF JobOK, Covered
<1>2. Len(all) \in Nat /\ all \in Seq(NamesOf(what)) /\ at \in Nat /\ at <= Len(all) /\ DOMAIN all = 1 .. Len(all)
  BY <1>1, PositionsType
<1>3. PageEnd(what, ns, at) \in at .. Len(all)
  BY <1>1, PageBounds
<1>4. \A i \in DOMAIN items : \E p \in at + 1 .. PageEnd(what, ns, at) : all[p] = Key(what, items[i])
  <2>1. \A i \in DOMAIN names : \E p \in at + 1 .. PageEnd(what, ns, at) : all[p] = names[i]
    BY <1>1, PageNames
  <2>2. DOMAIN items = DOMAIN names /\ \A i \in DOMAIN items : Key(what, items[i]) = names[i]
    OBVIOUS
  <2> HIDE DEF names, all, at
  <2> QED
    BY <2>1, <2>2
<1>5. \A i, j \in DOMAIN items : i < j => InSeqBefore(all, Key(what, items[i]), Key(what, items[j]))
  BY <1>1, PageInOrder
<1>6. \A i, j \in DOMAIN old : i < j => InSeqBefore(all, Key(what, old[i]), Key(what, old[j]))
  BY DEF KeysFollow
<1> HIDE DEF at, old, all, names
<1>7. /\ \A i \in DOMAIN z : \/ i \in DOMAIN old /\ z[i] = old[i]
                             \/ \E j \in DOMAIN items : i = Len(old) + j /\ z[i] = items[j]
  BY <1>1, Concatenated
<1>8. /\ DOMAIN old = 1 .. Len(old) /\ Len(old) \in Nat /\ DOMAIN items = 1 .. Len(items) /\ Len(items) \in Nat
  BY <1>1
<1> HIDE DEF z
<1>9. ASSUME NEW i \in DOMAIN z, NEW j \in DOMAIN z, i < j
      PROVE  InSeqBefore(all, Key(what, z[i]), Key(what, z[j]))
  <2>1. CASE i \in DOMAIN old /\ z[i] = old[i] /\ j \in DOMAIN old /\ z[j] = old[j]
    BY <1>6, <1>9, <2>1
  <2>2. CASE /\ i \in DOMAIN old /\ z[i] = old[i]
             /\ \E b \in DOMAIN items : j = Len(old) + b /\ z[j] = items[b]
    <3>1. PICK b \in DOMAIN items : z[j] = items[b]
      BY <2>2
    <3>2. PICK p \in 1 .. at : all[p] = Key(what, z[i])
      BY <1>1, <2>2
    <3>3. PICK r \in at + 1 .. PageEnd(what, ns, at) : all[r] = Key(what, z[j])
      BY <1>4, <3>1
    <3>4. p \in DOMAIN all /\ r \in DOMAIN all /\ p < r
      BY <1>2, <1>3, <3>2, <3>3
    <3> QED
      BY <3>2, <3>3, <3>4 DEF InSeqBefore
  <2>3. CASE /\ j \in DOMAIN old /\ z[j] = old[j]
             /\ \E b \in DOMAIN items : i = Len(old) + b /\ z[i] = items[b]
    <3>1. PICK b \in DOMAIN items : i = Len(old) + b
      BY <2>3
    <3>2. ~(i < j)
      BY <1>8, <2>3, <3>1
    <3> QED
      BY <1>9, <3>2
  <2>4. CASE /\ \E b \in DOMAIN items : i = Len(old) + b /\ z[i] = items[b]
             /\ \E b \in DOMAIN items : j = Len(old) + b /\ z[j] = items[b]
    <3>1. PICK b \in DOMAIN items : i = Len(old) + b /\ z[i] = items[b]
      BY <2>4
    <3>2. PICK e \in DOMAIN items : j = Len(old) + e /\ z[j] = items[e]
      BY <2>4
    <3>3. b < e
      BY <1>8, <1>9, <3>1, <3>2
    <3> QED
      BY <1>5, <3>1, <3>2, <3>3
  <2> QED
    BY <1>7, <2>1, <2>2, <2>3, <2>4
<1> QED
  BY <1>9 DEF KeysFollow, z, old, all

\* The order of a level gives the order of the next.
LEMMA NextLevelOrder ==
  ASSUME NEW d \in Nat
  PROVE  /\ \A a, c \in Spaces : \A x \in ToSet(ChildrenIn[a]), y \in ToSet(ChildrenIn[c]) :
              InSeqBefore(LevelAt[d], a, c) => InSeqBefore(LevelAt[d + 1], x, y)
         /\ \A a \in Spaces : \A x, y : Depth[a] = d /\ InSeqBefore(ChildrenIn[a], x, y)
              => InSeqBefore(LevelAt[d + 1], x, y)
<1> DEFINE q == LevelAt[d]
           ss == [k \in DOMAIN q |-> ChildrenIn[q[k]]]
           z == LevelAt[d + 1]
<1>1. q \in Seq(Spaces) /\ z = FlattenSeq(ss) /\ LevelIs(d)
  BY LevelsAre, LevelsHold DEF ChildrenOf
<1>2. DOMAIN ss = DOMAIN q /\ ss \in Seq(Seq(Spaces)) /\ \A k \in DOMAIN q : ss[k] = ChildrenIn[q[k]]
  <2> HIDE DEF q
  <2> QED
    BY <1>1, ChildParts
<1>3. \A ns \in Spaces : Depth[ns] = d => \E k \in DOMAIN q : q[k] = ns
  BY <1>1 DEF LevelIs
<1> HIDE DEF z, ss, q
<1>4. FlatPlaces(z, ss, DOMAIN ss)
  BY <1>1, <1>2, FlatInOrder
<1>5. ASSUME NEW a \in Spaces, NEW c \in Spaces, NEW x \in ToSet(ChildrenIn[a]), NEW y \in ToSet(ChildrenIn[c]),
             InSeqBefore(q, a, c)
      PROVE  InSeqBefore(z, x, y)
  <2>1. PICK k, l \in DOMAIN q : k < l /\ q[k] = a /\ q[l] = c
    BY <1>5 DEF InSeqBefore
  <2>2. PICK b \in DOMAIN ss[k] : ss[k][b] = x
    BY <1>2, <2>1 DEF ToSet
  <2>3. PICK e \in DOMAIN ss[l] : ss[l][e] = y
    BY <1>2, <2>1 DEF ToSet
  <2>4. Earlier(k, b, l, e)
    BY <2>1 DEF Earlier
  <2> QED
    BY <1>2, <1>4, <2>2, <2>3, <2>4 DEF FlatPlaces
<1>6. ASSUME NEW a \in Spaces, NEW x, NEW y, Depth[a] = d, InSeqBefore(ChildrenIn[a], x, y)
      PROVE  InSeqBefore(z, x, y)
  <2>1. PICK k \in DOMAIN q : q[k] = a
    BY <1>3, <1>6
  <2>2. PICK b, e \in DOMAIN ss[k] : b < e /\ ss[k][b] = x /\ ss[k][e] = y
    BY <1>2, <1>6, <2>1 DEF InSeqBefore
  <2>3. Earlier(k, b, k, e)
    BY <2>2 DEF Earlier
  <2> QED
    BY <1>2, <1>4, <2>2, <2>3 DEF FlatPlaces
<1> QED
  BY <1>5, <1>6 DEF q, z

\* A level, its listings and what was found above it follow the walk.
LevelInOrder(lv, pg, fd) ==
    /\ \A k \in DOMAIN lv :
         /\ KeysFollow("spaces", lv, LevelAt[Depth[lv[k]]])
         /\ KeysFollow("tables", pg[k].tables.items, Positions("tables", lv[k]))
         /\ KeysFollow("spaces", pg[k].spaces.items, Positions("spaces", lv[k]))
    /\ KeysFollow("tables", fd, TablesInOrder)

\* A call that does not descend stays with the root.
StaysFlat(lv, pg, fd) ==
    /\ \A k \in DOMAIN lv : lv[k] = Root /\ pg[k].spaces.done /\ pg[k].spaces.items = <<>>
    /\ \A i \in DOMAIN fd : SpaceOf(fd[i].table) = Root

\* The order of everything listed so far, and what a catalog nobody changed held.
OrderOK ==
    /\ phase = "listing" => /\ LevelInOrder(level, pages, found)
                            /\ ~descend => StaysFlat(level, pages, found)
    /\ KeysFollow("tables", picks, TablesInOrder)
    /\ \A k \in DOMAIN picks : InReach(picks[k].table)
    /\ changes \in Nat
    /\ changes = 0 => \A t \in Tables : held[t] = {status[t]}

\* The listings of a level, joined, follow every order that keeps the order of the
\* level and that of each listing.
LEMMA LevelFollows ==
  ASSUME NEW d \in Nat, LevelOK(d, level, pages, found, Steady, Needed, Witnessed),
         \A k \in DOMAIN level : Complete(k), LevelInOrder(level, pages, found),
         NEW what \in Listings, NEW w,
         \A a, c \in DOMAIN level : a < c =>
           \A x \in ToSet(Positions(what, level[a])), y \in ToSet(Positions(what, level[c])) : InSeqBefore(w, x, y),
         \A a \in DOMAIN level : \A x, y \in ToSet(Positions(what, level[a])) :
           InSeqBefore(Positions(what, level[a]), x, y) => InSeqBefore(w, x, y)
  PROVE  KeysFollow(what, FlattenSeq(ListedOf(what)), w)
<1> DEFINE ss == ListedOf(what)
           X == IF what = "tables" THEN Witnessed ELSE Spaces
           z == FlattenSeq(ss)
<1>1. level \in Seq(Spaces)
  BY DEF LevelOK
<1>2. ASSUME NEW k \in DOMAIN level
      PROVE  /\ ss[k] \in Seq(X)
             /\ \A b \in DOMAIN ss[k] : Key(what, ss[k][b]) \in ToSet(Positions(what, level[k]))
  BY ListingComplete
<1>3. DOMAIN ss = DOMAIN level /\ ss \in Seq(Seq(X))
  <2>1. DOMAIN level = 1 .. Len(level) /\ Len(level) \in Nat
    BY <1>1
  <2>2. DOMAIN ss = DOMAIN level /\ ss = [k \in DOMAIN level |-> ss[k]]
    BY DEF ListedOf
  <2> HIDE DEF ss, X
  <2>3. ss \in [1 .. Len(level) -> Seq(X)]
    BY <1>2, <2>1, <2>2
  <2> QED
    BY <2>1, <2>2, <2>3
<1>4. \A k \in DOMAIN level : KeysFollow(what, ss[k], Positions(what, level[k]))
  BY DEF LevelInOrder, ListedOf, Listings
<1> HIDE DEF ss, X, z
<1>5. FlatOrigins(z, ss, DOMAIN ss)
  BY <1>3, FlatInOrder DEF z
<1>6. ASSUME NEW i \in DOMAIN z, NEW j \in DOMAIN z, i < j
      PROVE  InSeqBefore(w, Key(what, z[i]), Key(what, z[j]))
  <2>1. PICK a \in DOMAIN level, c \in DOMAIN level : \E b \in DOMAIN ss[a], e \in DOMAIN ss[c] :
           Earlier(a, b, c, e) /\ ss[a][b] = z[i] /\ ss[c][e] = z[j]
    BY <1>3, <1>5, <1>6 DEF FlatOrigins
  <2>2. PICK b \in DOMAIN ss[a], e \in DOMAIN ss[c] : Earlier(a, b, c, e) /\ ss[a][b] = z[i] /\ ss[c][e] = z[j]
    BY <2>1
  <2>3. /\ Key(what, z[i]) \in ToSet(Positions(what, level[a]))
        /\ Key(what, z[j]) \in ToSet(Positions(what, level[c]))
    BY <1>2, <2>2
  <2>4. CASE a < c
    BY <2>3, <2>4
  <2>5. CASE a = c /\ b < e
    <3>1. InSeqBefore(Positions(what, level[a]), Key(what, z[i]), Key(what, z[j]))
      BY <1>4, <2>2, <2>5 DEF KeysFollow
    <3> QED
      BY <2>3, <2>5, <3>1
  <2> QED
    BY <2>2, <2>4, <2>5 DEF Earlier
<1> QED
  BY <1>6 DEF KeysFollow, z, ss

\* The namespaces of the next level follow the walk.
LEMMA SpacesFollow ==
  ASSUME NEW d \in Nat, LevelOK(d, level, pages, found, Steady, Needed, Witnessed),
         \A k \in DOMAIN level : Complete(k), LevelInOrder(level, pages, found)
  PROVE  KeysFollow("spaces", LevelSpaces, LevelAt[d + 1])
<1> DEFINE w == LevelAt[d + 1]
<1>1. \A ns : Positions("spaces", ns) = ChildrenIn[ns]
  BY DEF Positions
<1>2. \A k \in DOMAIN level : level[k] \in Spaces /\ Depth[level[k]] = d
  BY DEF LevelOK
<1>3. \A a, c \in DOMAIN level : a < c => InSeqBefore(LevelAt[d], level[a], level[c])
  BY <1>2 DEF LevelInOrder, KeysFollow, Key
<1>4. \A a, c \in DOMAIN level : a < c =>
        \A x \in ToSet(Positions("spaces", level[a])), y \in ToSet(Positions("spaces", level[c])) : InSeqBefore(w, x, y)
  BY <1>1, <1>2, <1>3, NextLevelOrder
<1>5. \A a \in DOMAIN level : \A x, y \in ToSet(Positions("spaces", level[a])) :
        InSeqBefore(Positions("spaces", level[a]), x, y) => InSeqBefore(w, x, y)
  BY <1>1, <1>2, NextLevelOrder
<1> HIDE DEF w
<1>6. KeysFollow("spaces", FlattenSeq(ListedOf("spaces")), w)
  BY <1>4, <1>5, LevelFollows DEF Listings
<1> QED
  BY <1>6, LevelNames DEF w

\* The tables found down to the level follow the walk.
LEMMA TablesFollow ==
  ASSUME NEW d \in Nat, LevelOK(d, level, pages, found, Steady, Needed, Witnessed),
         \A k \in DOMAIN level : Complete(k), LevelInOrder(level, pages, found)
  PROVE  KeysFollow("tables", found \o LevelTables, TablesInOrder)
<1> DEFINE w == TablesInOrder
           q == LevelTables
           z == found \o q
<1>1. \A ns : Positions("tables", ns) = TablesIn[ns]
  BY DEF Positions
<1>2. \A k \in DOMAIN level : level[k] \in Spaces /\ Depth[level[k]] = d
  BY DEF LevelOK
<1>3. \A a, c \in DOMAIN level : a < c => InSeqBefore(BreadthFirst, level[a], level[c])
  BY <1>2, WalkOfSpaces DEF LevelInOrder, KeysFollow, Key
<1>4. \A k \in DOMAIN level : \A x \in ToSet(TablesIn[level[k]]) : x \in Tables /\ SpaceOf(x) = level[k]
  BY <1>2, TableSpace
<1>5. \A a, c \in DOMAIN level : a < c =>
        \A x \in ToSet(Positions("tables", level[a])), y \in ToSet(Positions("tables", level[c])) : InSeqBefore(w, x, y)
  BY <1>1, <1>3, <1>4, WalkOfTables
<1>6. \A a \in DOMAIN level : \A x, y \in ToSet(Positions("tables", level[a])) :
        InSeqBefore(Positions("tables", level[a]), x, y) => InSeqBefore(w, x, y)
  BY <1>1, <1>2, <1>4, WalkOfTables
<1>7. KeysFollow("tables", FlattenSeq(ListedOf("tables")), w)
  <2> HIDE DEF w
  <2> QED
    BY <1>5, <1>6, LevelFollows DEF Listings
<1>8. KeysFollow("tables", q, w) /\ KeysFollow("tables", found, w)
  BY <1>7, LevelNames DEF LevelInOrder
<1>9. /\ q \in Seq(Witnessed)
      /\ \A i \in DOMAIN q : \E k \in DOMAIN level : q[i].table \in ToSet(TablesIn[level[k]])
  <2>1. LET flat == FlattenSeq(ListedOf("tables"))
        IN  /\ flat \in Seq(Witnessed)
            /\ \A i \in DOMAIN flat : \E k \in DOMAIN level : Key("tables", flat[i]) \in ToSet(Positions("tables", level[k]))
    BY LevelListed DEF Listings
  <2> QED
    BY <1>1, <2>1, LevelNames DEF Key
<1>10. found \in Seq(Witnessed) /\ \A i \in DOMAIN found : found[i] \in Witnessed /\ Depth[SpaceOf(found[i].table)] < d
  BY DEF LevelOK
<1>11. ASSUME NEW i \in DOMAIN found, NEW j \in DOMAIN q PROVE InSeqBefore(w, found[i].table, q[j].table)
  <2>1. PICK k \in DOMAIN level : q[j].table \in ToSet(TablesIn[level[k]])
    BY <1>9
  <2>2. q[j].table \in Tables /\ SpaceOf(q[j].table) = level[k] /\ Depth[level[k]] = d /\ level[k] \in Spaces
    BY <1>2, <1>4, <2>1
  <2>3. found[i].table \in Tables
    BY <1>10 DEF Witnessed, Entry
  <2>4. InSeqBefore(BreadthFirst, SpaceOf(found[i].table), SpaceOf(q[j].table))
    BY <1>10, <2>2, <2>3, TableSpace, WalkOfSpaces
  <2> QED
    BY <2>2, <2>3, <2>4, WalkOfTables
<1> HIDE DEF w, q
<1>12. \A i \in DOMAIN z : \/ i \in DOMAIN found /\ z[i] = found[i]
                           \/ \E j \in DOMAIN q : i = Len(found) + j /\ z[i] = q[j]
  BY <1>9, <1>10, Concatenated
<1>13. DOMAIN found = 1 .. Len(found) /\ Len(found) \in Nat /\ DOMAIN q = 1 .. Len(q) /\ Len(q) \in Nat
  BY <1>9, <1>10
<1> HIDE DEF z
<1>14. ASSUME NEW i \in DOMAIN z, NEW j \in DOMAIN z, i < j PROVE InSeqBefore(w, z[i].table, z[j].table)
  <2>1. CASE i \in DOMAIN found /\ z[i] = found[i] /\ j \in DOMAIN found /\ z[j] = found[j]
    BY <1>8, <1>14, <2>1 DEF KeysFollow, Key
  <2>2. CASE i \in DOMAIN found /\ z[i] = found[i] /\ \E b \in DOMAIN q : j = Len(found) + b /\ z[j] = q[b]
    BY <1>11, <2>2
  <2>3. CASE j \in DOMAIN found /\ \E b \in DOMAIN q : i = Len(found) + b /\ z[i] = q[b]
    <3>1. PICK b \in DOMAIN q : i = Len(found) + b
      BY <2>3
    <3>2. ~(i < j)
      BY <1>13, <2>3, <3>1
    <3> QED
      BY <1>14, <3>2
  <2>4. CASE /\ \E b \in DOMAIN q : i = Len(found) + b /\ z[i] = q[b]
             /\ \E b \in DOMAIN q : j = Len(found) + b /\ z[j] = q[b]
    <3>1. PICK b \in DOMAIN q : i = Len(found) + b /\ z[i] = q[b]
      BY <2>4
    <3>2. PICK e \in DOMAIN q : j = Len(found) + e /\ z[j] = q[e]
      BY <2>4
    <3>3. b < e
      BY <1>13, <1>14, <3>1, <3>2
    <3> QED
      BY <1>8, <3>1, <3>2, <3>3 DEF KeysFollow, Key
  <2> QED
    BY <1>12, <2>1, <2>2, <2>3, <2>4
<1> QED
  BY <1>14 DEF KeysFollow, Key, z, q, w

\* A call that does not descend lists no namespace below the root, and its tables
\* are the root's.
LEMMA FlatListing ==
  ASSUME NEW d \in Nat, LevelOK(d, level, pages, found, Steady, Needed, Witnessed),
         \A k \in DOMAIN level : Complete(k), StaysFlat(level, pages, found)
  PROVE  /\ LevelSpaces = <<>>
         /\ \A i \in DOMAIN (found \o LevelTables) : SpaceOf((found \o LevelTables)[i].table) = Root
<1>1. \A k \in DOMAIN level : level[k] = Root /\ ListedOf("spaces")[k] = <<>>
  BY DEF StaysFlat, ListedOf
<1>2. level \in Seq(Spaces) /\ DOMAIN ListedOf("spaces") = DOMAIN level
      /\ ListedOf("spaces") = [k \in DOMAIN level |-> ListedOf("spaces")[k]]
  BY DEF LevelOK, ListedOf
<1>3. ListedOf("spaces") \in Seq(Seq(Spaces))
  <2> DEFINE ss == ListedOf("spaces")
  <2>1. DOMAIN level = 1 .. Len(level) /\ Len(level) \in Nat
    BY <1>2
  <2>2. \A k \in DOMAIN level : ss[k] \in Seq(Spaces)
    <3>1. <<>> \in Seq(Spaces)
      OBVIOUS
    <3>2. \A k \in DOMAIN level : ss[k] = <<>>
      BY <1>1
    <3> HIDE DEF ss
    <3> QED
      BY <3>1, <3>2
  <2> HIDE DEF ss
  <2>a. DOMAIN ss = DOMAIN level /\ ss = [k \in DOMAIN level |-> ss[k]]
    BY <1>2 DEF ss
  <2>3. ss \in [1 .. Len(level) -> Seq(Spaces)]
    BY <2>1, <2>2, <2>a
  <2>4. ss \in Seq(Seq(Spaces))
    BY <2>1, <2>3
  <2> QED
    BY <2>4 DEF ss
<1>4. LevelSpaces = <<>>
  <2> DEFINE ss == ListedOf("spaces")  z == FlattenSeq(ss)
  <2>1. z \in Seq(Spaces) /\ FlatFrom(z, ss, DOMAIN ss)
    BY <1>3, Flattened
  <2>2. \A a \in DOMAIN ss : DOMAIN ss[a] = {}
    BY <1>1, <1>2
  <2>3. z = LevelSpaces
    BY LevelNames
  <2> HIDE DEF z, ss
  <2>4. DOMAIN z = {}
    BY <2>1, <2>2 DEF FlatFrom
  <2>5. z = <<>>
    BY <2>1, <2>4
  <2> QED
    BY <2>3, <2>5
<1> DEFINE q == LevelTables
           z == found \o q
<1>5. /\ q \in Seq(Witnessed)
      /\ \A i \in DOMAIN q : \E k \in DOMAIN level : q[i].table \in ToSet(TablesIn[level[k]])
  <2>1. LET flat == FlattenSeq(ListedOf("tables"))
        IN  /\ flat \in Seq(Witnessed)
            /\ \A i \in DOMAIN flat : \E k \in DOMAIN level : Key("tables", flat[i]) \in ToSet(Positions("tables", level[k]))
    BY LevelListed DEF Listings
  <2> QED
    BY <2>1, LevelNames DEF Key, Positions
<1>6. \A i \in DOMAIN q : SpaceOf(q[i].table) = Root
  BY <1>1, <1>5, TableSpace, ListingAssumption
<1>7. found \in Seq(Witnessed) /\ \A i \in DOMAIN found : SpaceOf(found[i].table) = Root
  BY DEF LevelOK, StaysFlat
<1> HIDE DEF q
<1>8. \A i \in DOMAIN z : \/ i \in DOMAIN found /\ z[i] = found[i]
                          \/ \E j \in DOMAIN q : i = Len(found) + j /\ z[i] = q[j]
  BY <1>5, <1>7, Concatenated
<1> HIDE DEF z
<1>9. \A i \in DOMAIN z : SpaceOf(z[i].table) = Root
  BY <1>6, <1>7, <1>8
<1> QED
  BY <1>4, <1>9 DEF z, q

\* While a level is listed the order of everything else stays.
LEMMA LevelKeepsOrder ==
  ASSUME OrderOK, phase = "listing", UNCHANGED <<call, catalog, phase, loading, culprit>>,
         LevelInOrder(level', pages', found'), ~descend => StaysFlat(level', pages', found')
  PROVE  OrderOK'
<1>1. phase' = phase /\ picks' = picks
  BY DEF loading
<1>2. kind' = kind /\ held' = held /\ status' = status /\ changes' = changes
  BY DEF call, catalog
<1>3. descend' = descend /\ \A t : InReach(t)' = InReach(t)
  BY <1>2 DEF descend, InReach
<1> QED
  BY <1>1, <1>2, <1>3 DEF OrderOK

\* An answered page keeps the order.
LEMMA PageKeepsOrder ==
  ASSUME IInv, OrderOK, NEW k \in DOMAIN level, NEW what \in Listings, Page(k, what)
  PROVE  OrderOK'
<1> DEFINE ns == level[k]
           job == pages[k][what]
           names == PageItems(what, ns, job.at)
           token == PageToken(what, ns, job.at)
           items == [i \in DOMAIN names |->
                       IF what = "spaces" THEN names[i]
                       ELSE [table |-> names[i],
                             info |-> IF carries_info THEN status[names[i]] ELSE "name"]]
           next == NextJob(job, names, token, items)
<1>1. /\ phase = "listing" /\ ~job.done
      /\ pages' = [pages EXCEPT ![k][what] = next]
      /\ UNCHANGED <<call, catalog, phase, level, found, loading, culprit>>
  BY DEF Page, NextJob
<1>2. PICK d \in Nat : LevelOK(d, level, pages, found, Steady, Needed, Witnessed)
  BY <1>1 DEF IInv, ListingOK
<1>3. ns \in Spaces /\ DOMAIN pages = DOMAIN level /\ SpaceOK(ns, pages[k], Steady, Needed, Witnessed)
  BY <1>2 DEF LevelOK
<1>4. /\ pages[k] = [tables |-> pages[k].tables, spaces |-> pages[k].spaces, failed |-> pages[k].failed]
      /\ JobOK("tables", ns, pages[k].tables, Steady, Witnessed)
      /\ JobOK("spaces", ns, pages[k].spaces, Needed, Spaces)
  BY <1>3 DEF SpaceOK
<1>5. PICK stay, X : JobOK(what, ns, job, stay, X)
  BY <1>4 DEF Listings
<1>6. LevelInOrder(level, pages, found) /\ (~descend => StaysFlat(level, pages, found))
  BY <1>1 DEF OrderOK
<1>7. KeysFollow(what, job.items, Positions(what, ns))
  BY <1>6 DEF LevelInOrder, Listings
<1>8. job.at \in 0 .. Len(Positions(what, ns)) /\ names \in Seq(NamesOf(what))
  <2>1. job.at \in 0 .. Len(Positions(what, ns))
    BY <1>5 DEF JobOK
  <2> HIDE DEF ns, job
  <2> QED
    BY <1>3, <2>1, PageNames DEF ns
<1>9. DOMAIN items = DOMAIN names /\ \A i \in DOMAIN items : Key(what, items[i]) = names[i]
  <2> HIDE DEF names
  <2> QED
    BY DEF Key, Listings
<1>10. PICK Y : job.items \in Seq(Y) /\ items \in Seq(Y) /\ JobOK(what, ns, job, stay, Y)
  <2> DEFINE Y == X \cup {items[i] : i \in DOMAIN items}
  <2>1. DOMAIN names = 1 .. Len(names) /\ Len(names) \in Nat
    <3> HIDE DEF names
    <3> QED
      BY <1>8
  <2>2. items \in [1 .. Len(names) -> Y]
    <3>1. items = [i \in DOMAIN items |-> items[i]] /\ \A i \in DOMAIN items : items[i] \in Y
      OBVIOUS
    <3> HIDE DEF items, Y, names
    <3> QED
      BY <1>9, <2>1, <3>1
  <2>3. items \in Seq(Y)
    <3> HIDE DEF items, Y, names
    <3> QED
      BY <2>1, <2>2
  <2>4. job.items \in Seq(Y)
    <3>1. job.items \in Seq(X)
      BY <1>5 DEF JobOK
    <3>2. X \subseteq Y
      OBVIOUS
    <3> HIDE DEF Y, job
    <3> QED
      BY <3>1, <3>2, WiderSeq
  <2>5. JobOK(what, ns, job, stay, Y)
    <3> HIDE DEF Y, ns, job
    <3> QED
      BY <1>5, <2>4 DEF JobOK
  <2> QED
    BY <2>3, <2>4, <2>5
<1>11. KeysFollow(what, job.items \o items, Positions(what, ns))
  <2> HIDE DEF ns, job, items
  <2> QED
    BY <1>1, <1>3, <1>7, <1>9, <1>10, JobInOrder DEF ns
<1>12. next.items = job.items \o items
  BY DEF NextJob
<1> HIDE DEF next
<1>13. DOMAIN pages' = DOMAIN pages /\ \A i \in DOMAIN pages : i # k => pages'[i] = pages[i]
  BY <1>1
<1>14. pages'[k] = [pages[k] EXCEPT ![what] = next]
  BY <1>1, <1>3
<1>15. /\ KeysFollow("tables", pages'[k].tables.items, Positions("tables", ns))
       /\ KeysFollow("spaces", pages'[k].spaces.items, Positions("spaces", ns))
       /\ what = "tables" => pages'[k].spaces = pages[k].spaces
  <2>0. /\ KeysFollow("tables", pages[k].tables.items, Positions("tables", ns))
        /\ KeysFollow("spaces", pages[k].spaces.items, Positions("spaces", ns))
    BY <1>6 DEF LevelInOrder
  <2>1. CASE what = "tables"
    <3>1. pages'[k] = [tables |-> next, spaces |-> pages[k].spaces, failed |-> pages[k].failed]
      BY <1>4, <1>14, <2>1
    <3>2. pages'[k].tables = next /\ pages'[k].spaces = pages[k].spaces
      BY <3>1
    <3> QED
      BY <1>11, <1>12, <2>0, <2>1, <3>2
  <2>2. CASE what = "spaces"
    <3>1. pages'[k] = [tables |-> pages[k].tables, spaces |-> next, failed |-> pages[k].failed]
      BY <1>4, <1>14, <2>2
    <3>2. pages'[k].tables = pages[k].tables /\ pages'[k].spaces = next
      BY <3>1
    <3> QED
      BY <1>11, <1>12, <2>0, <2>2, <3>2
  <2> QED
    BY <2>1, <2>2 DEF Listings
<1>16. level' = level /\ found' = found
  BY <1>1
<1>17. LevelInOrder(level', pages', found')
  <2>1. ASSUME NEW i \in DOMAIN level
        PROVE  /\ KeysFollow("tables", pages'[i].tables.items, Positions("tables", level[i]))
               /\ KeysFollow("spaces", pages'[i].spaces.items, Positions("spaces", level[i]))
    <3>1. CASE i = k
      BY <1>15, <3>1
    <3>2. CASE i # k
      <4>1. pages'[i] = pages[i]
        BY <1>3, <1>13, <3>2
      <4> QED
        BY <1>6, <4>1 DEF LevelInOrder
    <3> QED
      BY <3>1, <3>2
  <2> QED
    BY <1>6, <1>16, <2>1 DEF LevelInOrder
<1>18. ASSUME ~descend PROVE StaysFlat(level', pages', found')
  <2>1. StaysFlat(level, pages, found)
    BY <1>6, <1>18
  <2>2. what = "tables"
    <3>1. pages[k].spaces.done
      BY <2>1 DEF StaysFlat
    <3> QED
      BY <1>1, <3>1 DEF Listings
  <2>3. \A i \in DOMAIN level : pages'[i].spaces = pages[i].spaces
    BY <1>3, <1>13, <1>15, <2>2
  <2> QED
    BY <1>16, <2>1, <2>3 DEF StaysFlat
<1> QED
  BY <1>1, <1>17, <1>18, LevelKeepsOrder

\* A page that fails keeps the order.
LEMMA FailureKeepsOrder ==
  ASSUME IInv, OrderOK, NEW k \in DOMAIN level, phase = "listing",
         pages' = [pages EXCEPT ![k].failed = TRUE],
         UNCHANGED <<call, catalog, phase, level, found, loading, culprit>>
  PROVE  OrderOK'
<1>1. PICK d \in Nat : LevelOK(d, level, pages, found, Steady, Needed, Witnessed)
  BY DEF IInv, ListingOK
<1>2. DOMAIN pages = DOMAIN level /\ SpaceOK(level[k], pages[k], Steady, Needed, Witnessed)
  BY <1>1 DEF LevelOK
<1>3. DOMAIN pages' = DOMAIN pages /\ \A i \in DOMAIN pages : i # k => pages'[i] = pages[i]
  OBVIOUS
<1>4. pages'[k] = [pages[k] EXCEPT !.failed = TRUE]
  BY <1>2
<1>5. pages[k] = [tables |-> pages[k].tables, spaces |-> pages[k].spaces, failed |-> pages[k].failed]
  BY <1>2 DEF SpaceOK
<1>6. pages'[k] = [tables |-> pages[k].tables, spaces |-> pages[k].spaces, failed |-> TRUE]
  BY <1>4, <1>5, ZenonT(40)
<1>7. pages'[k].tables = pages[k].tables /\ pages'[k].spaces = pages[k].spaces
  BY <1>6
<1>8. \A i \in DOMAIN level : pages'[i].tables = pages[i].tables /\ pages'[i].spaces = pages[i].spaces
  BY <1>2, <1>3, <1>7
<1>9. LevelInOrder(level, pages, found) /\ (~descend => StaysFlat(level, pages, found))
  BY DEF OrderOK
<1>10. LevelInOrder(level', pages', found')
  BY <1>8, <1>9 DEF LevelInOrder
<1>11. ~descend => StaysFlat(level', pages', found')
  BY <1>8, <1>9 DEF StaysFlat
<1> QED
  BY <1>10, <1>11, LevelKeepsOrder

\* The descent to the next level keeps the order.
LEMMA DescentKeepsOrder ==
  ASSUME IInv, OrderOK, NextLevel
  PROVE  OrderOK'
<1>1. /\ phase = "listing" /\ \A k \in DOMAIN level : Complete(k)
      /\ LevelSpaces # <<>>
      /\ found' = found \o LevelTables /\ level' = LevelSpaces
      /\ pages' = [k \in DOMAIN LevelSpaces |-> FirstPages]
      /\ UNCHANGED <<call, catalog, phase, loading, culprit>>
  BY DEF NextLevel
<1>2. PICK d \in Nat : LevelOK(d, level, pages, found, Steady, Needed, Witnessed)
  BY <1>1 DEF IInv, ListingOK
<1>3. LevelInOrder(level, pages, found) /\ (~descend => StaysFlat(level, pages, found))
  BY <1>1 DEF OrderOK
<1>4. KeysFollow("spaces", level', LevelAt[d + 1]) /\ KeysFollow("tables", found', TablesInOrder)
  BY <1>1, <1>2, <1>3, SpacesFollow, TablesFollow
<1>5. \A k \in DOMAIN level' : Depth[level'[k]] = d + 1 /\ pages'[k] = FirstPages
  BY <1>1, <1>2, SpacesBelow
<1>6. FirstPages.tables.items = <<>> /\ FirstPages.spaces.items = <<>>
  BY DEF FirstPages, NotListed, NothingToList
<1>7. \A what, w : KeysFollow(what, <<>>, w)
  BY DEF KeysFollow
<1>8. LevelInOrder(level', pages', found')
  BY <1>4, <1>5, <1>6, <1>7 DEF LevelInOrder
<1>9. descend
  BY <1>1, <1>2, <1>3, FlatListing
<1> QED
  BY <1>1, <1>8, <1>9, LevelKeepsOrder

\* The picks come in the order of the walk.
LEMMA PicksFollow ==
  ASSUME IInv, OrderOK, ListingEnds
  PROVE  OrderOK'
<1> DEFINE all == found \o LevelTables
           T == {e \in ToSet(all) : e.table \in Exposed}
<1>1. /\ phase = "listing" /\ \A k \in DOMAIN level : Complete(k)
      /\ phase' = "loading" /\ picks' = Selected(all, T)
      /\ UNCHANGED <<call, catalog>>
  BY DEF ListingEnds, exposed_only
<1>2. PICK d \in Nat : LevelOK(d, level, pages, found, Steady, Needed, Witnessed)
  BY <1>1 DEF IInv, ListingOK
<1>3. LevelInOrder(level, pages, found) /\ (~descend => StaysFlat(level, pages, found))
  BY <1>1 DEF OrderOK
<1>4. all \in Seq(Witnessed)
  BY <1>1, <1>2, TablesSoFar
<1>5. KeysFollow("tables", all, TablesInOrder)
  BY <1>1, <1>2, <1>3, TablesFollow
<1>6. ~descend => \A i \in DOMAIN all : SpaceOf(all[i].table) = Root
  BY <1>1, <1>2, <1>3, FlatListing
<1>7. kind' = kind /\ held' = held /\ status' = status /\ changes' = changes
  BY <1>1 DEF call, catalog
<1> HIDE DEF all, T
<1>8. /\ \A i \in DOMAIN picks' : \E k \in DOMAIN all : all[k] = picks'[i]
      /\ OrderedOrigins(picks', all, DOMAIN all)
  BY <1>1, <1>4, SelectedInOrder
<1>9. KeysFollow("tables", picks', TablesInOrder)
  <2> SUFFICES ASSUME NEW i \in DOMAIN picks', NEW j \in DOMAIN picks', i < j
               PROVE  InSeqBefore(TablesInOrder, Key("tables", picks'[i]), Key("tables", picks'[j]))
    BY DEF KeysFollow
  <2>1. PICK k, l \in DOMAIN all : k < l /\ all[k] = picks'[i] /\ all[l] = picks'[j]
    BY <1>8 DEF OrderedOrigins
  <2> QED
    BY <1>5, <2>1 DEF KeysFollow
<1>10. \A k \in DOMAIN picks' : InReach(picks[k].table)'
  BY <1>6, <1>7, <1>8 DEF InReach, descend
<1> QED
  BY <1>1, <1>7, <1>9, <1>10 DEF OrderOK

\* A load, and the end of the call, keep the order of the picks.
LEMMA LoadKeepsOrder ==
  ASSUME OrderOK, UNCHANGED <<call, catalog>>, phase' # "listing",
         DOMAIN picks' = DOMAIN picks, \A k \in DOMAIN picks : picks'[k].table = picks[k].table
  PROVE  OrderOK'
<1>1. kind' = kind /\ held' = held /\ status' = status /\ changes' = changes
  BY DEF call, catalog
<1>2. KeysFollow("tables", picks', TablesInOrder)
  BY DEF OrderOK, KeysFollow, Key
<1>3. \A k \in DOMAIN picks' : InReach(picks[k].table)'
  BY <1>1 DEF OrderOK, InReach, descend
<1> QED
  BY <1>1, <1>2, <1>3 DEF OrderOK

\* A change of other clients is counted, and moves nothing listed.
LEMMA ChangeKeepsOrder ==
  ASSUME OrderOK, kind' = kind, UNCHANGED <<phase, listing, loading>>, changes' \in Nat,
         changes' = 0 => held' = held /\ status' = status /\ changes = 0
  PROVE  OrderOK'
<1>1. UNCHANGED <<level, pages, found, picks>>
  BY DEF listing, loading
<1>2. descend' = descend /\ \A t : InReach(t)' = InReach(t)
  BY DEF descend, InReach
<1> QED
  BY <1>1, <1>2 DEF OrderOK

\* A call that has not begun has nothing out of order.
LEMMA OrderAtFirst ==
  ASSUME Init
  PROVE  OrderOK
<1>1. /\ phase = "listing" /\ level = <<Root>> /\ pages = <<FirstPages>> /\ found = <<>> /\ picks = <<>>
      /\ changes = 0 /\ held = [t \in Tables |-> {status[t]}]
  BY DEF Init
<1>2. DOMAIN level = {1} /\ level[1] = Root /\ pages[1] = FirstPages /\ DOMAIN found = {} /\ DOMAIN picks = {}
  BY <1>1
<1>3. FirstPages.tables.items = <<>> /\ FirstPages.spaces.items = <<>>
  BY DEF FirstPages, NotListed, NothingToList
<1>4. \A what, w : KeysFollow(what, <<>>, w)
  BY DEF KeysFollow
<1>5. \A w : KeysFollow("spaces", level, w)
  BY <1>2 DEF KeysFollow
<1>6. LevelInOrder(level, pages, found)
  BY <1>1, <1>2, <1>3, <1>4, <1>5 DEF LevelInOrder
<1>7. ~descend => StaysFlat(level, pages, found)
  <2>1. ~descend => FirstPages.spaces.done
    BY DEF FirstPages, NotListed, NothingToList
  <2> QED
    BY <1>2, <1>3, <2>1 DEF StaysFlat
<1>8. KeysFollow("tables", picks, TablesInOrder)
  BY <1>1, <1>4
<1> QED
  BY <1>1, <1>2, <1>6, <1>7, <1>8 DEF OrderOK

\* Every step keeps the order.
LEMMA OrderKept ==
  ASSUME IInv, OrderOK, Next
  PROVE  OrderOK'
<1>1. ASSUME NEW k \in DOMAIN level, NEW what \in {"tables", "spaces"}, Page(k, what) PROVE OrderOK'
  BY <1>1, PageKeepsOrder DEF Listings
<1>2. ASSUME NEW k \in DOMAIN level, NEW what \in {"tables", "spaces"}, SpaceGone(k, what) \/ PageFails(k, what)
      PROVE  OrderOK'
  BY <1>2, FailureKeepsOrder DEF SpaceGone, PageFails
<1>3. CASE ListingFails
  <2>1. phase' = "failed" /\ UNCHANGED <<call, catalog, loading>>
    BY <1>3 DEF ListingFails
  <2> QED
    BY <2>1, LoadKeepsOrder DEF loading
<1>4. CASE NextLevel
  BY <1>4, DescentKeepsOrder
<1>5. CASE ListingEnds
  BY <1>5, PicksFollow
<1>6. ASSUME NEW k \in DOMAIN picks, LoadRest(k) \/ LoadUnity(k) \/ AdmitGlue(k) PROVE OrderOK'
  <2>1. phase = "loading" /\ UNCHANGED <<call, catalog, phase, picks>>
    BY <1>6 DEF LoadRest, LoadUnity, AdmitGlue, Due
  <2>2. phase' # "listing" /\ picks' = picks
    BY <2>1
  <2> QED
    BY <2>1, <2>2, LoadKeepsOrder
<1>7. ASSUME NEW k \in DOMAIN picks, GetTable(k) PROVE OrderOK'
  <2> DEFINE s == status[picks[k].table]
  <2>1. phase' # "listing" /\ UNCHANGED <<call, catalog>> /\ (picks' = picks \/ picks' = [picks EXCEPT ![k].info = s])
    BY <1>7 DEF GetTable, Due
  <2>2. picks \in Seq(Witnessed) /\ picks[k] = [table |-> picks[k].table, info |-> picks[k].info]
    <3>1. picks \in Seq(Witnessed)
      BY DEF IInv, LoadingOK, PicksOK
    <3>2. picks[k] \in Entry
      BY <3>1 DEF Witnessed
    <3> QED
      BY <3>1, <3>2 DEF Entry
  <2> HIDE DEF s
  <2>3. DOMAIN picks' = DOMAIN picks /\ \A i \in DOMAIN picks : picks'[i].table = picks[i].table
    <3>1. CASE picks' = picks
      BY <3>1
    <3>2. CASE picks' = [picks EXCEPT ![k].info = s]
      <4>1. DOMAIN picks' = DOMAIN picks /\ \A i \in DOMAIN picks : i # k => picks'[i] = picks[i]
        BY <3>2
      <4>2. picks'[k] = [picks[k] EXCEPT !.info = s]
        BY <3>2
      <4>3. picks'[k] = [table |-> picks[k].table, info |-> s]
        BY <2>2, <4>2
      <4>4. picks'[k].table = picks[k].table
        BY <4>3
      <4> QED
        BY <4>1, <4>4
    <3> QED
      BY <2>1, <3>1, <3>2
  <2> QED
    BY <2>1, <2>3, LoadKeepsOrder
<1>8. ASSUME NEW k \in DOMAIN picks, LoadsFail(k) PROVE OrderOK'
  <2>1. phase' = "failed" /\ UNCHANGED <<call, catalog, loading>>
    BY <1>8 DEF LoadsFail
  <2> QED
    BY <2>1, LoadKeepsOrder DEF loading
<1>9. CASE Return
  <2>1. phase' = "done" /\ UNCHANGED <<call, catalog, loading>>
    BY <1>9 DEF Return
  <2> QED
    BY <2>1, LoadKeepsOrder DEF loading
<1>10. CASE Returned
  <2>1. phase' # "listing" /\ UNCHANGED <<call, catalog, loading>>
    BY <1>10 DEF Returned, vars
  <2> QED
    BY <2>1, LoadKeepsOrder DEF loading
<1>11. ASSUME NEW t \in Tables, NEW s \in Statuses, TableChanges(t, s) PROVE OrderOK'
  <2>1. changes' = changes + 1 /\ UNCHANGED <<call, phase, listing, loading>> /\ changes \in Nat
    BY <1>11 DEF TableChanges, OrderOK
  <2> QED
    BY <2>1, ChangeKeepsOrder DEF call
<1>12. ASSUME NEW ns \in Spaces, SpaceChanges(ns) PROVE OrderOK'
  <2>1. changes' = changes + 1 /\ UNCHANGED <<call, phase, listing, loading>> /\ changes \in Nat
    BY <1>12 DEF SpaceChanges, OrderOK
  <2> QED
    BY <2>1, ChangeKeepsOrder DEF call
<1>13. CASE ListingStep
  BY <1>1, <1>2, <1>3, <1>4, <1>5, <1>13 DEF ListingStep
<1>14. CASE LoadingStep
  BY <1>6, <1>7, <1>8, <1>9, <1>14 DEF LoadingStep
<1> QED
  BY <1>2, <1>10, <1>11, <1>12, <1>13, <1>14 DEF Next

\* A finished call over a catalog nobody changed returns what the walk says.
LEMMA DoneInOrder ==
  ASSUME IInv, OrderOK, phase = "done", changes = 0, NEW a \in {"admitted", "skipped"}
  PROVE  Listed(a) = InOrder(a)
<1> DEFINE w == TablesInOrder
           E == {t \in Exposed : InReach(t) /\ status[t] # "absent" /\ Takes(status[t]) = a}
           idx == [k \in DOMAIN picks |-> k]
           T == {k \in DOMAIN picks : answers[k] = a}
           kept == Selected(idx, T)
           p == Listed(a)
           q == InOrder(a)
<1>1. /\ picks \in Seq(Witnessed) /\ \A k \in DOMAIN picks : picks[k] \in Witnessed /\ picks[k].table \in Exposed
      /\ \A t \in Exposed \cap Steady : Holds("tables", picks, t)
      /\ \A k \in DOMAIN picks : AnswerOK(k) /\ Settled(k)
  BY DEF IInv, LoadingOK, PicksOK
<1>2. /\ KeysFollow("tables", picks, w) /\ \A k \in DOMAIN picks : InReach(picks[k].table)
      /\ \A t \in Tables : held[t] = {status[t]}
  BY DEF OrderOK
<1>3. \A k \in DOMAIN picks : picks[k].table \in Steady /\ answers[k] = Takes(status[picks[k].table])
  <2> SUFFICES ASSUME NEW k \in DOMAIN picks
               PROVE  picks[k].table \in Steady /\ answers[k] = Takes(status[picks[k].table])
    OBVIOUS
  <2>1. picks[k].table \in Tables /\ \E s \in held[picks[k].table] : s # "absent"
    BY <1>1 DEF Witnessed, Entry
  <2>2. picks[k].table \in Steady
    BY <1>2, <2>1 DEF Steady
  <2> QED
    BY <1>1, <2>2 DEF AnswerOK
<1>4. /\ w \in Seq(Tables) /\ \A t \in Tables : \E k \in DOMAIN w : w[k] = t
      /\ \A i, j \in DOMAIN w : w[i] = w[j] => i = j
  BY WalkOfTables
<1>5. q = Selected(w, E)
  BY DEF InOrder
<1>6. p = [i \in DOMAIN kept |-> picks[kept[i]].table]
  BY DEF Listed
<1>7. idx \in Seq(Nat) /\ DOMAIN idx = DOMAIN picks /\ \A k \in DOMAIN picks : idx[k] = k
  <2>1. idx \in [1 .. Len(picks) -> Nat] /\ Len(picks) \in Nat
    BY <1>1
  <2> HIDE DEF idx
  <2>2. idx \in Seq(Nat)
    BY <2>1
  <2> QED
    BY <2>2 DEF idx
<1> HIDE DEF w, E, idx, T, kept, p, q
<1>8. /\ kept \in Seq(Nat) /\ \A i \in DOMAIN kept : kept[i] \in T
      /\ \A k \in DOMAIN idx : idx[k] \in T => \E i \in DOMAIN kept : kept[i] = idx[k]
      /\ OrderedOrigins(kept, idx, DOMAIN idx)
  BY <1>7, SelectedInOrder DEF kept
<1>9. /\ q \in Seq(Tables) /\ \A i \in DOMAIN q : q[i] \in E
      /\ \A k \in DOMAIN w : w[k] \in E => \E i \in DOMAIN q : q[i] = w[k]
      /\ OrderedOrigins(q, w, DOMAIN w)
  BY <1>4, <1>5, SelectedInOrder
<1>10. \A i \in DOMAIN kept : kept[i] \in DOMAIN picks /\ answers[kept[i]] = a
  BY <1>8 DEF T
<1>11. DOMAIN p = DOMAIN kept /\ (\A i \in DOMAIN kept : p[i] = picks[kept[i]].table) /\ p \in Seq(Tables)
  <2>1. DOMAIN p = DOMAIN kept /\ \A i \in DOMAIN kept : p[i] = picks[kept[i]].table
    BY <1>6
  <2>2. \A i \in DOMAIN kept : picks[kept[i]].table \in Tables
    BY <1>3, <1>10, SteadyTables
  <2>3. DOMAIN kept = 1 .. Len(kept) /\ Len(kept) \in Nat
    BY <1>8
  <2>4. p \in [1 .. Len(kept) -> Tables]
    BY <1>6, <2>2, <2>3
  <2> QED
    BY <2>1, <2>3, <2>4
<1>12. ASSUME NEW i \in DOMAIN p, NEW j \in DOMAIN p, i < j PROVE InSeqBefore(w, p[i], p[j])
  <2>1. PICK k, l \in DOMAIN idx : k < l /\ idx[k] = kept[i] /\ idx[l] = kept[j]
    BY <1>8, <1>11, <1>12 DEF OrderedOrigins
  <2>2. k = kept[i] /\ l = kept[j] /\ k \in DOMAIN picks /\ l \in DOMAIN picks
    BY <1>7, <2>1
  <2> QED
    BY <1>2, <1>11, <2>1, <2>2 DEF KeysFollow, Key
<1>13. \A i, j \in DOMAIN q : i < j => InSeqBefore(w, q[i], q[j])
  BY <1>9 DEF OrderedOrigins, InSeqBefore
<1>14. ASSUME NEW i \in DOMAIN p PROVE \E j \in DOMAIN q : q[j] = p[i]
  <2>1. kept[i] \in DOMAIN picks /\ answers[kept[i]] = a /\ p[i] = picks[kept[i]].table
    BY <1>10, <1>11
  <2>2. p[i] \in Steady /\ a = Takes(status[p[i]]) /\ p[i] \in Exposed
    BY <1>1, <1>3, <2>1
  <2>3. p[i] \in E /\ p[i] \in Tables
    BY <2>2 DEF E, Steady
  <2>4. PICK k \in DOMAIN w : w[k] = p[i]
    BY <1>4, <2>3
  <2> QED
    BY <1>9, <2>3, <2>4
<1>15. ASSUME NEW i \in DOMAIN q PROVE \E j \in DOMAIN p : p[j] = q[i]
  <2>1. q[i] \in E /\ q[i] \in Tables
    BY <1>9
  <2>2. q[i] \in Exposed \cap Steady /\ Takes(status[q[i]]) = a
    BY <1>2, <2>1 DEF E, Steady
  <2>3. PICK k \in DOMAIN picks : picks[k].table = q[i]
    BY <1>1, <2>2 DEF Holds, Key
  <2>4. k \in T
    BY <1>3, <2>2, <2>3 DEF T
  <2>5. PICK j \in DOMAIN kept : kept[j] = k
    BY <1>7, <1>8, <2>4
  <2> QED
    BY <1>11, <2>3, <2>5
<1>16. p = q
  <2>1. EachOnce(w) /\ Follows(p, w) /\ Follows(q, w)
    BY <1>4, <1>12, <1>13 DEF EachOnce, Follows
  <2>2. HeldBy(q, p) /\ HeldBy(p, q)
    BY <1>14, <1>15 DEF HeldBy
  <2>3. w \in Seq(Tables) /\ p \in Seq(Tables) /\ q \in Seq(Tables)
    BY <1>4, <1>9, <1>11
  <2> QED
    BY <2>1, <2>2, <2>3, OneOrder
<1> QED
  BY <1>16 DEF p, q

\* For every namespace tree, page size and concurrency: over a catalog nobody
\* changes the result, order included, depends on neither the mode, the pages nor
\* the order of answers.
THEOREM ListedInOrder == Spec => []ListingsAgree
<1>1. Init => OrderOK
  BY OrderAtFirst
<1>2. IInv /\ OrderOK /\ [Next]_vars => OrderOK'
  <2>1. ASSUME IInv, OrderOK, UNCHANGED vars PROVE OrderOK'
    <3>1. UNCHANGED <<kind, phase, held, status, changes, listing, loading>> /\ changes' \in Nat
      BY <2>1 DEF vars, call, catalog, OrderOK
    <3> QED
      BY <2>1, <3>1, ChangeKeepsOrder
  <2> QED
    BY <2>1, OrderKept
<1>3. IInv /\ OrderOK => ListingsAgree
  BY DoneInOrder DEF ListingsAgree
<1> QED
  BY <1>1, <1>2, <1>3, Invariance, PTL DEF Spec
=============================================================================
