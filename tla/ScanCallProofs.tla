--------------------------- MODULE ScanCallProofs ---------------------------
(* For every call: the type, MemoryAccounted, OwnCredential, ExactlyLiveRows, *)
(* UnappliedNeverServed and ValuesAsWritten of ScanCall.                      *)
(*                                                                            *)
(* The reservation of a side is a sum over its tasks, its gathered position   *)
(* sets and its plans. The invariant GoodSides says which of these exist in   *)
(* each stage and that the reservation is their sum; a task's step moves      *)
(* the sum by the task's own difference, and where the unions start the sum   *)
(* over tasks is added up again by file. Permits says that no more tasks      *)
(* hold a permit than there are; Registered, that nothing is read before      *)
(* both file lists are checked and the sides' paths told apart, which is      *)
(* what OwnCredential rests on.                                               *)
(*                                                                            *)
(* The rows need a second invariant. The reads of a side share out what its   *)
(* mechanisms delete: Progress says what one of them has found so far,        *)
(* CollectOK adds that up stage by stage until the access plans leave out     *)
(* exactly what is deleted, and Streamed says that the rows handed out are    *)
(* the live rows of the row groups read. What it rests on: every mechanism    *)
(* is covered by a read, and the runs of an access plan select exactly the    *)
(* rows of a row group that are not deleted.                                  *)
(*                                                                            *)
(* The values need no invariant beside ValuesAsWritten, but the whole of the  *)
(* binding: a field claims exactly the column it is stored as, by key or by   *)
(* letter case, so that a file that opens reads as it was written.            *)
EXTENDS ScanCall, Induction

-----------------------------------------------------------------------------
\* What the lists of a side hold.
FinNat == {P \in SUBSET Nat : IsFiniteSet(P)}
Vectors(side) == Members(side, "delta") \cup Members(side, "puffin")

\* A side has finitely many entries, files and delete mechanisms.
LEMMA EntriesFinite ==
  ASSUME NEW side, SideShape(side)
  PROVE  IsFiniteSet(EntriesOf(side)) /\ IsFiniteSet(Assigned(side)) /\ IsFiniteSet(Mechanisms(side))
<1>1. IsFiniteSet(EntriesOf(side))
  BY FiniteRange DEF SideShape, EntriesOf, ToSet
<1>2. IsFiniteSet(Assigned(side))
  <2> DEFINE k == [e \in EntriesOf(side) |-> e.path.id]
  <2>1. Assigned(side) = {k[e] : e \in EntriesOf(side)} /\ DOMAIN k = EntriesOf(side)
    BY DEF Assigned
  <2> HIDE DEF k
  <2> QED
    BY <1>1, <2>1, FiniteImage
<1>3. IsFiniteSet(Mechanisms(side))
  <2> DEFINE k == [e \in EntriesOf(side) |-> e.deletes]
  <2>1. Mechanisms(side) = UNION {k[e] : e \in EntriesOf(side)} /\ DOMAIN k = EntriesOf(side)
        /\ \A e \in EntriesOf(side) : IsFiniteSet(k[e])
    BY DEF Mechanisms, SideShape
  <2> HIDE DEF k
  <2> QED
    BY <1>1, <2>1, FiniteUnion
<1> QED
  BY <1>1, <1>2, <1>3

\* A side has finitely many vectors of each kind.
LEMMA MembersFinite ==
  ASSUME NEW side, SideShape(side), NEW kind
  PROVE  IsFiniteSet(Members(side, kind))
<1>1. ASSUME NEW e \in EntriesOf(side)
      PROVE  IsFiniteSet({[file |-> e.path.id, vector |-> m] : m \in {d \in e.deletes : d.kind = kind}})
  <2> DEFINE S == {d \in e.deletes : d.kind = kind}
             k == [m \in S |-> [file |-> e.path.id, vector |-> m]]
  <2>1. IsFiniteSet(S)
    BY FS_Subset DEF SideShape
  <2>2. IsFiniteSet({k[m] : m \in S})
    <3>1. DOMAIN k = S
      OBVIOUS
    <3> HIDE DEF k, S
    <3> QED
      BY <2>1, <3>1, FiniteImage
  <2>3. {k[m] : m \in S} = {[file |-> e.path.id, vector |-> m] : m \in S}
    OBVIOUS
  <2> QED
    BY <2>2, <2>3
<1> DEFINE j == [e \in EntriesOf(side) |->
                   {[file |-> e.path.id, vector |-> m] : m \in {d \in e.deletes : d.kind = kind}}]
<1>2. Members(side, kind) = UNION {j[e] : e \in EntriesOf(side)} /\ DOMAIN j = EntriesOf(side)
      /\ \A e \in EntriesOf(side) : IsFiniteSet(j[e])
  BY <1>1 DEF Members
<1>3. IsFiniteSet(EntriesOf(side))
  BY EntriesFinite
<1> HIDE DEF j
<1> QED
  BY <1>2, <1>3, FiniteUnion

\* A vector is of an assigned file and holds finitely many positions.
LEMMA MembersOf ==
  ASSUME NEW side, SideShape(side), NEW m \in Vectors(side)
  PROVE  m.file \in Assigned(side) /\ m.vector.positions \in FinNat
<1>1. PICK e \in EntriesOf(side) : \E d \in e.deletes :
        d.kind \in {"delta", "puffin"} /\ m = [file |-> e.path.id, vector |-> d]
  BY DEF Vectors, Members
<1>5. PICK d \in e.deletes : d.kind \in {"delta", "puffin"} /\ m = [file |-> e.path.id, vector |-> d]
  BY <1>1
<1>2. MechanismShape(side, d)
  BY <1>5 DEF SideShape
<1>3. d.positions \in FinNat
  BY <1>5, <1>2 DEF MechanismShape, FinNat
<1>4. m.file = e.path.id /\ m.vector = d /\ e.path.id \in Assigned(side)
  BY <1>5 DEF Assigned
<1> QED
  BY <1>3, <1>4
-----------------------------------------------------------------------------
\* The tasks of each stage name what the side lists.
Reading(side, t) ==
    /\ t.op \in {"open", "group"} =>
         \E m \in Mechanisms(side) : m.kind = "posfile" /\ t.path = m.path
    /\ t.op = "vector" => t.members \subseteq Vectors(side)
Spawns(side, new, ops) ==
    IsFiniteSet(new) /\ \A t \in new : t.op \in ops /\ Reading(side, t)

\* Two sets of tasks of a side are one set of tasks of it.
LEMMA SpawnsUnion ==
  ASSUME NEW side, NEW ops, NEW S, NEW R, Spawns(side, S, ops), Spawns(side, R, ops)
  PROVE  Spawns(side, S \cup R, ops)
BY FS_Union DEF Spawns

\* Opening the delete files spawns tasks of the side.
LEMMA OpensSpawn ==
  ASSUME NEW side, SideShape(side)
  PROVE  Spawns(side, delete_file_opens(side), {"open", "vector"})
<1> DEFINE S == {d \in Mechanisms(side) : d.kind = "posfile"}
           k == [m \in S |-> Task("open", m.path)]
<1>1. IsFiniteSet(S)
  BY EntriesFinite, FS_Subset
<1>2. IsFiniteSet({k[m] : m \in S})
  <2>1. DOMAIN k = S
    OBVIOUS
  <2> HIDE DEF k, S
  <2> QED
    BY <1>1, <2>1, FiniteImage
<1>3. {k[m] : m \in S} = delete_file_opens(side)
  BY DEF delete_file_opens
<1>4. ASSUME NEW t \in delete_file_opens(side) PROVE t.op = "open" /\ Reading(side, t)
  <2>1. PICK m \in Mechanisms(side) : m.kind = "posfile" /\ t = Task("open", m.path)
    BY DEF delete_file_opens
  <2>2. t.op = "open" /\ t.path = m.path
    BY <2>1 DEF Task
  <2> QED
    BY <2>1, <2>2 DEF Reading
<1> QED
  BY <1>2, <1>3, <1>4 DEF Spawns

\* The row groups that are read are groups of the side's delete files that
\* may hold rows of its data files.
LEMMA GroupsSpawn ==
  ASSUME NEW side, SideShape(side)
  PROVE  /\ Spawns(side, row_group_reads(side), {"group"})
         /\ \A t \in row_group_reads(side) : t.group \in Relevant(side, t.path)
<1> DEFINE O == delete_file_opens(side)
           G(o) == Relevant(side, o.path) \ InTail(side, o.path)
           T(o) == {[Task("group", o.path) EXCEPT !.group = g] : g \in G(o)}
           j == [o \in O |-> T(o)]
<1>1. ASSUME NEW o \in O
      PROVE  /\ IsFiniteSet(T(o))
             /\ \A t \in T(o) : t.op = "group" /\ Reading(side, t) /\ t.group \in Relevant(side, t.path)
  <2>1. PICK m \in Mechanisms(side) : m.kind = "posfile" /\ o = Task("open", m.path)
    BY DEF delete_file_opens
  <2>2. o.path = m.path
    BY <2>1 DEF Task
  <2>3. MechanismShape(side, m)
    BY <2>1 DEF SideShape, Mechanisms
  <2>4. IsFiniteSet(DOMAIN side.content[o.path.id])
    <3> DEFINE q == side.content[m.path.id]
    <3>1. q \in Seq(Range(q))
      BY <2>1, <2>3 DEF MechanismShape
    <3>2. DOMAIN q = 1 .. Len(q) /\ Len(q) \in Nat
      <4> HIDE DEF q
      <4> QED
        BY <3>1
    <3> QED
      BY <2>2, <3>2, FS_Interval
  <2>5. IsFiniteSet(G(o))
    BY <2>4, FS_Subset DEF Relevant
  <2> DEFINE k == [g \in G(o) |-> [Task("group", o.path) EXCEPT !.group = g]]
  <2>6. IsFiniteSet({k[g] : g \in G(o)})
    <3>1. DOMAIN k = G(o)
      OBVIOUS
    <3> HIDE DEF k, G
    <3> QED
      BY <2>5, <3>1, FiniteImage
  <2>7. {k[g] : g \in G(o)} = T(o)
    OBVIOUS
  <2>8. ASSUME NEW t \in T(o) PROVE t.op = "group" /\ Reading(side, t) /\ t.group \in Relevant(side, t.path)
    <3>1. PICK g \in G(o) : t = [Task("group", o.path) EXCEPT !.group = g]
      OBVIOUS
    <3>2. t.op = "group" /\ t.path = m.path /\ t.group = g
      BY <2>2, <3>1 DEF Task
    <3> QED
      BY <2>1, <2>2, <3>1, <3>2 DEF Reading
  <2> QED
    BY <2>6, <2>7, <2>8
<1>2. row_group_reads(side) = UNION {j[o] : o \in O}
  BY DEF row_group_reads
<1>3. IsFiniteSet(O)
  BY OpensSpawn DEF Spawns
<1>4. IsFiniteSet(UNION {j[o] : o \in O})
  <2>1. DOMAIN j = O /\ \A o \in O : IsFiniteSet(j[o])
    BY <1>1
  <2> HIDE DEF j, O
  <2> QED
    BY <1>3, <2>1, FiniteUnion
<1>5. ASSUME NEW t \in row_group_reads(side) PROVE \E o \in O : t \in T(o)
  BY <1>2
<1> QED
  BY <1>1, <1>2, <1>4, <1>5 DEF Spawns

\* The reads of Delta vectors are tasks of the side.
LEMMA DeltaSpawn ==
  ASSUME NEW side, SideShape(side)
  PROVE  Spawns(side, delta_vector_reads(side), {"open", "vector"})
<1> DEFINE V == Members(side, "delta")
           C == {m.vector.sidecar : m \in V} \ {Inline}
           N == {v \in V : v.vector.sidecar = Inline}
           read(path, members) == [Task("vector", path) EXCEPT !.members = members]
           at(p) == {m \in V : m.vector.sidecar = p}
           j == [p \in C |-> read(p, at(p))]
           k == [m \in N |-> read(Inline, {m})]
           i == [m \in V |-> m.vector.sidecar]
<1>1. IsFiniteSet(V)
  BY MembersFinite
<1>2. IsFiniteSet(C)
  <2>1. IsFiniteSet({i[m] : m \in V})
    <3>1. DOMAIN i = V
      OBVIOUS
    <3> HIDE DEF V, i
    <3> QED
      BY <1>1, <3>1, FiniteImage
  <2>2. C \subseteq {i[m] : m \in V}
    OBVIOUS
  <2> HIDE DEF C, i
  <2> QED
    BY <2>1, <2>2, FS_Subset
<1>3. IsFiniteSet(N)
  BY <1>1, FS_Subset
<1>4. IsFiniteSet({j[p] : p \in C}) /\ IsFiniteSet({k[m] : m \in N})
  <2>1. DOMAIN j = C /\ DOMAIN k = N
    OBVIOUS
  <2> HIDE DEF j, k, C, N
  <2> QED
    BY <1>2, <1>3, <2>1, FiniteImage
<1>5. delta_vector_reads(side) = {j[p] : p \in C} \cup {k[m] : m \in N}
  BY DEF delta_vector_reads
<1>6. V \subseteq Vectors(side)
  BY DEF Vectors
<1>7. ASSUME NEW p, NEW members \in SUBSET V
      PROVE  read(p, members).op = "vector" /\ Reading(side, read(p, members))
  <2>1. read(p, members).op = "vector" /\ read(p, members).members = members
    BY DEF Task
  <2> HIDE DEF read, V
  <2> QED
    BY <1>6, <2>1 DEF Reading
<1>8. ASSUME NEW t \in delta_vector_reads(side) PROVE t.op = "vector" /\ Reading(side, t)
  <2>1. CASE t \in {j[p] : p \in C}
    <3>1. PICK p \in C : t = read(p, at(p))
      BY <2>1
    <3>2. at(p) \in SUBSET V
      OBVIOUS
    <3> HIDE DEF read, at, V
    <3> QED
      BY <1>7, <3>1, <3>2
  <2>2. CASE t \in {k[m] : m \in N}
    <3>1. PICK m \in N : t = read(Inline, {m})
      BY <2>2
    <3>2. {m} \in SUBSET V
      OBVIOUS
    <3> HIDE DEF read, V
    <3> QED
      BY <1>7, <3>1, <3>2
  <2> QED
    BY <1>5, <2>1, <2>2
<1>9. IsFiniteSet(delta_vector_reads(side))
  <2> HIDE DEF j, k, C, N
  <2> QED
    BY <1>4, <1>5, FS_Union
<1> QED
  BY <1>8, <1>9 DEF Spawns
\* What merge_blob_ranges makes of the blobs: requests with some of them as members.
PuffinRequests(blobs) ==
    [op : {"vector"}, path : {m.vector.path : m \in blobs}, group : {0},
     members : SUBSET blobs, from : Int, to : Int]
Ranged(blobs) == \A m \in blobs : m.vector.start \in Int /\ m.vector.end \in Int
MergeBody(g, blobs) ==
    g = [s \in SUBSET blobs |->
            IF s = {} THEN <<>> ELSE join_request(Furthest(s), g[s \ {Furthest(s)}])]

\* A blob joins the last request or opens one of its own; the requests hold
\* no other blobs.
LEMMA JoinRequest ==
  ASSUME NEW blobs, Ranged(blobs), NEW m \in blobs, NEW q \in Seq(PuffinRequests(blobs))
  PROVE  join_request(m, q) \in Seq(PuffinRequests(blobs))
<1> DEFINE Q == PuffinRequests(blobs)
           last == Last(q)
           to == Max({last.to, m.vector.end})
           longer == [last EXCEPT !.to = to, !.members = last.members \cup {m}]
<1>1. m.vector.start \in Int /\ m.vector.end \in Int
  BY DEF Ranged
<1>2. OwnRequest(m) \in Q
  BY <1>1 DEF OwnRequest, Task, PuffinRequests
<1>3. ASSUME q # <<>> PROVE [q EXCEPT ![Len(q)] = longer] \in Seq(Q)
  <2>1. Len(q) \in 1 .. Len(q) /\ Len(q) \in Nat /\ last = q[Len(q)] /\ last \in Q
    BY <1>3 DEF Last
  <2>2. last.to \in Int
    BY <2>1 DEF PuffinRequests
  <2>3. to \in Int
    <3> DEFINE a == last.to  b == m.vector.end
    <3>1. a \in Int /\ b \in Int
      BY <1>1, <2>2
    <3> HIDE DEF a, b
    <3>2. \E x \in {a, b} : \A y \in {a, b} : x >= y
      BY <3>1
    <3>4. Max({a, b}) \in {a, b}
      BY <3>2 DEF Max
    <3>3. Max({a, b}) \in Int
      BY <3>1, <3>4
    <3> QED
      BY <3>3 DEF a, b
  <2>4. longer \in Q
    <3> HIDE DEF to, last
    <3> QED
      BY <2>1, <2>3 DEF PuffinRequests
  <2> HIDE DEF longer, Q
  <2>5. q \in Seq(Q)
    BY DEF Q
  <2> QED
    BY <2>1, <2>4, <2>5
<1>4. Append(q, OwnRequest(m)) \in Seq(Q)
  <2> HIDE DEF Q
  <2>1. q \in Seq(Q)
    BY DEF Q
  <2> QED
    BY <1>2, <2>1
<1> DEFINE joins == /\ q # <<>>
                    /\ m.vector.start - last.to <= MaxGap
                    /\ to - last.from <= MaxRequest
<1>5. join_request(m, q) = IF joins THEN [q EXCEPT ![Len(q)] = longer] ELSE Append(q, OwnRequest(m))
  BY Zenon DEF join_request
<1>6. joins => q # <<>>
  BY Zenon
<1> HIDE DEF joins, longer, Q
<1> QED
  BY <1>3, <1>4, <1>5, <1>6 DEF Q

\* The blob that starts last is one of the blobs and none starts after it.
LEMMA FurthestOf ==
  ASSUME NEW blobs, IsFiniteSet(blobs), Ranged(blobs), blobs # {}
  PROVE  Furthest(blobs) \in blobs /\ \A n \in blobs : n.vector.start <= Furthest(blobs).vector.start
<1> DEFINE w == [m \in blobs |-> m.vector.start]
<1>1. w \in [blobs -> Int]
  BY DEF Ranged
<1>2. PICK x : IsGreatest(x, w, blobs)
  <2> HIDE DEF w
  <2> QED
    BY <1>1, FiniteGreatest
<1>3. x \in blobs /\ \A n \in blobs : n.vector.start <= x.vector.start
  BY <1>2 DEF IsGreatest
<1> QED
  BY <1>3 DEF Furthest

\* The requests q have every blob of s as a member.
Holds(q, s) == \A m \in s : \E i \in DOMAIN q : m \in q[i].members

\* Joining a blob loses none of the blobs that joined before.
LEMMA JoinHolds ==
  ASSUME NEW blobs, Ranged(blobs), NEW m \in blobs, NEW q \in Seq(PuffinRequests(blobs)),
         NEW s, Holds(q, s)
  PROVE  Holds(join_request(m, q), s \cup {m})
<1> DEFINE last == Last(q)
           longer == [last EXCEPT !.to = Max({last.to, m.vector.end}), !.members = last.members \cup {m}]
           joins == /\ q # <<>>
                    /\ m.vector.start - last.to <= MaxGap
                    /\ Max({last.to, m.vector.end}) - last.from <= MaxRequest
<1>1. join_request(m, q) = IF joins THEN [q EXCEPT ![Len(q)] = longer] ELSE Append(q, OwnRequest(m))
  BY Zenon DEF join_request
<1>2. joins => q # <<>>
  BY Zenon
<1>3. DOMAIN q = 1 .. Len(q) /\ Len(q) \in Nat
  OBVIOUS
<1>4. OwnRequest(m).members = {m}
  BY DEF OwnRequest, Task
<1>5. CASE joins
  <2>1. Len(q) \in DOMAIN q /\ last = q[Len(q)] /\ last \in PuffinRequests(blobs)
    BY <1>2, <1>3, <1>5 DEF Last
  <2>2. longer.members = last.members \cup {m}
    <3> DEFINE to == Max({last.to, m.vector.end})
    <3> HIDE DEF to, last
    <3>1. [last EXCEPT !.to = to, !.members = last.members \cup {m}].members = last.members \cup {m}
      BY <2>1 DEF PuffinRequests
    <3> QED
      BY <3>1 DEF to
  <2> DEFINE now == [q EXCEPT ![Len(q)] = longer]
  <2> HIDE DEF longer, last, joins
  <2>3. DOMAIN now = DOMAIN q /\ now[Len(q)] = longer /\ \A i \in DOMAIN q : i # Len(q) => now[i] = q[i]
    BY <2>1
  <2>4. join_request(m, q) = now
    BY <1>1, <1>5
  <2> HIDE DEF now
  <2>5. \A i \in DOMAIN q : q[i].members \subseteq now[i].members
    BY <2>1, <2>2, <2>3
  <2>6. m \in now[Len(q)].members
    BY <2>2, <2>3
  <2> QED
    BY <2>1, <2>3, <2>4, <2>5, <2>6 DEF Holds
<1>6. CASE ~joins
  <2> DEFINE now == Append(q, OwnRequest(m))
  <2>1. join_request(m, q) = now
    BY <1>1, <1>6
  <2>2. DOMAIN now = 1 .. Len(q) + 1 /\ now[Len(q) + 1] = OwnRequest(m) /\ \A i \in DOMAIN q : now[i] = q[i]
    BY <1>3
  <2> HIDE DEF now, joins
  <2>3. Len(q) + 1 \in DOMAIN now /\ \A i \in DOMAIN q : i \in DOMAIN now
    BY <1>3, <2>2
  <2> QED
    BY <1>4, <2>1, <2>2, <2>3 DEF Holds
<1> QED
  BY <1>5, <1>6

\* A request of q starts where some blob of s does and spans the blobs it holds.
Spans(t) == \A m \in t.members : t.from <= m.vector.start /\ m.vector.end <= t.to
Spanning(q, s) ==
    \A i \in DOMAIN q : Spans(q[i]) /\ \E n \in s : q[i].from = n.vector.start

\* A blob that starts no earlier than the others leaves every request spanning its blobs.
LEMMA JoinSpans ==
  ASSUME NEW blobs, Ranged(blobs), NEW m \in blobs, NEW q \in Seq(PuffinRequests(blobs)),
         NEW s \in SUBSET blobs, Spanning(q, s), \A n \in s : n.vector.start <= m.vector.start
  PROVE  Spanning(join_request(m, q), s \cup {m})
<1> DEFINE last == Last(q)
           to == Max({last.to, m.vector.end})
           longer == [last EXCEPT !.to = to, !.members = last.members \cup {m}]
           joins == /\ q # <<>>
                    /\ m.vector.start - last.to <= MaxGap
                    /\ to - last.from <= MaxRequest
<1>1. join_request(m, q) = IF joins THEN [q EXCEPT ![Len(q)] = longer] ELSE Append(q, OwnRequest(m))
  BY Zenon DEF join_request
<1>2. joins => q # <<>>
  BY Zenon
<1>3. DOMAIN q = 1 .. Len(q) /\ Len(q) \in Nat
  OBVIOUS
<1>4. m.vector.start \in Int /\ m.vector.end \in Int
  BY DEF Ranged
<1>5. CASE joins
  <2>1. Len(q) \in DOMAIN q /\ last = q[Len(q)] /\ last \in PuffinRequests(blobs)
    BY <1>2, <1>3, <1>5 DEF Last
  <2>2. last.to \in Int /\ last.from \in Int /\ last.members \subseteq blobs
    BY <2>1 DEF PuffinRequests
  <2>3. to \in Int /\ last.to <= to /\ m.vector.end <= to
    <3> DEFINE a == last.to  b == m.vector.end
    <3>1. a \in Int /\ b \in Int
      BY <1>4, <2>2
    <3> HIDE DEF a, b
    <3>2. \E x \in {a, b} : \A y \in {a, b} : x >= y
      BY <3>1
    <3>3. Max({a, b}) \in {a, b} /\ \A y \in {a, b} : Max({a, b}) >= y
      BY <3>2 DEF Max
    <3>4. Max({a, b}) \in Int /\ a <= Max({a, b}) /\ b <= Max({a, b})
      BY <3>1, <3>3
    <3> QED
      BY <3>4 DEF a, b
  <2>4. PICK n \in s : last.from = n.vector.start
    BY <2>1 DEF Spanning
  <2>5. Spans(last)
    BY <2>1 DEF Spanning
  <2>6. longer.members = last.members \cup {m} /\ longer.to = to /\ longer.from = last.from
    <3> HIDE DEF to, last
    <3> QED
      BY <2>1 DEF PuffinRequests
  <2> DEFINE now == [q EXCEPT ![Len(q)] = longer]
  <2>7. join_request(m, q) = now
    BY <1>1, <1>5
  <2> HIDE DEF longer, last, joins, to
  <2>8. DOMAIN now = DOMAIN q /\ now[Len(q)] = longer /\ \A i \in DOMAIN q : i # Len(q) => now[i] = q[i]
    BY <2>1
  <2>9. Spans(longer)
    <3> SUFFICES ASSUME NEW x \in last.members \cup {m} PROVE last.from <= x.vector.start /\ x.vector.end <= to
      BY <2>6 DEF Spans
    <3>1. CASE x = m
      BY <2>3, <2>4, <3>1
    <3>2. CASE x \in last.members
      <4>1. last.from <= x.vector.start /\ x.vector.end <= last.to
        BY <2>5, <3>2 DEF Spans
      <4>2. x.vector.end \in Int
        BY <2>2, <3>2 DEF Ranged
      <4> QED
        BY <2>2, <2>3, <4>1, <4>2
    <3> QED
      BY <3>1, <3>2
  <2>10. longer.from = n.vector.start
    BY <2>4, <2>6
  <2> HIDE DEF now
  <2> SUFFICES ASSUME NEW i \in DOMAIN now
               PROVE  Spans(now[i]) /\ \E k \in s \cup {m} : now[i].from = k.vector.start
    BY <2>7 DEF Spanning
  <2>11. CASE i = Len(q)
    BY <2>8, <2>9, <2>10, <2>11
  <2>12. CASE i # Len(q)
    BY <2>8, <2>12 DEF Spanning
  <2> QED
    BY <2>11, <2>12
<1>6. CASE ~joins
  <2> DEFINE now == Append(q, OwnRequest(m))
             own == OwnRequest(m)
  <2>1. join_request(m, q) = now
    BY <1>1, <1>6
  <2>2. DOMAIN now = 1 .. Len(q) + 1 /\ now[Len(q) + 1] = own /\ \A i \in DOMAIN q : now[i] = q[i]
    BY <1>3
  <2>3. own.members = {m} /\ own.from = m.vector.start /\ own.to = m.vector.end
    BY DEF OwnRequest, Task
  <2> HIDE DEF now, joins, own
  <2>4. Spans(own)
    BY <1>4, <2>3 DEF Spans
  <2> SUFFICES ASSUME NEW i \in DOMAIN now
               PROVE  Spans(now[i]) /\ \E k \in s \cup {m} : now[i].from = k.vector.start
    BY <2>1 DEF Spanning
  <2>5. CASE i \in DOMAIN q
    BY <2>2, <2>5 DEF Spanning
  <2>6. CASE i \notin DOMAIN q
    <3>1. i = Len(q) + 1
      BY <1>3, <2>2, <2>6
    <3> QED
      BY <2>2, <2>3, <2>4, <3>1
  <2> QED
    BY <2>5, <2>6
<1> QED
  BY <1>5, <1>6

\* The merged requests of a Puffin file are finitely many, hold its blobs, all of
\* them and no other, and span the bytes of those they hold.
LEMMA MergedRequests ==
  ASSUME NEW blobs, IsFiniteSet(blobs), Ranged(blobs)
  PROVE  /\ merge_blob_ranges(blobs) \subseteq PuffinRequests(blobs)
         /\ IsFiniteSet(merge_blob_ranges(blobs))
         /\ \A m \in blobs : \E t \in merge_blob_ranges(blobs) : m \in t.members
         /\ \A t \in merge_blob_ranges(blobs) : Spans(t)
<1> DEFINE Q == PuffinRequests(blobs)
           C == [s \in SUBSET blobs |-> Furthest(s)]
           K == [m \in blobs |-> [q \in Seq(Q) |-> join_request(m, q)]]
<1>1. \A s \in SUBSET blobs : s # {} => Furthest(s) \in s
  <2> TAKE s \in SUBSET blobs
  <2>1. IsFiniteSet(s) /\ Ranged(s)
    BY FS_Subset DEF Ranged
  <2> QED
    BY <2>1, FurthestOf
<1>2. Chooses(C, blobs)
  BY <1>1 DEF Chooses
<1>3. K \in [blobs -> [Seq(Q) -> Seq(Q)]]
  BY JoinRequest
<1>4. PICK g : FoldOf(g, blobs, Seq(Q), <<>>, C, K)
  <2>1. <<>> \in Seq(Q)
    OBVIOUS
  <2> HIDE DEF C, K, Q
  <2> QED
    BY <1>2, <1>3, <2>1, FoldExists
<1>5. g \in [SUBSET blobs -> Seq(Q)] /\ g[{}] = <<>>
  BY <1>4 DEF FoldOf
<1>6. ASSUME NEW s \in SUBSET blobs, s # {} PROVE g[s] = join_request(Furthest(s), g[s \ {Furthest(s)}])
  <2>1. g[s] = K[C[s]][g[s \ {C[s]}]]
    BY <1>4, <1>6 DEF FoldOf
  <2>2. C[s] = Furthest(s) /\ Furthest(s) \in blobs
    BY <1>1, <1>6
  <2>3. g[s \ {Furthest(s)}] \in Seq(Q)
    <3> HIDE DEF Q
    <3> QED
      BY <1>5
  <2> HIDE DEF Q, C
  <2> QED
    BY <2>1, <2>2, <2>3
<1>7. MergeBody(g, blobs)
  <2> HIDE DEF Q
  <2> QED
    BY <1>5, <1>6 DEF MergeBody
<1>8. PICK h : h = (CHOOSE f : MergeBody(f, blobs)) /\ MergeBody(h, blobs)
  BY <1>7
<1> DEFINE P == {s \in SUBSET blobs : h[s] = g[s]}
<1>9. {} \in P
  BY <1>5, <1>8 DEF MergeBody
<1>10. ASSUME NEW s \in SUBSET blobs, s # {}, \A x \in s : s \ {x} \in P PROVE s \in P
  <2>1. h[s] = join_request(Furthest(s), h[s \ {Furthest(s)}])
    BY <1>8, <1>10 DEF MergeBody
  <2>2. h[s \ {Furthest(s)}] = g[s \ {Furthest(s)}]
    BY <1>1, <1>10
  <2> QED
    BY <1>6, <1>10, <2>1, <2>2
<1>11. P = SUBSET blobs
  <2>1. P \in SUBSET SUBSET blobs
    OBVIOUS
  <2> HIDE DEF P
  <2> QED
    BY <1>9, <1>10, <2>1, SubsetInduction
<1>12. h[blobs] = g[blobs] /\ g[blobs] \in Seq(Q)
  <2> HIDE DEF Q
  <2> QED
    BY <1>5, <1>11
<1>13. merge_blob_ranges(blobs) = ToSet(h[blobs])
  BY <1>8 DEF merge_blob_ranges, MapThenFoldSet, MergeBody
<1>14. IsFiniteSet(ToSet(g[blobs])) /\ ToSet(g[blobs]) \subseteq Q
  <2> DEFINE q == g[blobs]
  <2>1. q \in Seq(Q)
    BY <1>12
  <2> HIDE DEF q, Q
  <2>2. IsFiniteSet(ToSet(q)) /\ ToSet(q) \subseteq Q
    BY <2>1, FiniteRange DEF ToSet
  <2> QED
    BY <2>2 DEF q
<1> DEFINE R == {s \in SUBSET blobs : Holds(g[s], s)}
<1>15. {} \in R
  BY DEF Holds
<1>16. ASSUME NEW s \in SUBSET blobs, s # {}, \A x \in s : s \ {x} \in R PROVE s \in R
  <2> DEFINE x == Furthest(s)
             q == g[s \ {x}]
  <2>1. x \in s /\ x \in blobs /\ s \ {x} \in SUBSET blobs /\ (s \ {x}) \cup {x} = s
    BY <1>1, <1>16
  <2>2. q \in Seq(Q)
    <3> HIDE DEF Q, x
    <3> QED
      BY <1>5, <2>1
  <2>3. Holds(q, s \ {x})
    BY <1>16, <2>1, Zenon
  <2>4. g[s] = join_request(x, q)
    BY <1>6, <1>16
  <2> HIDE DEF x, q
  <2>5. Holds(join_request(x, q), (s \ {x}) \cup {x})
    BY <2>1, <2>2, <2>3, JoinHolds
  <2> QED
    BY <2>1, <2>4, <2>5
<1>17. R = SUBSET blobs
  <2>1. R \in SUBSET SUBSET blobs
    OBVIOUS
  <2> HIDE DEF R
  <2> QED
    BY <1>15, <1>16, <2>1, SubsetInduction
<1>18. Holds(g[blobs], blobs)
  <2>1. blobs \in R
    <3> HIDE DEF R
    <3> QED
      BY <1>17
  <2> QED
    BY <2>1
<1>19. \A m \in blobs : \E t \in ToSet(g[blobs]) : m \in t.members
  BY <1>18 DEF Holds, ToSet
<1> DEFINE U == {s \in SUBSET blobs : Spanning(g[s], s)}
<1>20. {} \in U
  BY <1>5 DEF Spanning
<1>21. ASSUME NEW s \in SUBSET blobs, s # {}, \A x \in s : s \ {x} \in U PROVE s \in U
  <2> DEFINE x == Furthest(s)
             q == g[s \ {x}]
  <2>1. x \in s /\ x \in blobs /\ s \ {x} \in SUBSET blobs /\ (s \ {x}) \cup {x} = s
    BY <1>1, <1>21
  <2>2. q \in Seq(Q)
    <3> HIDE DEF Q, x
    <3> QED
      BY <1>5, <2>1
  <2>3. Spanning(q, s \ {x})
    BY <1>21, <2>1, Zenon
  <2>4. g[s] = join_request(x, q)
    BY <1>6, <1>21
  <2>5. \A n \in s : n.vector.start <= x.vector.start
    <3>1. IsFiniteSet(s) /\ Ranged(s)
      BY FS_Subset DEF Ranged
    <3> QED
      BY <1>21, <3>1, FurthestOf
  <2> HIDE DEF x, q
  <2>6. Spanning(join_request(x, q), (s \ {x}) \cup {x})
    BY <2>1, <2>2, <2>3, <2>5, JoinSpans
  <2> QED
    BY <2>1, <2>4, <2>6
<1>22. U = SUBSET blobs
  <2>1. U \in SUBSET SUBSET blobs
    OBVIOUS
  <2> HIDE DEF U
  <2> QED
    BY <1>20, <1>21, <2>1, SubsetInduction
<1>23. Spanning(g[blobs], blobs)
  <2>1. blobs \in U
    <3> HIDE DEF U
    <3> QED
      BY <1>22
  <2> QED
    BY <2>1
<1>24. \A t \in ToSet(g[blobs]) : Spans(t)
  BY <1>23 DEF Spanning, ToSet
<1> QED
  BY <1>12, <1>13, <1>14, <1>19, <1>24
\* The merged Puffin reads are tasks of the side.
LEMMA PuffinSpawn ==
  ASSUME NEW side, SideShape(side)
  PROVE  Spawns(side, iceberg_vector_reads(side), {"open", "vector"})
<1> DEFINE V == Members(side, "puffin")
           B(p) == {m \in V : m.vector.path = p}
           C == {m.vector.path : m \in V}
           i == [m \in V |-> m.vector.path]
           j == [p \in C |-> merge_blob_ranges(B(p))]
<1>1. IsFiniteSet(V)
  BY MembersFinite
<1>2. Ranged(V)
  <2> SUFFICES ASSUME NEW m \in V PROVE m.vector.start \in Int /\ m.vector.end \in Int
    BY DEF Ranged
  <2>1. PICK e \in EntriesOf(side) : \E d \in e.deletes :
          d.kind = "puffin" /\ m = [file |-> e.path.id, vector |-> d]
    BY DEF Members
  <2>2. PICK d \in e.deletes : d.kind = "puffin" /\ m = [file |-> e.path.id, vector |-> d]
    BY <2>1
  <2>3. MechanismShape(side, d)
    BY <2>2 DEF SideShape
  <2> QED
    BY <2>2, <2>3 DEF MechanismShape
<1>3. ASSUME NEW p \in C
      PROVE  /\ IsFiniteSet(merge_blob_ranges(B(p)))
             /\ \A t \in merge_blob_ranges(B(p)) : t.op = "vector" /\ t.members \subseteq Vectors(side)
  <2>1. IsFiniteSet(B(p)) /\ Ranged(B(p)) /\ B(p) \subseteq Vectors(side)
    BY <1>1, <1>2, FS_Subset DEF Ranged, Vectors
  <2> HIDE DEF B
  <2>2. IsFiniteSet(merge_blob_ranges(B(p))) /\ merge_blob_ranges(B(p)) \subseteq PuffinRequests(B(p))
    BY <2>1, MergedRequests
  <2> QED
    BY <2>1, <2>2 DEF PuffinRequests
<1>4. IsFiniteSet(C)
  <2>1. C = {i[m] : m \in V} /\ DOMAIN i = V
    OBVIOUS
  <2> HIDE DEF C, i, V
  <2> QED
    BY <1>1, <2>1, FiniteImage
<1>5. iceberg_vector_reads(side) = UNION {j[p] : p \in C}
  BY DEF iceberg_vector_reads
<1>6. IsFiniteSet(UNION {j[p] : p \in C})
  <2>1. DOMAIN j = C /\ \A p \in C : IsFiniteSet(j[p])
    BY <1>3
  <2> HIDE DEF j, C
  <2> QED
    BY <1>4, <2>1, FiniteUnion
<1>7. ASSUME NEW t \in iceberg_vector_reads(side) PROVE t.op = "vector" /\ Reading(side, t)
  <2>1. PICK p \in C : t \in merge_blob_ranges(B(p))
    BY <1>5
  <2>2. t.op = "vector" /\ t.members \subseteq Vectors(side)
    BY <1>3, <2>1
  <2> QED
    BY <2>2 DEF Reading
<1> QED
  BY <1>5, <1>6, <1>7 DEF Spawns

-----------------------------------------------------------------------------
\* The position sets a task holds are those of files of its side.
FoundOK(side, found) ==
    /\ found = [f \in DOMAIN found |-> found[f]]
    /\ DOMAIN found \subseteq Assigned(side)
    /\ \A f \in DOMAIN found : found[f] \in FinNat

\* No position sets weigh nothing.
LEMMA NoSetsOK ==
  ASSUME NEW side
  PROVE  FoundOK(side, NoSets) /\ Sizes(NoSets) = 0
<1>1. DOMAIN NoSets = {} /\ NoSets = [f \in DOMAIN NoSets |-> NoSets[f]]
  BY DEF NoSets
<1>2. DOMAIN [f \in DOMAIN NoSets |-> Size(NoSets[f])] = {}
  BY <1>1
<1>3. Sizes(NoSets) = 0
  BY <1>2, SumEmpty DEF Sizes
<1> QED
  BY <1>1, <1>3 DEF FoundOK

\* A position set's size is a number of bytes.
LEMMA SizeNat ==
  ASSUME NEW P \in FinNat
  PROVE  Size(P) \in Nat
<1>1. Cardinality(P) \in Nat
  BY FS_CardinalityType DEF FinNat
<1> QED
  BY <1>1 DEF Size

\* So is the size of a task's sets, file by file.
LEMMA SizesNat ==
  ASSUME NEW side, SideShape(side), NEW found, FoundOK(side, found)
  PROVE  /\ Sizes(found) \in Nat
         /\ [f \in DOMAIN found |-> Size(found[f])] \in [DOMAIN found -> Nat]
         /\ IsFiniteSet(DOMAIN found)
<1>1. IsFiniteSet(DOMAIN found)
  BY EntriesFinite, FS_Subset DEF FoundOK
<1> DEFINE w == [f \in DOMAIN found |-> Size(found[f])]
<1>2. w \in [DOMAIN found -> Nat]
  BY SizeNat DEF FoundOK
<1>3. SumFunction(w) \in Nat
  <2> HIDE DEF w
  <2> QED
    BY <1>1, <1>2, SumNat
<1> QED
  BY <1>1, <1>2, <1>3 DEF Sizes

\* Decoded vectors are position sets of assigned files.
LEMMA DecodedOK ==
  ASSUME NEW side, SideShape(side), NEW members, members \subseteq Vectors(side), IsFiniteSet(members)
  PROVE  FoundOK(side, decode_vectors(members))
<1> DEFINE D == {m.file : m \in members}
           at(f) == UNION {m.vector.positions : m \in {n \in members : n.file = f}}
<1>1. decode_vectors(members) = [f \in D |-> at(f)]
  BY DEF decode_vectors
<1>2. D \subseteq Assigned(side)
  BY MembersOf
<1>3. ASSUME NEW f PROVE at(f) \in FinNat
  <2> DEFINE M == {n \in members : n.file = f}
             k == [m \in M |-> m.vector.positions]
  <2>1. IsFiniteSet(M) /\ DOMAIN k = M /\ \A m \in M : k[m] \in FinNat
    BY FS_Subset, MembersOf
  <2>2. at(f) = UNION {k[m] : m \in M}
    OBVIOUS
  <2> HIDE DEF M, k
  <2>3. IsFiniteSet(UNION {k[m] : m \in M}) /\ UNION {k[m] : m \in M} \subseteq Nat
    <3>1. \A m \in M : IsFiniteSet(k[m]) /\ k[m] \subseteq Nat
      BY <2>1 DEF FinNat
    <3> QED
      BY <2>1, <3>1, FiniteUnion
  <2> QED
    BY <2>2, <2>3 DEF FinNat
<1> HIDE DEF D, at
<1> QED
  BY <1>1, <1>2, <1>3 DEF FoundOK
\* The rows of a well-formed row group add positions of assigned files only.
LEMMA AddedOK ==
  ASSUME NEW side, SideShape(side), NEW found, FoundOK(side, found), NEW group,
         group.rows \in Seq([file : Nat, pos : Int, null : BOOLEAN]), ~Malformed(side, group)
  PROVE  FoundOK(side, add_positions(found, side, group))
<1> DEFINE rows == Applying(side, group)
           old(f) == IF f \in DOMAIN found THEN found[f] ELSE {}
           new(f) == {r.pos : r \in {q \in rows : q.file = f}}
           D == DOMAIN found \cup {r.file : r \in rows}
<1>1. add_positions(found, side, group) = [f \in D |-> old(f) \cup new(f)]
  BY DEF add_positions
<1>0. IsFiniteSet(ToSet(group.rows))
      /\ \A r \in ToSet(group.rows) : r \in [file : Nat, pos : Int, null : BOOLEAN]
  <2> DEFINE q == group.rows  X == [file : Nat, pos : Int, null : BOOLEAN]
  <2>1. q \in Seq(X)
    OBVIOUS
  <2> HIDE DEF q, X
  <2>2. IsFiniteSet(ToSet(q))
    BY <2>1, FiniteRange DEF ToSet
  <2>3. ASSUME NEW r \in ToSet(q) PROVE r \in X
    BY <2>1 DEF ToSet
  <2> QED
    BY <2>2, <2>3 DEF q, X
<1>2. IsFiniteSet(rows)
  <2>1. rows \subseteq ToSet(group.rows)
    BY DEF Applying
  <2> QED
    BY <1>0, <2>1, FS_Subset
<1>3. \A r \in rows : r.file \in Assigned(side) /\ r.pos \in Nat
  <2> TAKE r \in rows
  <2>1. r.file \in Assigned(side) /\ r \in ToSet(group.rows)
    BY DEF Applying
  <2>2. r.pos \in Int
    BY <1>0, <2>1
  <2>3. ~(r.pos < 0)
    BY DEF Malformed
  <2> QED
    BY <2>1, <2>2, <2>3
<1>4. D \subseteq Assigned(side)
  BY <1>3 DEF FoundOK
<1>5. ASSUME NEW f \in D PROVE old(f) \cup new(f) \in FinNat
  <2>1. old(f) \in FinNat
    BY FS_EmptySet DEF FoundOK, FinNat
  <2>2. new(f) \in FinNat
    <3> DEFINE R == {q \in rows : q.file = f}
               k == [r \in R |-> r.pos]
    <3>1. IsFiniteSet(R) /\ DOMAIN k = R /\ new(f) = {k[r] : r \in R}
      BY <1>2, FS_Subset
    <3>2. new(f) \subseteq Nat
      BY <1>3
    <3> HIDE DEF R, k, new
    <3> QED
      BY <3>1, <3>2, FiniteImage DEF FinNat
  <2> HIDE DEF old, new
  <2> QED
    BY <2>1, <2>2, FS_Union DEF FinNat
<1> HIDE DEF D, old, new
<1> QED
  BY <1>1, <1>4, <1>5 DEF FoundOK

\* An access plan's size is a number.
LEMMA FirstRowNat ==
  ASSUME NEW groups \in Seq(Nat), NEW g \in DOMAIN groups
  PROVE  FirstRow(groups, g) \in Nat
<1> DEFINE w == [k \in 1 .. g - 1 |-> groups[k]]
<1>1. g \in Nat /\ \A k \in 1 .. g - 1 : groups[k] \in Nat
  <2>1. g \in 1 .. Len(groups) /\ Len(groups) \in Nat /\ \A k \in 1 .. Len(groups) : groups[k] \in Nat
    OBVIOUS
  <2>2. \A k \in 1 .. g - 1 : k \in 1 .. Len(groups)
    BY <2>1
  <2> QED
    BY <2>1, <2>2
<1>2. w \in [1 .. g - 1 -> Nat] /\ IsFiniteSet(1 .. g - 1)
  <2>1. 1 \in Int /\ g - 1 \in Int
    BY <1>1
  <2>2. IsFiniteSet(1 .. g - 1)
    BY <2>1, FS_Interval
  <2> QED
    BY <1>1, <2>2
<1> HIDE DEF w
<1>3. SumFunction(w) \in Nat
  BY <1>2, SumNat
<1> QED
  BY <1>3 DEF w, FirstRow

\* The row selection of a group has finitely many selectors.
LEMMA SelectorsNat ==
  ASSUME NEW first \in Int, NEW last \in Int, NEW deletes
  PROVE  Len(Selectors(first, last, deletes)) \in Nat
<1> DEFINE heads == {p \in first .. last : p = first \/ (p \in deletes) # (p - 1 \in deletes)}
<1>1. IsFiniteSet(heads)
  BY FS_Interval, FS_Subset
<1>2. Cardinality(heads) \in Nat
  <2> HIDE DEF heads
  <2> QED
    BY <1>1, FS_CardinalityType
<1>3. DOMAIN Selectors(first, last, deletes) = 1 .. Cardinality(heads)
  BY DEF Selectors
<1>4. Selectors(first, last, deletes) = [i \in 1 .. Cardinality(heads) |-> Selectors(first, last, deletes)[i]]
  BY DEF Selectors
<1> HIDE DEF heads
<1> DEFINE n == Cardinality(heads)
           q == Selectors(first, last, deletes)
           X == {q[i] : i \in 1 .. n}
<1>5. n \in Nat /\ q = [i \in 1 .. n |-> q[i]]
  BY <1>2, <1>4
<1> HIDE DEF n, q
<1>6. q \in Seq(X)
  BY <1>5
<1>7. Len(q) \in Nat
  <2> HIDE DEF X
  <2> QED
    BY <1>6
<1> QED
  BY <1>7 DEF q

\* An access plan's size is a number of bytes.
LEMMA PlanBytesNat ==
  ASSUME NEW groups \in Seq(Nat), NEW deletes
  PROVE  access_plan_bytes(build_access_plan(groups, deletes)) \in Nat
<1> DEFINE plan == build_access_plan(groups, deletes)
           w == [g \in DOMAIN groups |-> Len(plan[g].selectors)]
<1>1. DOMAIN plan = DOMAIN groups
  BY DEF build_access_plan
<1>2. ASSUME NEW g \in DOMAIN groups PROVE Len(plan[g].selectors) \in Nat
  <2> DEFINE first == FirstRow(groups, g)
             last == first + groups[g] - 1
  <2>1. first \in Int /\ last \in Int
    <3>1. first \in Nat /\ groups[g] \in Nat
      BY FirstRowNat
    <3> HIDE DEF first
    <3> QED
      BY <3>1
  <2>2. plan[g] = CASE (first .. last) \cap deletes = {} -> [access |-> "scan", selectors |-> <<>>]
                    [] (first .. last) \subseteq deletes -> [access |-> "skip", selectors |-> <<>>]
                    [] OTHER -> [access |-> "select", selectors |-> Selectors(first, last, deletes)]
    BY Zenon DEF build_access_plan
  <2>3. plan[g].selectors = <<>> \/ plan[g].selectors = Selectors(first, last, deletes)
    <3> HIDE DEF first, last, plan
    <3> QED
      BY <2>2
  <2>4. Len(Selectors(first, last, deletes)) \in Nat
    <3> HIDE DEF first, last
    <3> QED
      BY <2>1, SelectorsNat
  <2>5. Len(<<>>) \in Nat
    OBVIOUS
  <2> HIDE DEF first, last, plan
  <2> QED
    BY <2>3, <2>4, <2>5
<1>3. IsFiniteSet(DOMAIN groups)
  <2>1. DOMAIN groups = 1 .. Len(groups) /\ Len(groups) \in Nat
    OBVIOUS
  <2> QED
    BY <2>1, FS_Interval
<1>4. w \in [DOMAIN groups -> Nat]
  <2> HIDE DEF plan
  <2> QED
    BY <1>2
<1>5. access_plan_bytes(plan) = SumFunction(w)
  <2> HIDE DEF plan
  <2> QED
    BY <1>1 DEF access_plan_bytes
<1>6. SumFunction(w) \in Nat
  <2> HIDE DEF w
  <2> QED
    BY <1>3, <1>4, SumNat
<1> QED
  BY <1>5, <1>6
-----------------------------------------------------------------------------
\* What a side of a call holds between two steps: its stage st, tasks ts, position
\* sets ss, access plans ps, reservation rs, while the call's outcome is oc.
Stages == {"unbuilt", "registering", "registered", "opening", "grouping", "uniting",
           "building", "ready", "streaming"}
Unregistered == {"unbuilt", "registering"}
Collecting == {"opening", "grouping", "uniting", "building"}

OpsAt(st) ==
    CASE st = "opening" -> {"open", "vector"}
      [] st = "grouping" -> {"group"}
      [] st = "uniting" -> {"union"}
      [] st = "building" -> {"plan"}
      [] OTHER -> {}

\* A task belongs to its stage.  A vector is decoded in one go, so its task has found
\* nothing before it is done; a plan's task finds nothing and its plan is new.
TaskOK(side, st, t, r, ps) ==
    /\ r = [at |-> r.at, left |-> r.left, found |-> r.found]
    /\ r.at \in TaskStates
    /\ FoundOK(side, r.found)
    /\ t.op \in OpsAt(st)
    /\ Reading(side, t)
    /\ t.op \in {"open", "group"} => r.left \subseteq DOMAIN side.content[t.path.id]
    /\ t.op = "vector" => r.at = "done" \/ r.found = NoSets
    /\ t.op \in {"union", "plan"} => t.path.id \in Assigned(side)
    /\ t.op = "plan" => r.found = NoSets /\ (r.at = "done" \/ t.path.id \notin DOMAIN ps)

SetOK(side, st, r) ==
    /\ r = [task |-> r.task, found |-> r.found]
    /\ FoundOK(side, r.found)
    /\ st = "grouping" => r.task.op \in {"open", "vector"}

SideInv(side, st, ts, ss, ps) ==
    /\ IsFiniteSet(DOMAIN ts)
    /\ \A t \in DOMAIN ts : TaskOK(side, st, t, ts[t], ps)
    /\ st \in {"uniting", "building"} => \A t, u \in DOMAIN ts : t.path.id = u.path.id => t = u
    /\ IsFiniteSet(ss)
    /\ \A r \in ss : SetOK(side, st, r)
    /\ st \notin {"grouping", "uniting", "building"} => ss = {}
    /\ DOMAIN ps \subseteq Assigned(side)
    /\ \A f \in DOMAIN ps : access_plan_bytes(ps[f]) \in Nat
    /\ st \notin {"building", "ready", "streaming"} => DOMAIN ps = {}

\* The bytes those things hold.
FoundIn(ss, f) == {r \in ss : f \in DOMAIN r.found}
SizesIn(ss, f) == [r \in FoundIn(ss, f) |-> Size(r.found[f])]
BytesIn(ss, f) == SumFunction(SizesIn(ss, f))
TaskSize(st, ss, t, r) ==
    IF st = "uniting" /\ r.at # "done" THEN BytesIn(ss, t.path.id) ELSE Sizes(r.found)
TaskSizes(st, ts, ss) == [t \in DOMAIN ts |-> TaskSize(st, ss, t, ts[t])]
SetSizes(ss) == [r \in ss |-> Sizes(r.found)]
SetTotal(st, ss) == IF st = "uniting" THEN 0 ELSE SumFunction(SetSizes(ss))
PlanSizes(ps) == [f \in DOMAIN ps |-> access_plan_bytes(ps[f])]
Held(st, ts, ss, ps) ==
    SumFunction(TaskSizes(st, ts, ss)) + SetTotal(st, ss) + SumFunction(PlanSizes(ps))

Good(side, st, ts, ss, ps, rs, oc) ==
    /\ SideInv(side, st, ts, ss, ps)
    /\ rs \in Nat
    /\ oc = "running" => rs = Held(st, ts, ss, ps)

\* HeldBytes, as a function of the side's stage, tasks, sets and plans.
LEMMA HeldIs ==
  ASSUME NEW s \in Sides
  PROVE  HeldBytes(s) = Held(stage[s], tasks[s], sets[s], plans[s])
<1>1. \A f : BytesOf(s, f) = BytesIn(sets[s], f)
  BY DEF BytesOf, BytesIn, SizesIn, FoundIn, SetsOf
<1>2. TaskBytes(s) = SumFunction(TaskSizes(stage[s], tasks[s], sets[s]))
  BY <1>1 DEF TaskBytes, TaskSizes, TaskSize
<1>3. PositionBytes(s) = SumFunction(SetSizes(sets[s])) /\ PlanBytes(s) = SumFunction(PlanSizes(plans[s]))
  BY DEF PositionBytes, SetSizes, PlanBytes, PlanSizes
<1> QED
  BY <1>2, <1>3 DEF HeldBytes, Held, SetTotal

\* The bytes that the position sets hold of one file are a number.
LEMMA BytesInNat ==
  ASSUME NEW side, SideShape(side), NEW ss, IsFiniteSet(ss), \A r \in ss : FoundOK(side, r.found), NEW f
  PROVE  BytesIn(ss, f) \in Nat /\ SizesIn(ss, f) \in [FoundIn(ss, f) -> Nat] /\ IsFiniteSet(FoundIn(ss, f))
<1>1. IsFiniteSet(FoundIn(ss, f))
  BY FS_Subset DEF FoundIn
<1>2. SizesIn(ss, f) \in [FoundIn(ss, f) -> Nat]
  <2>1. ASSUME NEW r \in FoundIn(ss, f) PROVE Size(r.found[f]) \in Nat
    <3>1. r.found[f] \in FinNat
      BY DEF FoundIn, FoundOK
    <3> QED
      BY <3>1, SizeNat
  <2> QED
    BY <2>1 DEF SizesIn
<1> QED
  BY <1>1, <1>2, SumNat DEF BytesIn

\* Every size that the invariant adds up is a number of bytes.
LEMMA SizesTyped ==
  ASSUME NEW side, SideShape(side), NEW st, NEW ts, NEW ss, NEW ps, SideInv(side, st, ts, ss, ps)
  PROVE  /\ TaskSizes(st, ts, ss) \in [DOMAIN ts -> Nat] /\ SumFunction(TaskSizes(st, ts, ss)) \in Nat
         /\ SetSizes(ss) \in [ss -> Nat] /\ SetTotal(st, ss) \in Nat
         /\ IsFiniteSet(DOMAIN ps) /\ PlanSizes(ps) \in [DOMAIN ps -> Nat]
         /\ SumFunction(PlanSizes(ps)) \in Nat
         /\ Held(st, ts, ss, ps) \in Nat
<1>0. IsFiniteSet(ss) /\ \A r \in ss : FoundOK(side, r.found)
  BY DEF SideInv, SetOK
<1>1. TaskSizes(st, ts, ss) \in [DOMAIN ts -> Nat]
  <2>1. ASSUME NEW t \in DOMAIN ts PROVE TaskSize(st, ss, t, ts[t]) \in Nat
    <3>1. Sizes(ts[t].found) \in Nat
      BY SizesNat DEF SideInv, TaskOK
    <3>2. BytesIn(ss, t.path.id) \in Nat
      BY <1>0, BytesInNat
    <3> QED
      BY <3>1, <3>2 DEF TaskSize
  <2> QED
    BY <2>1 DEF TaskSizes
<1>2. SumFunction(TaskSizes(st, ts, ss)) \in Nat
  BY <1>1, SumNat DEF SideInv
<1>3. SetSizes(ss) \in [ss -> Nat]
  <2>1. ASSUME NEW r \in ss PROVE Sizes(r.found) \in Nat
    BY <1>0, SizesNat
  <2> QED
    BY <2>1 DEF SetSizes
<1>4. SumFunction(SetSizes(ss)) \in Nat
  BY <1>0, <1>3, SumNat
<1>5. IsFiniteSet(DOMAIN ps)
  BY EntriesFinite, FS_Subset DEF SideInv
<1>6. PlanSizes(ps) \in [DOMAIN ps -> Nat]
  BY DEF PlanSizes, SideInv
<1>7. SumFunction(PlanSizes(ps)) \in Nat
  BY <1>5, <1>6, SumNat
<1>8. SetTotal(st, ss) \in Nat
  BY <1>4 DEF SetTotal
<1> QED
  BY <1>1, <1>2, <1>3, <1>5, <1>6, <1>7, <1>8 DEF Held

\* One task changes: the bytes held change by the task's own.
Updated(ts, t, r, now) ==
    DOMAIN now = DOMAIN ts /\ now[t] = r /\ \A u \in DOMAIN ts : u # t => now[u] = ts[u]

\* A task that changes its state moves the bytes held by its own difference.
LEMMA TaskUpdate ==
  ASSUME NEW side, SideShape(side), NEW st, NEW ts, NEW ss, NEW ps, SideInv(side, st, ts, ss, ps),
         NEW t \in DOMAIN ts, NEW r, TaskOK(side, st, t, r, ps), NEW now, Updated(ts, t, r, now)
  PROVE  /\ SideInv(side, st, now, ss, ps)
         /\ Held(st, now, ss, ps)
              = Held(st, ts, ss, ps) + TaskSize(st, ss, t, r) - TaskSize(st, ss, t, ts[t])
         /\ TaskSize(st, ss, t, r) \in Nat /\ TaskSize(st, ss, t, ts[t]) \in Nat
<1>1. SideInv(side, st, now, ss, ps)
  <2>1. ASSUME NEW u \in DOMAIN now PROVE TaskOK(side, st, u, now[u], ps)
    BY DEF Updated, SideInv
  <2>2. DOMAIN now = DOMAIN ts
    BY DEF Updated
  <2> QED
    BY <2>1, <2>2 DEF SideInv
<1> DEFINE f == TaskSizes(st, ts, ss)
           h == TaskSizes(st, now, ss)
<1>2. f \in [DOMAIN ts -> Nat] /\ h \in [DOMAIN ts -> Nat]
  <2>1. DOMAIN now = DOMAIN ts
    BY DEF Updated
  <2> QED
    BY <1>1, <2>1, SizesTyped
<1>3. h[t] = TaskSize(st, ss, t, r) /\ f[t] = TaskSize(st, ss, t, ts[t])
  BY DEF TaskSizes, Updated
<1>4. Agree(h, f, DOMAIN ts \ {t})
  BY DEF Agree, TaskSizes, Updated
<1>5. SumFunction(f) \in Nat /\ SumFunction(h) \in Nat /\ SetTotal(st, ss) \in Nat
      /\ SumFunction(PlanSizes(ps)) \in Nat
  BY <1>1, SizesTyped
<1>6. SumFunction(h) = SumFunction(f) + h[t] - f[t]
  <2>1. IsFiniteSet(DOMAIN ts)
    BY DEF SideInv
  <2>2. f \in [DOMAIN ts -> Int] /\ h \in [DOMAIN ts -> Int]
    BY <1>2
  <2> HIDE DEF f, h
  <2> QED
    BY <1>4, <2>1, <2>2, SumChange
<1>7. h[t] \in Nat /\ f[t] \in Nat
  BY <1>2
<1>8. Held(st, now, ss, ps) = SumFunction(h) + SetTotal(st, ss) + SumFunction(PlanSizes(ps))
      /\ Held(st, ts, ss, ps) = SumFunction(f) + SetTotal(st, ss) + SumFunction(PlanSizes(ps))
  BY DEF Held
<1> HIDE DEF f, h
<1>9. Held(st, now, ss, ps) = Held(st, ts, ss, ps) + h[t] - f[t]
  BY <1>5, <1>6, <1>7, <1>8
<1> QED
  BY <1>1, <1>3, <1>7, <1>9
-----------------------------------------------------------------------------
\* The inductive invariant.  Its parts: the shape of the state, what the stages say
\* of the file lists, the permits, and what each side holds.
Shape ==
    /\ call \in Calls
    /\ outcome \in {"running", "done", "failed"}
    /\ stage \in [Sides -> Stages]
    /\ DOMAIN tasks = Sides /\ DOMAIN sets = Sides /\ DOMAIN plans = Sides
    /\ DOMAIN reserved = Sides /\ DOMAIN emitted = Sides /\ DOMAIN todo = Sides
    /\ \A s \in Sides : todo[s] \subseteq GroupsOf(s)
    /\ faults \in 0 .. MaxFaults

\* No side goes beyond registering before the stores are told apart and no side
\* reads before every file list is registered.
Checked(s) == Side(s).entries # <<>> /\ validate_uniform_object_store_files(Side(s))
Registered ==
    /\ \/ \A s \in Sides : stage[s] = "unbuilt"
       \/ validate_sides_share_one_store /\ \A s \in Sides : stage[s] # "unbuilt"
    /\ \A s \in Sides : stage[s] \notin Unregistered => Checked(s)
    /\ \A s \in Sides : stage[s] \notin Unregistered \cup {"registered"} =>
         \A r \in Sides : stage[r] \notin Unregistered
    /\ \A s \in Sides : todo[s] # {} => stage[s] = "streaming"

\* No more reads hold a permit than the limiter gave out.
Permits == IsFiniteSet(PermitHolders) /\ Cardinality(PermitHolders) <= delete_path_read_limiter

GoodSide(s) == Good(Side(s), stage[s], tasks[s], sets[s], plans[s], reserved[s], outcome)
GoodSides == \A s \in Sides : GoodSide(s)

IInv == Shape /\ Registered /\ Permits /\ GoodSides /\ OwnCredential
\* What the assumption says of the call at hand.
LEMMA CallFacts ==
  ASSUME call \in Calls
  PROVE  /\ \A s \in Sides : SideShape(Side(s))
         /\ Len(call.sides) \in Nat /\ Sides = 1 .. Len(call.sides) /\ 1 \in Sides
         /\ IsFiniteSet(Sides)
         /\ delete_path_read_limiter \in Nat /\ MaxFaults \in Nat
<1>1. call.sides \in Seq(ToSet(call.sides)) /\ call.sides # <<>> /\ call.connections \in Nat
      /\ \A s \in Sides : SideShape(Side(s))
  BY ScanCallAssumption DEF Sides, Side
<1>2. Len(call.sides) \in Nat /\ Sides = 1 .. Len(call.sides) /\ 1 \in Sides
  <2> DEFINE q == call.sides  X == ToSet(q)
  <2>1. q \in Seq(X) /\ q # <<>>
    BY <1>1
  <2>2. Sides = DOMAIN q
    BY DEF Sides
  <2> HIDE DEF q, X
  <2>3. Len(q) \in Nat /\ DOMAIN q = 1 .. Len(q) /\ 1 \in DOMAIN q
    BY <2>1
  <2> QED
    BY <2>2, <2>3 DEF q
<1>3. IsFiniteSet(Sides)
  BY <1>2, FS_Interval
<1>4. delete_path_read_limiter \in Nat
  <2> DEFINE b == call.connections
  <2>1. b \in Nat
    BY <1>1
  <2> HIDE DEF b
  <2>2. Max({1, b}) \in Nat
    BY <2>1 DEF Max
  <2> QED
    BY <2>2 DEF delete_path_read_limiter, b
<1> QED
  BY <1>1, <1>2, <1>3, <1>4, ScanCallAssumption

-----------------------------------------------------------------------------
\* Which credential a request goes out with.
Covered(a) ==
    LET above(s) == IsPrefix(Side(s).root, a.path.root)
    IN  /\ a.path \in Listed(a.by) => side_store_url(Side(a.as)) = a.path.store
        /\ Len(call.sides) > 1 => Enumerates(a.as, a.path) \/ above(a.as)
        /\ \/ a.as = a.by
           \/ Enumerates(a.as, a.path)
           \/ ~above(a.by)
           \/ Len(Side(a.as).root) >= Len(Side(a.by).root)

\* A listed path lies in its side's own store.
LEMMA ListedStore ==
  ASSUME NEW s \in Sides, Checked(s), NEW p \in Listed(s)
  PROVE  p.store = side_store_url(Side(s))
<1>1. PICK e \in EntriesOf(Side(s)) : p \in {e.path} \cup {m.path : m \in {d \in e.deletes : d.kind # "delta"}}
  BY DEF Listed
<1>2. p \in {e.path} \cup UNION {object_store_path(m) : m \in e.deletes}
  BY <1>1 DEF object_store_path
<1> QED
  BY <1>2 DEF Checked, validate_uniform_object_store_files

\* A key the side's routed store owns is the key of a path the side lists.
LEMMA OwnedEnumerates ==
  ASSUME NEW s \in Sides, NEW p, Key(p) \in owned(s)
  PROVE  Enumerates(s, p)
<1>1. CASE \E e \in EntriesOf(Side(s)) : Key(p) = Key(e.path)
  <2>1. PICK e \in EntriesOf(Side(s)) : Key(p) = Key(e.path)
    BY <1>1
  <2>2. e.path \in Listed(s)
    BY DEF Listed
  <2> QED
    BY <2>1, <2>2 DEF Enumerates
<1>2. CASE \E q \in UNION {object_store_path(m) : m \in Mechanisms(Side(s))} : Key(p) = Key(q)
  <2>1. PICK m \in Mechanisms(Side(s)) : \E q \in object_store_path(m) : Key(p) = Key(q)
    BY <1>2
  <2>2. m.kind # "delta" /\ Key(p) = Key(m.path)
    BY <2>1 DEF object_store_path
  <2>3. PICK e \in EntriesOf(Side(s)) : m \in e.deletes
    BY DEF Mechanisms
  <2>4. m.path \in Listed(s)
    BY <2>2, <2>3 DEF Listed
  <2> QED
    BY <2>2, <2>4 DEF Enumerates
<1> QED
  BY <1>1, <1>2 DEF owned

\* The first and the last of some sides.
LEMMA MinMaxSides ==
  ASSUME call \in Calls, NEW S \in SUBSET Sides, S # {}
  PROVE  Min(S) \in S /\ Max(S) \in S
<1>1. S \in SUBSET Nat /\ \A x \in S : x <= Len(call.sides)
  BY CallFacts
<1>2. \E x \in S : \A y \in S : x <= y
  BY <1>1, LeastNumber
<1>3. \E x \in S : \A y \in S : x >= y
  <2>1. Len(call.sides) \in Nat
    BY CallFacts
  <2> QED
    BY <1>1, <2>1, GreatestNumber
<1> QED
  BY <1>2, <1>3 DEF Min, Max

\* Sides are numbered from one.
LEMMA NoSideZero ==
  ASSUME call \in Calls, NEW s \in Sides
  PROVE  s # 0
BY CallFacts

\* The router: the side that serves a request has the asking side's store and covers
\* the key; a key the side lists, or one under its root, is served.
LEMMA RouteIs ==
  ASSUME call \in Calls, validate_sides_share_one_store, \A r \in Sides : Checked(r),
         NEW s \in Sides, NEW path, NEW as, as = route(s, path)
  PROVE  /\ as # 0 =>
              /\ as \in Sides /\ side_store_url(Side(as)) = side_store_url(Side(s))
              /\ Len(call.sides) > 1 => Enumerates(as, path) \/ IsPrefix(Side(as).root, path.root)
              /\ \/ as = s \/ Enumerates(as, path) \/ ~IsPrefix(Side(s).root, path.root)
                 \/ Len(Side(as).root) >= Len(Side(s).root)
         /\ Key(path) \in owned(s) \/ IsPrefix(Side(s).root, path.root) => as # 0
<1> DEFINE url(r) == side_store_url(Side(r))
           above(r) == IsPrefix(Side(r).root, path.root)
<1>1. present_sides = Sides
  BY DEF present_sides, Checked
<1>3. CASE Cardinality(present_sides) = 1
  <2>1. as = 1
    BY <1>3 DEF route
  <2>2. Sides = {1} /\ Len(call.sides) = 1
    <3>1. Cardinality(Sides) = Len(call.sides)
      <4> DEFINE n == Len(call.sides)
      <4>1. n \in Nat /\ Sides = 1 .. n
        BY CallFacts
      <4> HIDE DEF n
      <4>2. Cardinality(1 .. n) = n
        BY <4>1, FS_Interval
      <4> QED
        BY <4>1, <4>2 DEF n
    <3>2. Len(call.sides) = 1
      BY <1>1, <1>3, <3>1
    <3> QED
      BY <3>2, CallFacts
  <2> QED
    BY <2>1, <2>2
<1>4. CASE Cardinality(present_sides) # 1
  <2> DEFINE rivals == {r \in Sides : registry_key(url(r)) = registry_key(url(s))}
             group == {r \in Sides : url(r) = url(Max(rivals))}
             listed == {r \in group : Key(path) \in owned(r)}
             under == {r \in group : above(r)}
             longest == {r \in under : \A u \in under : Len(Side(u).root) <= Len(Side(r).root)}
  <2>1. as = owning_side(group, path)
    BY <1>1, <1>4 DEF route, group_sides_by_store_url
  <2>2. url(Max(rivals)) = url(s)
    <3>1. rivals \in SUBSET Sides /\ rivals # {}
      OBVIOUS
    <3>2. Max(rivals) \in rivals
      <4> HIDE DEF rivals
      <4> QED
        BY <3>1, MinMaxSides
    <3>3. Max(rivals) \in Sides /\ registry_key(url(Max(rivals))) = registry_key(url(s))
      BY <3>2
    <3> HIDE DEF rivals
    <3> QED
      BY <1>1, <3>3 DEF validate_sides_share_one_store
  <2>3. group = {r \in Sides : url(r) = url(s)}
    BY <2>2
  <2>4. s \in group /\ \A r \in group : r \in Sides /\ url(r) = url(s)
    BY <2>3
  <2>5. as = CASE listed # {} -> Min(listed)
               [] listed = {} /\ under # {} -> Min(longest)
               [] OTHER -> 0
    BY <2>1, Zenon DEF owning_side
  <2> HIDE DEF group
  <2>6. CASE listed # {}
    <3>1. as = Min(listed)
      BY <2>5, <2>6
    <3>2. as \in listed
      <4>1. listed \in SUBSET Sides
        BY <2>4
      <4> HIDE DEF listed
      <4> QED
        BY <2>6, <3>1, <4>1, MinMaxSides
    <3>3. as \in Sides /\ url(as) = url(s) /\ Key(path) \in owned(as)
      BY <2>4, <3>2
    <3> QED
      BY <3>3, NoSideZero, OwnedEnumerates
  <2>7. CASE listed = {} /\ under # {}
    <3>1. as = Min(longest)
      BY <2>5, <2>7
    <3>2. longest # {}
      <4> DEFINE w == [r \in under |-> Len(Side(r).root)]
      <4>1. IsFiniteSet(under)
        BY <2>4, CallFacts, FS_Subset
      <4>2. w \in [under -> Int]
        <5> SUFFICES ASSUME NEW r \in under PROVE Len(Side(r).root) \in Int
          OBVIOUS
        <5>1. r \in Sides
          BY <2>4
        <5>2. Side(r).root \in Seq(STRING)
          BY <5>1, CallFacts DEF SideShape
        <5> QED
          BY <5>2
      <4>3. PICK x : IsGreatest(x, w, under)
        <5> HIDE DEF w, under
        <5> QED
          BY <2>7, <4>1, <4>2, FiniteGreatest
      <4>4. x \in under /\ \A u \in under : Len(Side(u).root) <= Len(Side(x).root)
        BY <4>3 DEF IsGreatest
      <4> QED
        BY <4>4
    <3>3. as \in longest
      <4>1. longest \in SUBSET Sides
        BY <2>4
      <4> HIDE DEF longest
      <4> QED
        BY <3>1, <3>2, <4>1, MinMaxSides
    <3>4. as \in Sides /\ url(as) = url(s) /\ above(as)
      BY <2>4, <3>3
    <3>5. above(s) => Len(Side(s).root) <= Len(Side(as).root)
      <4>1. above(s) => s \in under
        BY <2>4
      <4> HIDE DEF under, above
      <4> QED
        BY <3>3, <4>1
    <3>6. Len(Side(s).root) \in Nat /\ Len(Side(as).root) \in Nat
      <4>1. \A r \in Sides : Side(r).root \in Seq(STRING)
        BY CallFacts DEF SideShape
      <4>2. \A r \in Sides : Len(Side(r).root) \in Nat
        BY <4>1
      <4> QED
        BY <3>4, <4>2
    <3> DEFINE a == Len(Side(as).root)  b == Len(Side(s).root)
    <3>7. above(s) => a >= b
      <4>1. a \in Nat /\ b \in Nat /\ (above(s) => b <= a)
        BY <3>5, <3>6
      <4> HIDE DEF a, b, above
      <4> QED
        BY <4>1
    <3> QED
      BY <3>4, <3>7, NoSideZero
  <2>8. CASE listed = {} /\ under = {}
    <3>1. as = 0
      BY <2>5, <2>8
    <3> QED
      BY <2>4, <2>8, <3>1
  <2> QED
    BY <2>6, <2>7, <2>8
<1> QED
  BY <1>3, <1>4

\* A request that finds its object goes to a side that covers it.
LEMMA RouteCovers ==
  ASSUME call \in Calls, validate_sides_share_one_store, \A r \in Sides : Checked(r),
         NEW s \in Sides, NEW path, route(s, path) # 0
  PROVE  Covered(Request(s, path))
<1> DEFINE as == route(s, path)
<1>1. /\ side_store_url(Side(as)) = side_store_url(Side(s))
      /\ Len(call.sides) > 1 => Enumerates(as, path) \/ IsPrefix(Side(as).root, path.root)
      /\ \/ as = s \/ Enumerates(as, path) \/ ~IsPrefix(Side(s).root, path.root)
         \/ Len(Side(as).root) >= Len(Side(s).root)
  BY RouteIs
<1>2. path \in Listed(s) => side_store_url(Side(s)) = path.store
  BY ListedStore
<1> HIDE DEF as
<1> QED
  BY <1>1, <1>2 DEF Covered, Request, as

\* A step that sends at most this one request keeps OwnCredential.
LEMMA CredentialStep ==
  ASSUME call \in Calls, OwnCredential, call' = call, NEW s \in Sides, NEW path,
         \/ asked' = asked
         \/ asked' = asked \cup {Request(s, path)} /\ Covered(Request(s, path))
  PROVE  OwnCredential'
<1>1. \A a \in asked' : Covered(a)
  BY DEF OwnCredential, Covered
<1> SUFFICES ASSUME NEW a \in asked' PROVE
        LET above(r) == IsPrefix(Side(r)'.root, a.path.root)
        IN  /\ a.path \in Listed(a.by)' => side_store_url(Side(a.as)') = a.path.store
            /\ Len(call'.sides) > 1 => Enumerates(a.as, a.path)' \/ above(a.as)
            /\ \/ a.as = a.by
               \/ Enumerates(a.as, a.path)'
               \/ ~above(a.by)
               \/ Len(Side(a.as)'.root) >= Len(Side(a.by)'.root)
  BY DEF OwnCredential
<1> QED
  BY <1>1 DEF Covered, Listed, Enumerates, Side
-----------------------------------------------------------------------------
\* Permits: only Acquire adds a holder.
NoNewHolder ==
    \A r \in Sides : \A u \in DOMAIN tasks'[r] :
        HoldsPermit(u, tasks'[r][u].at) => u \in DOMAIN tasks[r] /\ HoldsPermit(u, tasks[r][u].at)
OneNewHolder(s, t) ==
    \A r \in Sides : \A u \in DOMAIN tasks'[r] :
        HoldsPermit(u, tasks'[r][u].at) =>
            \/ r = s /\ u = t
            \/ u \in DOMAIN tasks[r] /\ HoldsPermit(u, tasks[r][u].at)

\* What is in PermitHolders.
LEMMA HoldersOf ==
  ASSUME NEW x
  PROVE  /\ x \in PermitHolders <=>
              \E r \in Sides : \E u \in DOMAIN tasks[r] : HoldsPermit(u, tasks[r][u].at) /\ x = <<r, u>>
         /\ call' = call => (x \in PermitHolders' <=>
              \E r \in Sides : \E u \in DOMAIN tasks'[r] : HoldsPermit(u, tasks'[r][u].at) /\ x = <<r, u>>)
<1>1. x \in PermitHolders <=>
        \E r \in Sides : \E u \in DOMAIN tasks[r] : HoldsPermit(u, tasks[r][u].at) /\ x = <<r, u>>
  BY DEF PermitHolders
<1>2. ASSUME call' = call
      PROVE  x \in PermitHolders' <=>
               \E r \in Sides : \E u \in DOMAIN tasks'[r] : HoldsPermit(u, tasks'[r][u].at) /\ x = <<r, u>>
  <2>1. Sides' = Sides
    BY <1>2 DEF Sides
  <2> QED
    BY <2>1 DEF PermitHolders, HoldsPermit, HoldsWhileDecoding
<1> QED
  BY <1>1, <1>2

\* A step without a new holder keeps the permits within the limiter.
LEMMA PermitsKept ==
  ASSUME Permits, call \in Calls, call' = call, NoNewHolder
  PROVE  Permits'
<1>1. PermitHolders' \subseteq PermitHolders
  BY HoldersOf DEF NoNewHolder
<1>2. delete_path_read_limiter' = delete_path_read_limiter
  BY DEF delete_path_read_limiter
<1> DEFINE H == PermitHolders  K == PermitHolders'  n == delete_path_read_limiter
<1>3. IsFiniteSet(H) /\ Cardinality(H) <= n /\ K \subseteq H /\ n \in Nat
  BY <1>1, CallFacts DEF Permits
<1>4. IsFiniteSet(K) /\ Cardinality(K) <= n
  <2> HIDE DEF H, K, n
  <2>1. IsFiniteSet(K) /\ Cardinality(K) <= Cardinality(H) /\ Cardinality(H) \in Nat /\ Cardinality(K) \in Nat
    BY <1>3, FS_Subset, FS_CardinalityType
  <2> QED
    BY <1>3, <2>1
<1> QED
  BY <1>2, <1>4 DEF Permits

\* A step that hands one task a permit needs one to be free.
LEMMA PermitsTaken ==
  ASSUME Permits, call \in Calls, call' = call, NEW s, NEW t, OneNewHolder(s, t),
         Cardinality(PermitHolders) < delete_path_read_limiter
  PROVE  Permits'
<1> DEFINE H == PermitHolders  K == PermitHolders'  n == delete_path_read_limiter  x == <<s, t>>
<1>1. K \subseteq H \cup {x}
  BY HoldersOf DEF OneNewHolder
<1>2. delete_path_read_limiter' = n
  BY DEF delete_path_read_limiter
<1>3. IsFiniteSet(H) /\ Cardinality(H) < n /\ n \in Nat
  BY CallFacts DEF Permits
<1>4. IsFiniteSet(K) /\ Cardinality(K) <= n
  <2> HIDE DEF H, K, n, x
  <2>1. IsFiniteSet(H \cup {x}) /\ Cardinality(H) \in Nat /\ Cardinality(H \cup {x}) <= Cardinality(H) + 1
    <3>1. Cardinality(H) \in Nat
      BY <1>3, FS_CardinalityType
    <3>2. IsFiniteSet(H \cup {x})
          /\ Cardinality(H \cup {x}) = IF x \in H THEN Cardinality(H) ELSE Cardinality(H) + 1
      BY <1>3, FS_AddElement
    <3> QED
      BY <3>1, <3>2
  <2>2. IsFiniteSet(K) /\ Cardinality(K) <= Cardinality(H \cup {x})
        /\ Cardinality(H \cup {x}) \in Nat /\ Cardinality(K) \in Nat
    BY <1>1, <2>1, FS_Subset, FS_CardinalityType
  <2> QED
    BY <1>3, <2>1, <2>2
<1> QED
  BY <1>2, <1>4 DEF Permits

-----------------------------------------------------------------------------
\* One side changes.
OnlySide(s) ==
    /\ call' = call /\ outcome' = outcome
    /\ \A o \in Sides \ {s} :
         /\ stage'[o] = stage[o] /\ tasks'[o] = tasks[o] /\ sets'[o] = sets[o]
         /\ plans'[o] = plans[o] /\ reserved'[o] = reserved[o]

\* A step of one side leaves the other side's accounting alone.
LEMMA SideGood ==
  ASSUME GoodSides, NEW s \in Sides, OnlySide(s),
         Good(Side(s), stage'[s], tasks'[s], sets'[s], plans'[s], reserved'[s], outcome)
  PROVE  GoodSides'
<1>1. Sides' = Sides /\ outcome' = outcome /\ \A o \in Sides : Side(o)' = Side(o)
  BY DEF Sides, Side, OnlySide
<1>2. ASSUME NEW o \in Sides
      PROVE  Good(Side(o), stage'[o], tasks'[o], sets'[o], plans'[o], reserved'[o], outcome)
  <2>1. CASE o = s
    BY <2>1
  <2>2. CASE o # s
    <3>1. Good(Side(o), stage[o], tasks[o], sets[o], plans[o], reserved[o], outcome)
      BY DEF GoodSides, GoodSide
    <3>2. stage'[o] = stage[o] /\ tasks'[o] = tasks[o] /\ sets'[o] = sets[o]
          /\ plans'[o] = plans[o] /\ reserved'[o] = reserved[o]
      BY <2>2 DEF OnlySide
    <3> QED
      BY <3>1, <3>2
  <2> QED
    BY <2>1, <2>2
<1>3. ASSUME NEW o \in Sides PROVE GoodSide(o)'
  <2>1. Good(Side(o)', stage'[o], tasks'[o], sets'[o], plans'[o], reserved'[o], outcome')
    BY <1>1, <1>2
  <2> QED
    BY <2>1 DEF GoodSide
<1> QED
  BY <1>1, <1>3 DEF GoodSides
-----------------------------------------------------------------------------
\* One task changes.
OneTask(s, t, r) ==
    /\ call' = call /\ outcome' = outcome /\ stage' = stage /\ sets' = sets /\ plans' = plans
    /\ Updated(tasks[s], t, r, tasks'[s])
    /\ \A o \in Sides \ {s} : tasks'[o] = tasks[o] /\ reserved'[o] = reserved[o]

\* A task may change as it likes while the reservation follows its bytes.
LEMMA TaskGood ==
  ASSUME call \in Calls, GoodSides, outcome = "running", NEW s \in Sides, NEW t \in DOMAIN tasks[s], NEW r,
         OneTask(s, t, r), TaskOK(Side(s), stage[s], t, r, plans[s]),
         reserved'[s] = reserved[s] + TaskSize(stage[s], sets[s], t, r)
                          - TaskSize(stage[s], sets[s], t, tasks[s][t])
  PROVE  GoodSides'
<1> DEFINE side == Side(s)  st == stage[s]  ts == tasks[s]  ss == sets[s]  ps == plans[s]
           now == tasks'[s]
<1>1. SideShape(side)
  BY CallFacts
<1>2. SideInv(side, st, ts, ss, ps) /\ reserved[s] \in Nat /\ reserved[s] = Held(st, ts, ss, ps)
  BY DEF GoodSides, GoodSide, Good
<1>3. Updated(ts, t, r, now)
  BY DEF OneTask
<1>4. /\ SideInv(side, st, now, ss, ps)
      /\ Held(st, now, ss, ps) = Held(st, ts, ss, ps) + TaskSize(st, ss, t, r) - TaskSize(st, ss, t, ts[t])
  <2> HIDE DEF side, st, ss, ps, now
  <2>1. TaskOK(side, st, t, r, ps)
    BY DEF side, st, ps
  <2> HIDE DEF ts
  <2>2. t \in DOMAIN ts
    BY DEF ts
  <2> QED
    BY <1>1, <1>2, <1>3, <2>1, <2>2, TaskUpdate
<1>5. reserved'[s] = Held(st, now, ss, ps)
  BY <1>2, <1>4
<1>6. Held(st, now, ss, ps) \in Nat
  <2> HIDE DEF side, st, ss, ps, now
  <2> QED
    BY <1>1, <1>4, SizesTyped
<1>7. Good(side, st, now, ss, ps, reserved'[s], outcome)
  <2> HIDE DEF side, st, ss, ps, now
  <2> QED
    BY <1>4, <1>5, <1>6 DEF Good
<1>8. OnlySide(s)
  BY DEF OnlySide, OneTask
<1>9. stage'[s] = st /\ sets'[s] = ss /\ plans'[s] = ps
  BY DEF OneTask
<1> HIDE DEF st, ss, ps
<1>10. Good(Side(s), stage'[s], tasks'[s], sets'[s], plans'[s], reserved'[s], outcome)
  BY <1>7, <1>9
<1> QED
  BY <1>8, <1>10, SideGood

\* What the invariant says of a task.
LEMMA TaskFacts ==
  ASSUME call \in Calls, GoodSides, NEW s \in Sides, NEW t \in DOMAIN tasks[s]
  PROVE  /\ TaskOK(Side(s), stage[s], t, tasks[s][t], plans[s])
         /\ reserved[s] \in Nat
         /\ Sizes(tasks[s][t].found) \in Nat
         /\ BytesIn(sets[s], t.path.id) \in Nat
<1>1. SideInv(Side(s), stage[s], tasks[s], sets[s], plans[s]) /\ reserved[s] \in Nat
  BY DEF GoodSides, GoodSide, Good
<1>2. TaskOK(Side(s), stage[s], t, tasks[s][t], plans[s])
  BY <1>1 DEF SideInv
<1>3. SideShape(Side(s))
  BY CallFacts
<1>4. Sizes(tasks[s][t].found) \in Nat
  BY <1>2, <1>3, SizesNat DEF TaskOK
<1>5. BytesIn(sets[s], t.path.id) \in Nat
  BY <1>1, <1>3, BytesInNat DEF SideInv, SetOK
<1> QED
  BY <1>1, <1>2, <1>4, <1>5

\* A task moves on from waiting or reading: it has found nothing new.
LEMMA MoveGood ==
  ASSUME call \in Calls, GoodSides, outcome = "running", NEW s \in Sides, NEW t \in DOMAIN tasks[s],
         tasks[s][t].at # "done", NEW at \in {"reading", "decoding"}, DOMAIN tasks = Sides,
         tasks' = [tasks EXCEPT ![s][t].at = at],
         UNCHANGED <<call, outcome, stage, sets, plans, reserved>>
  PROVE  /\ GoodSides'
         /\ DOMAIN tasks' = Sides /\ \A o \in Sides \ {s} : tasks'[o] = tasks[o]
         /\ DOMAIN tasks'[s] = DOMAIN tasks[s] /\ tasks'[s][t].at = at
         /\ \A u \in DOMAIN tasks[s] \ {t} : tasks'[s][u] = tasks[s][u]
<1> DEFINE old == tasks[s][t]
           r == [at |-> at, left |-> old.left, found |-> old.found]
<1>1. TaskOK(Side(s), stage[s], t, old, plans[s])
  BY TaskFacts
<1>2. old = [at |-> old.at, left |-> old.left, found |-> old.found]
  BY <1>1 DEF TaskOK
<1>3. tasks'[s] = [tasks[s] EXCEPT ![t] = [old EXCEPT !.at = at]]
  OBVIOUS
<1>4. [old EXCEPT !.at = at] = r
  <2> HIDE DEF old
  <2> QED
    BY <1>2
<1>5. Updated(tasks[s], t, r, tasks'[s])
  <2> HIDE DEF r, old
  <2> QED
    BY <1>3, <1>4 DEF Updated
<1>6. TaskOK(Side(s), stage[s], t, r, plans[s])
  <2>1. r.at = at /\ r.left = old.left /\ r.found = old.found
    OBVIOUS
  <2>2. r = [at |-> r.at, left |-> r.left, found |-> r.found]
    OBVIOUS
  <2>3. old.at # "done"
    OBVIOUS
  <2> HIDE DEF r, old
  <2> QED
    BY <1>1, <2>1, <2>2, <2>3 DEF TaskOK, TaskStates
<1>7. TaskSize(stage[s], sets[s], t, r) = TaskSize(stage[s], sets[s], t, old)
  BY DEF TaskSize
<1>8. \A o \in Sides \ {s} : tasks'[o] = tasks[o]
  OBVIOUS
<1>9. OneTask(s, t, r)
  <2> HIDE DEF r, old
  <2> QED
    BY <1>5, <1>8 DEF OneTask
<1>10. reserved'[s] = reserved[s] + TaskSize(stage[s], sets[s], t, r)
                          - TaskSize(stage[s], sets[s], t, tasks[s][t])
  <2> DEFINE a == TaskSize(stage[s], sets[s], t, r)  b == TaskSize(stage[s], sets[s], t, tasks[s][t])
  <2>1. a = b
    BY <1>7
  <2>2. b \in Nat /\ reserved[s] \in Nat
    BY TaskFacts DEF TaskSize
  <2>3. reserved'[s] = reserved[s]
    OBVIOUS
  <2> HIDE DEF a, b
  <2>4. reserved'[s] = reserved[s] + a - b
    BY <2>1, <2>2, <2>3
  <2> QED
    BY <2>4 DEF a, b
<1>11. GoodSides'
  <2> HIDE DEF r
  <2> QED
    BY <1>6, <1>9, <1>10, TaskGood
<1>12. DOMAIN tasks' = Sides
  OBVIOUS
<1>13. tasks'[s][t].at = at
  BY <1>5 DEF Updated
<1> QED
  BY <1>5, <1>8, <1>11, <1>12, <1>13 DEF Updated
\* A task of side s changes and holds no permit it did not hold.
TaskFrame(s, t) ==
    /\ DOMAIN tasks' = Sides /\ \A o \in Sides \ {s} : tasks'[o] = tasks[o]
    /\ DOMAIN tasks'[s] = DOMAIN tasks[s]
    /\ \A u \in DOMAIN tasks[s] \ {t} : tasks'[s][u] = tasks[s][u]

\* A step of a task that does not take a permit adds no holder.
LEMMA FrameHolders ==
  ASSUME NEW s \in Sides, NEW t \in DOMAIN tasks[s], TaskFrame(s, t),
         HoldsPermit(t, tasks'[s][t].at) => HoldsPermit(t, tasks[s][t].at)
  PROVE  NoNewHolder
<1> SUFFICES ASSUME NEW r \in Sides, NEW u \in DOMAIN tasks'[r], HoldsPermit(u, tasks'[r][u].at)
             PROVE  u \in DOMAIN tasks[r] /\ HoldsPermit(u, tasks[r][u].at)
  BY DEF NoNewHolder
<1>1. CASE r # s
  BY <1>1 DEF TaskFrame
<1>2. CASE r = s /\ u = t
  BY <1>2
<1>3. CASE r = s /\ u # t
  BY <1>3 DEF TaskFrame
<1> QED
  BY <1>1, <1>2, <1>3

\* A task ends with the sets it found.
LEMMA FinishGood ==
  ASSUME call \in Calls, GoodSides, outcome = "running", NEW s \in Sides, NEW t \in DOMAIN tasks[s],
         DOMAIN tasks = Sides, DOMAIN reserved = Sides,
         NEW found, FoundOK(Side(s), found), t.op # "plan", NEW bytes,
         bytes = Sizes(found) - TaskSize(stage[s], sets[s], t, tasks[s][t]),
         tasks' = [tasks EXCEPT ![s][t] = [at |-> "done", left |-> {}, found |-> found]],
         reserved' = [reserved EXCEPT ![s] = @ + bytes],
         UNCHANGED <<call, outcome, stage, sets, plans>>
  PROVE  GoodSides' /\ NoNewHolder /\ DOMAIN tasks' = Sides /\ DOMAIN reserved' = Sides
<1> DEFINE old == tasks[s][t]
           r == [at |-> "done", left |-> {}, found |-> found]
<1>1. TaskOK(Side(s), stage[s], t, old, plans[s])
  BY TaskFacts
<1>2. tasks'[s] = [tasks[s] EXCEPT ![t] = r]
  OBVIOUS
<1>3. TaskOK(Side(s), stage[s], t, r, plans[s])
  <2>1. r.at = "done" /\ r.left = {} /\ r.found = found
        /\ r = [at |-> r.at, left |-> r.left, found |-> r.found]
    OBVIOUS
  <2> HIDE DEF r, old
  <2> QED
    BY <1>1, <2>1 DEF TaskOK, TaskStates
<1>4. TaskSize(stage[s], sets[s], t, r) = Sizes(found)
  BY DEF TaskSize
<1>5. TaskFrame(s, t) /\ tasks'[s][t] = r
  <2>1. \A o \in Sides \ {s} : tasks'[o] = tasks[o]
    OBVIOUS
  <2>2. DOMAIN tasks' = Sides
    OBVIOUS
  <2> HIDE DEF r
  <2> QED
    BY <1>2, <2>1, <2>2 DEF TaskFrame
<1>6. Updated(tasks[s], t, r, tasks'[s])
  <2> HIDE DEF r
  <2> QED
    BY <1>5 DEF Updated, TaskFrame
<1>7. OneTask(s, t, r)
  <2>1. \A o \in Sides \ {s} : reserved'[o] = reserved[o]
    OBVIOUS
  <2> HIDE DEF r
  <2> QED
    BY <1>5, <1>6, <2>1 DEF OneTask, TaskFrame
<1>8. reserved'[s] = reserved[s] + TaskSize(stage[s], sets[s], t, r)
                          - TaskSize(stage[s], sets[s], t, tasks[s][t])
  <2> DEFINE a == TaskSize(stage[s], sets[s], t, r)  b == TaskSize(stage[s], sets[s], t, tasks[s][t])
  <2>1. b \in Nat /\ reserved[s] \in Nat
    BY TaskFacts DEF TaskSize
  <2>2. a \in Nat
    <3>1. SideShape(Side(s))
      BY CallFacts
    <3> QED
      BY <1>4, <3>1, SizesNat
  <2>3. bytes = a - b
    BY <1>4
  <2>4. reserved'[s] = reserved[s] + bytes
    OBVIOUS
  <2> HIDE DEF a, b
  <2>5. reserved'[s] = reserved[s] + a - b
    BY <2>1, <2>2, <2>3, <2>4
  <2> QED
    BY <2>5 DEF a, b
<1>9. GoodSides'
  <2> HIDE DEF r
  <2> QED
    BY <1>3, <1>7, <1>8, TaskGood
<1>10. NoNewHolder
  <2>1. ~HoldsPermit(t, "done")
    BY DEF HoldsPermit
  <2>2. tasks'[s][t].at = "done"
    BY <1>5
  <2> QED
    BY <1>5, <2>1, <2>2, FrameHolders
<1> QED
  BY <1>5, <1>9, <1>10 DEF TaskFrame

\* EndDecode: the reservation already holds what the batches found.
LEMMA EndDecodeGood ==
  ASSUME Shape, GoodSides, NEW s \in Sides, NEW t \in DOMAIN tasks[s], EndDecode(s, t), ~Fail
  PROVE  GoodSides' /\ NoNewHolder /\ DOMAIN tasks' = Sides /\ DOMAIN reserved' = Sides
<1> DEFINE found == tasks[s][t].found
<1>1. call \in Calls /\ DOMAIN tasks = Sides /\ DOMAIN reserved = Sides
  BY DEF Shape
<1>2. TaskOK(Side(s), stage[s], t, tasks[s][t], plans[s]) /\ Sizes(found) \in Nat
  BY <1>1, TaskFacts
<1>3. t.op \in {"open", "group"} /\ outcome = "running"
  BY DEF EndDecode
<1>4. stage[s] # "uniting" /\ t.op # "plan" /\ FoundOK(Side(s), found)
  BY <1>2, <1>3 DEF TaskOK, OpsAt
<1>5. 0 = Sizes(found) - TaskSize(stage[s], sets[s], t, tasks[s][t])
  <2>1. TaskSize(stage[s], sets[s], t, tasks[s][t]) = Sizes(found)
    BY <1>4 DEF TaskSize
  <2> QED
    BY <1>2, <2>1
<1>6. /\ tasks' = [tasks EXCEPT ![s][t] = [at |-> "done", left |-> {}, found |-> found]]
      /\ reserved' = [reserved EXCEPT ![s] = @ + 0]
      /\ UNCHANGED <<call, outcome, stage, sets, plans>>
  BY DEF EndDecode, Finish
<1> HIDE DEF found
<1> QED
  BY <1>1, <1>3, <1>4, <1>5, <1>6, FinishGood

\* DecodeVectors: the vectors of a task are decoded and reserved in one go.
LEMMA DecodeVectorsGood ==
  ASSUME Shape, GoodSides, NEW s \in Sides, NEW t \in DOMAIN tasks[s], DecodeVectors(s, t), ~Fail
  PROVE  GoodSides' /\ NoNewHolder /\ DOMAIN tasks' = Sides /\ DOMAIN reserved' = Sides
<1> DEFINE found == decode_vectors(t.members)
<1>1. call \in Calls /\ DOMAIN tasks = Sides /\ DOMAIN reserved = Sides
  BY DEF Shape
<1>2. TaskOK(Side(s), stage[s], t, tasks[s][t], plans[s]) /\ SideShape(Side(s))
  BY <1>1, TaskFacts, CallFacts
<1>3. t.op = "vector" /\ outcome = "running" /\ tasks[s][t].at = "decoding"
  BY DEF DecodeVectors
<1>4. stage[s] # "uniting" /\ t.op # "plan" /\ tasks[s][t].found = NoSets /\ t.members \subseteq Vectors(Side(s))
  BY <1>2, <1>3 DEF TaskOK, OpsAt, Reading
<1>5. IsFiniteSet(t.members)
  <2>1. IsFiniteSet(Vectors(Side(s)))
    BY <1>2, MembersFinite, FS_Union DEF Vectors
  <2> QED
    BY <1>4, <2>1, FS_Subset
<1>6. FoundOK(Side(s), found)
  BY <1>2, <1>4, <1>5, DecodedOK
<1>7. Sizes(found) = Sizes(found) - TaskSize(stage[s], sets[s], t, tasks[s][t])
  <2>1. TaskSize(stage[s], sets[s], t, tasks[s][t]) = 0
    BY <1>4, NoSetsOK DEF TaskSize
  <2>2. Sizes(found) \in Nat
    BY <1>2, <1>6, SizesNat
  <2> DEFINE a == Sizes(found)  b == TaskSize(stage[s], sets[s], t, tasks[s][t])
  <2>3. a \in Nat /\ b = 0
    BY <2>1, <2>2
  <2> HIDE DEF a, b
  <2>4. a = a - b
    BY <2>3
  <2> QED
    BY <2>4 DEF a, b
<1>8. Finish(s, t, found, Sizes(found))
  BY DEF DecodeVectors
<1> HIDE DEF found
<1>9. /\ tasks' = [tasks EXCEPT ![s][t] = [at |-> "done", left |-> {}, found |-> found]]
      /\ reserved' = [reserved EXCEPT ![s] = @ + Sizes(found)]
      /\ UNCHANGED <<call, outcome, stage, sets, plans>>
  BY <1>8 DEF Finish
<1> QED
  BY <1>1, <1>3, <1>4, <1>6, <1>7, <1>9, FinishGood

\* Unite: the union of a file's sets replaces them, and so do its bytes.
LEMMA UniteGood ==
  ASSUME Shape, GoodSides, NEW s \in Sides, NEW t \in DOMAIN tasks[s], Unite(s, t), ~Fail
  PROVE  GoodSides' /\ NoNewHolder /\ DOMAIN tasks' = Sides /\ DOMAIN reserved' = Sides
<1> DEFINE f == t.path.id
           found == [x \in {f} |-> Union(s, f)]
           bytes == Size(Union(s, f)) - BytesOf(s, f)
<1>1. call \in Calls /\ DOMAIN tasks = Sides /\ DOMAIN reserved = Sides
  BY DEF Shape
<1>2. TaskOK(Side(s), stage[s], t, tasks[s][t], plans[s]) /\ SideShape(Side(s))
  BY <1>1, TaskFacts, CallFacts
<1>3. t.op = "union" /\ outcome = "running" /\ tasks[s][t].at = "decoding"
  BY DEF Unite
<1>4. stage[s] = "uniting" /\ f \in Assigned(Side(s))
  BY <1>2, <1>3 DEF TaskOK, OpsAt
<1>5. Union(s, f) \in FinNat
  <2> DEFINE R == SetsOf(s, f)
             k == [r \in R |-> r.found[f]]
  <2>1. IsFiniteSet(sets[s]) /\ \A r \in sets[s] : FoundOK(Side(s), r.found)
    BY DEF GoodSides, GoodSide, Good, SideInv, SetOK
  <2>2. IsFiniteSet(R) /\ DOMAIN k = R
    BY <2>1, FS_Subset DEF SetsOf
  <2>3. \A r \in R : IsFiniteSet(k[r]) /\ k[r] \subseteq Nat
    BY <2>1 DEF SetsOf, FoundOK, FinNat
  <2>4. Union(s, f) = UNION {k[r] : r \in R}
    BY DEF Union
  <2> HIDE DEF R, k, f
  <2>5. IsFiniteSet(UNION {k[r] : r \in R}) /\ UNION {k[r] : r \in R} \subseteq Nat
    BY <2>2, <2>3, FiniteUnion
  <2> QED
    BY <2>4, <2>5 DEF FinNat
<1>6. FoundOK(Side(s), found)
  <2> HIDE DEF f
  <2> QED
    BY <1>4, <1>5 DEF FoundOK
<1>7. Sizes(found) = Size(Union(s, f))
  <2> DEFINE w == [x \in {f} |-> Size(Union(s, f))]
  <2>1. w \in [{f} -> Int]
    BY <1>5, SizeNat
  <2>2. SumFunction(w) = w[f]
    <3> HIDE DEF w, f
    <3> QED
      BY <2>1, SumOne
  <2>3. Sizes(found) = SumFunction(w)
    <3>1. [x \in DOMAIN found |-> Size(found[x])] = w
      <4> HIDE DEF f
      <4> QED
        OBVIOUS
    <3> HIDE DEF w, found
    <3> QED
      BY <3>1 DEF Sizes
  <2> HIDE DEF found
  <2> QED
    BY <2>2, <2>3
<1>8. bytes = Sizes(found) - TaskSize(stage[s], sets[s], t, tasks[s][t])
  <2>1. BytesOf(s, f) = BytesIn(sets[s], f)
    BY DEF BytesOf, BytesIn, SizesIn, FoundIn, SetsOf
  <2>2. TaskSize(stage[s], sets[s], t, tasks[s][t]) = BytesIn(sets[s], f)
    BY <1>3, <1>4 DEF TaskSize
  <2> HIDE DEF f, found
  <2> QED
    BY <1>7, <2>1, <2>2
<1>9. Finish(s, t, found, bytes)
  BY Zenon DEF Unite
<1> HIDE DEF found, bytes
<1>10. /\ tasks' = [tasks EXCEPT ![s][t] = [at |-> "done", left |-> {}, found |-> found]]
       /\ reserved' = [reserved EXCEPT ![s] = @ + bytes]
       /\ UNCHANGED <<call, outcome, stage, sets, plans>>
  BY <1>9 DEF Finish
<1>11. t.op # "plan"
  BY <1>3
<1> QED
  BY <1>1, <1>3, <1>6, <1>8, <1>10, <1>11, FinishGood
\* DecodeBatch: the reservation grows by what the batch adds to the sets.
LEMMA DecodeBatchGood ==
  ASSUME Shape, GoodSides, NEW s \in Sides, NEW t \in DOMAIN tasks[s], DecodeBatch(s, t), ~Fail
  PROVE  GoodSides' /\ NoNewHolder /\ DOMAIN tasks' = Sides /\ DOMAIN reserved' = Sides
<1> DEFINE side == Side(s)
           old == tasks[s][t]
           g == Min(old.left)
           group == side.content[t.path.id][g]
           found == add_positions(old.found, side, group)
           growth == Sizes(found) - Sizes(old.found)
           r == [at |-> "decoding", left |-> old.left \ {g}, found |-> found]
<1>1. call \in Calls /\ DOMAIN tasks = Sides /\ DOMAIN reserved = Sides
  BY DEF Shape
<1>2. TaskOK(side, stage[s], t, old, plans[s]) /\ SideShape(side) /\ Sizes(old.found) \in Nat
  BY <1>1, TaskFacts, CallFacts
<1>3. /\ t.op \in {"open", "group"} /\ outcome = "running" /\ old.at = "decoding"
      /\ old.left # {} /\ ~Malformed(side, group)
      /\ tasks' = [tasks EXCEPT ![s][t].left = @ \ {g}, ![s][t].found = found]
      /\ reserved' = [reserved EXCEPT ![s] = @ + growth]
      /\ UNCHANGED <<call, outcome, stage, sets, plans>>
  BY DEF DecodeBatch
<1>4. stage[s] # "uniting" /\ FoundOK(side, old.found) /\ old.left \subseteq DOMAIN side.content[t.path.id]
  <2> HIDE DEF old, side
  <2> QED
    BY <1>2, <1>3 DEF TaskOK, OpsAt
<1>5. PICK m \in Mechanisms(side) : m.kind = "posfile" /\ t.path = m.path
  BY <1>2, <1>3 DEF TaskOK, Reading
<1>6. MechanismShape(side, m)
  BY <1>2 DEF SideShape, Mechanisms
<1> DEFINE groups == side.content[t.path.id]
<1>7. /\ groups \in Seq(Range(groups))
      /\ \A k \in DOMAIN groups : groups[k].rows \in Seq([file : Nat, pos : Int, null : BOOLEAN])
  BY <1>5, <1>6 DEF MechanismShape
<1>8. g \in old.left
  <2>1. DOMAIN groups \subseteq Nat
    <3> HIDE DEF groups
    <3> QED
      BY <1>7
  <2>2. old.left \in SUBSET Nat
    BY <1>4, <2>1
  <2>3. \E x \in old.left : \A y \in old.left : x <= y
    <3> HIDE DEF old
    <3> QED
      BY <1>3, <2>2, LeastNumber
  <2> QED
    BY <2>3 DEF Min
<1>9. group.rows \in Seq([file : Nat, pos : Int, null : BOOLEAN])
  <2> HIDE DEF old, g
  <2> QED
    BY <1>4, <1>7, <1>8
<1>10. FoundOK(side, found)
  <2> HIDE DEF group, side, old
  <2> QED
    BY <1>2, <1>3, <1>4, <1>9, AddedOK
<1>11. TaskOK(side, stage[s], t, r, plans[s])
  <2>1. r.at = "decoding" /\ r.left \subseteq old.left /\ r.found = found
        /\ r = [at |-> r.at, left |-> r.left, found |-> r.found]
    <3> HIDE DEF old, found, g
    <3> QED
      OBVIOUS
  <2> HIDE DEF r, old, found, side
  <2> QED
    BY <1>2, <1>3, <1>10, <2>1 DEF TaskOK, TaskStates
<1>12. tasks'[s] = [tasks[s] EXCEPT ![t] = [old EXCEPT !.left = old.left \ {g}, !.found = found]]
  <2> HIDE DEF g, found
  <2> QED
    BY <1>1, <1>3
<1>13. [old EXCEPT !.left = old.left \ {g}, !.found = found] = r
  <2>1. old = [at |-> "decoding", left |-> old.left, found |-> old.found]
    <3> HIDE DEF old, side
    <3> QED
      BY <1>2, <1>3 DEF TaskOK
  <2> DEFINE rest == old.left \ {g}  have == old.found
             mid == [at |-> "decoding", left |-> rest, found |-> have]
  <2>2. [old EXCEPT !.left = rest] = mid
    <3> HIDE DEF rest, old
    <3> QED
      BY <2>1
  <2>3. [mid EXCEPT !.found = found] = [at |-> "decoding", left |-> rest, found |-> found]
    <3> HIDE DEF rest, have, found
    <3> QED
      OBVIOUS
  <2> HIDE DEF g, found, old
  <2> QED
    BY <2>2, <2>3
<1> HIDE DEF r, g, found
<1>14. TaskFrame(s, t) /\ tasks'[s][t] = r
  <2>1. \A o \in Sides \ {s} : tasks'[o] = tasks[o]
    BY <1>1, <1>3
  <2>2. DOMAIN tasks' = Sides
    BY <1>1, <1>3
  <2> QED
    BY <1>12, <1>13, <2>1, <2>2 DEF TaskFrame
<1>15. OneTask(s, t, r)
  <2>1. Updated(tasks[s], t, r, tasks'[s])
    BY <1>14 DEF Updated, TaskFrame
  <2>2. \A o \in Sides \ {s} : reserved'[o] = reserved[o]
    <3> HIDE DEF growth
    <3> QED
      BY <1>1, <1>3
  <2>3. \A o \in Sides \ {s} : tasks'[o] = tasks[o]
    BY <1>14 DEF TaskFrame
  <2> QED
    BY <1>3, <2>1, <2>2, <2>3 DEF OneTask
<1>16. reserved'[s] = reserved[s] + TaskSize(stage[s], sets[s], t, r)
                          - TaskSize(stage[s], sets[s], t, tasks[s][t])
  <2> DEFINE a == TaskSize(stage[s], sets[s], t, r)  b == TaskSize(stage[s], sets[s], t, tasks[s][t])
  <2>1. a = Sizes(found) /\ b = Sizes(old.found)
    BY <1>4 DEF TaskSize, r
  <2>2. Sizes(found) \in Nat /\ Sizes(old.found) \in Nat
    BY <1>2, <1>10, SizesNat
  <2>3. reserved[s] \in Nat
    BY <1>1, TaskFacts
  <2>4. reserved'[s] = reserved[s] + growth
    <3> HIDE DEF growth
    <3> QED
      BY <1>1, <1>3
  <2> HIDE DEF a, b, old
  <2>5. reserved'[s] = reserved[s] + a - b
    BY <2>1, <2>2, <2>3, <2>4
  <2> QED
    BY <2>5 DEF a, b
<1>17. GoodSides'
  BY <1>1, <1>3, <1>11, <1>15, <1>16, TaskGood
<1>18. tasks'[s][t].at = "decoding" /\ tasks[s][t].at = "decoding"
  BY <1>3, <1>14 DEF r
<1>19. NoNewHolder
  BY <1>14, <1>18, FrameHolders
<1>20. DOMAIN reserved' = Sides
  BY <1>1, <1>3
<1> QED
  BY <1>14, <1>17, <1>19, <1>20 DEF TaskFrame

\* The entry of an assigned file.
LEMMA EntryOf ==
  ASSUME NEW s \in Sides, NEW f \in Assigned(Side(s))
  PROVE  Entry(s, f) \in EntriesOf(Side(s)) /\ Entry(s, f).path.id = f
<1>1. \E e \in EntriesOf(Side(s)) : e.path.id = f
  BY DEF Assigned
<1> QED
  BY <1>1 DEF Entry
\* One more access plan.
WithPlan(ps, f, plan) == [x \in DOMAIN ps \cup {f} |-> IF x = f THEN plan ELSE ps[x]]

\* A new access plan adds its own bytes to what is held.
LEMMA PlanAdd ==
  ASSUME NEW side, SideShape(side), NEW ts, NEW ss, NEW ps, SideInv(side, "building", ts, ss, ps),
         NEW f \in Assigned(side), f \notin DOMAIN ps, NEW plan, access_plan_bytes(plan) \in Nat,
         \A t \in DOMAIN ts : t.path.id = f => ts[t].at = "done"
  PROVE  /\ SideInv(side, "building", ts, ss, WithPlan(ps, f, plan))
         /\ Held("building", ts, ss, WithPlan(ps, f, plan)) = Held("building", ts, ss, ps) + access_plan_bytes(plan)
<1> DEFINE now == WithPlan(ps, f, plan)
<1>1. DOMAIN now = DOMAIN ps \cup {f} /\ now[f] = plan /\ \A x \in DOMAIN ps : now[x] = ps[x]
  BY DEF WithPlan
<1> HIDE DEF now
<1>2. SideInv(side, "building", ts, ss, now)
  <2>1. ASSUME NEW t \in DOMAIN ts PROVE TaskOK(side, "building", t, ts[t], now)
    BY <1>1 DEF SideInv, TaskOK
  <2>2. DOMAIN now \subseteq Assigned(side)
    BY <1>1 DEF SideInv
  <2>3. \A x \in DOMAIN now : access_plan_bytes(now[x]) \in Nat
    <3>1. \A x \in DOMAIN ps : access_plan_bytes(ps[x]) \in Nat
      BY DEF SideInv
    <3>2. ASSUME NEW x \in DOMAIN now PROVE access_plan_bytes(now[x]) \in Nat
      <4>1. CASE x = f
        BY <1>1, <4>1
      <4>2. CASE x # f
        <5>1. x \in DOMAIN ps /\ now[x] = ps[x]
          BY <1>1, <4>2
        <5> QED
          BY <3>1, <5>1
      <4> QED
        BY <4>1, <4>2
    <3> QED
      BY <3>2
  <2> QED
    BY <2>1, <2>2, <2>3 DEF SideInv
<1> DEFINE a == SumFunction(TaskSizes("building", ts, ss))
           b == SetTotal("building", ss)
           h == PlanSizes(now)
           w == PlanSizes(ps)
<1>3. a \in Nat /\ b \in Nat /\ w \in [DOMAIN ps -> Nat] /\ IsFiniteSet(DOMAIN ps)
      /\ h \in [DOMAIN ps \cup {f} -> Nat] /\ SumFunction(w) \in Nat
  BY <1>1, <1>2, SizesTyped
<1>4. h[f] = access_plan_bytes(plan) /\ Agree(h, w, DOMAIN ps)
  BY <1>1 DEF PlanSizes, Agree
<1>5. SumFunction(h) = SumFunction(w) + h[f]
  <2>1. h \in [DOMAIN ps \cup {f} -> Int] /\ w \in [DOMAIN ps -> Int]
    BY <1>3
  <2> HIDE DEF h, w
  <2> QED
    BY <1>3, <1>4, <2>1, SumGrow
<1>6. Held("building", ts, ss, now) = a + b + SumFunction(h) /\ Held("building", ts, ss, ps) = a + b + SumFunction(w)
  BY DEF Held
<1> HIDE DEF a, b, h, w
<1>7. Held("building", ts, ss, now) = Held("building", ts, ss, ps) + access_plan_bytes(plan)
  BY <1>3, <1>4, <1>5, <1>6
<1> QED
  BY <1>2, <1>7 DEF now

\* BuildPlan: the reservation grows by the plan of the file.
LEMMA BuildPlanGood ==
  ASSUME Shape, GoodSides, NEW s \in Sides, NEW t \in DOMAIN tasks[s], BuildPlan(s, t), ~Fail
  PROVE  GoodSides' /\ NoNewHolder /\ DOMAIN tasks' = Sides /\ DOMAIN reserved' = Sides /\ DOMAIN plans' = Sides
<1> DEFINE side == Side(s)  ts == tasks[s]  ss == sets[s]  ps == plans[s]
           old == tasks[s][t]
           f == t.path.id
           plan == build_access_plan(Entry(s, f).groups, Union(s, f))
           bytes == access_plan_bytes(plan)
           r == [at |-> "done", left |-> old.left, found |-> old.found]
<1>1. call \in Calls /\ DOMAIN tasks = Sides /\ DOMAIN reserved = Sides /\ DOMAIN plans = Sides
  BY DEF Shape
<1>2. TaskOK(side, stage[s], t, old, ps) /\ SideShape(side)
      /\ SideInv(side, stage[s], ts, ss, ps) /\ reserved[s] \in Nat
  BY <1>1, TaskFacts, CallFacts DEF GoodSides, GoodSide, Good
<1>3. /\ t.op = "plan" /\ outcome = "running" /\ old.at = "decoding"
      /\ tasks' = [tasks EXCEPT ![s][t].at = "done"]
      /\ plans' = [plans EXCEPT ![s] = [x \in DOMAIN ps \cup {f} |-> IF x = f THEN plan ELSE ps[x]]]
      /\ reserved' = [reserved EXCEPT ![s] = @ + bytes]
      /\ UNCHANGED <<call, outcome, stage, sets>>
  BY DEF BuildPlan
<1>4. stage[s] = "building" /\ f \in Assigned(side) /\ f \notin DOMAIN ps /\ old.found = NoSets
  <2> HIDE DEF old, side, ps
  <2> QED
    BY <1>2, <1>3 DEF TaskOK, OpsAt
<1>5. bytes \in Nat
  <2>1. Entry(s, f) \in EntriesOf(side)
    BY <1>4, EntryOf
  <2>2. Entry(s, f).groups \in Seq(Nat)
    <3> HIDE DEF side, f
    <3> QED
      BY <1>2, <2>1 DEF SideShape
  <2> QED
    BY <2>2, PlanBytesNat
<1>6. tasks'[s] = [ts EXCEPT ![t] = [old EXCEPT !.at = "done"]]
  BY <1>1, <1>3
<1>7. [old EXCEPT !.at = "done"] = r
  <2>1. old = [at |-> old.at, left |-> old.left, found |-> old.found]
    <3> HIDE DEF old, side, ps
    <3> QED
      BY <1>2 DEF TaskOK
  <2> HIDE DEF old
  <2> QED
    BY <2>1
<1>8. TaskFrame(s, t) /\ tasks'[s][t] = r
  <2>1. \A o \in Sides \ {s} : tasks'[o] = tasks[o]
    BY <1>1, <1>3
  <2>2. DOMAIN tasks' = Sides
    BY <1>1, <1>3
  <2> HIDE DEF r, old
  <2> QED
    BY <1>6, <1>7, <2>1, <2>2 DEF TaskFrame
<1>9. TaskOK(side, "building", t, r, ps)
  <2>1. r.at = "done" /\ r.left = old.left /\ r.found = old.found
        /\ r = [at |-> r.at, left |-> r.left, found |-> r.found]
    <3> HIDE DEF old
    <3> QED
      OBVIOUS
  <2> HIDE DEF r, old, side, ps
  <2> QED
    BY <1>2, <1>4, <2>1 DEF TaskOK, TaskStates
<1> DEFINE now == tasks'[s]
<1>10. Updated(ts, t, r, now)
  <2> HIDE DEF r
  <2> QED
    BY <1>8 DEF Updated, TaskFrame
<1>11. TaskSize("building", ss, t, r) = 0 /\ TaskSize("building", ss, t, old) = 0
  <2>1. r.found = NoSets /\ old.found = NoSets
    BY <1>4
  <2> HIDE DEF r, old
  <2> QED
    BY <2>1, NoSetsOK DEF TaskSize
<1>12. SideInv(side, "building", now, ss, ps) /\ Held("building", now, ss, ps) = Held("building", ts, ss, ps)
  <2>1. SideInv(side, "building", ts, ss, ps)
    BY <1>2, <1>4
  <2>2. Held("building", ts, ss, ps) \in Nat
    <3> HIDE DEF side, ts, ss, ps
    <3> QED
      BY <1>2, <2>1, SizesTyped
  <2>3. t \in DOMAIN ts /\ old = ts[t]
    OBVIOUS
  <2> HIDE DEF side, ts, ss, ps, now, r, old
  <2>4. /\ SideInv(side, "building", now, ss, ps)
        /\ Held("building", now, ss, ps) = Held("building", ts, ss, ps)
             + TaskSize("building", ss, t, r) - TaskSize("building", ss, t, ts[t])
    BY <1>2, <1>9, <1>10, <2>1, <2>3, TaskUpdate
  <2> QED
    BY <1>11, <2>2, <2>3, <2>4
<1>13. \A u \in DOMAIN now : u.path.id = f => now[u].at = "done"
  <2>1. \A u \in DOMAIN now : u.path.id = f => u = t
    <3>1. \A u, v \in DOMAIN ts : u.path.id = v.path.id => u = v
      <4> HIDE DEF side, ts, ss, ps
      <4> QED
        BY <1>2, <1>4 DEF SideInv
    <3> QED
      BY <1>8, <3>1 DEF TaskFrame
  <2>2. now[t].at = "done"
    BY <1>8
  <2> HIDE DEF now
  <2> QED
    BY <2>1, <2>2
<1> DEFINE ps2 == WithPlan(ps, f, plan)
<1>14. plans'[s] = ps2 /\ \A o \in Sides \ {s} : plans'[o] = plans[o]
  <2> HIDE DEF plan
  <2> QED
    BY <1>1, <1>3 DEF WithPlan
<1>15. /\ SideInv(side, "building", now, ss, ps2)
       /\ Held("building", now, ss, ps2) = Held("building", now, ss, ps) + bytes
  <2> HIDE DEF side, ss, ps, now, f, plan
  <2> QED
    BY <1>2, <1>4, <1>5, <1>12, <1>13, PlanAdd
<1>16. reserved'[s] = reserved[s] + bytes
  <2> HIDE DEF bytes
  <2> QED
    BY <1>1, <1>3
<1>17. reserved[s] = Held("building", ts, ss, ps)
  BY <1>3, <1>4 DEF GoodSides, GoodSide, Good
<1>18. Good(side, "building", now, ss, ps2, reserved'[s], outcome)
  <2> HIDE DEF side, ts, ss, ps, ps2, now, bytes
  <2>1. reserved'[s] \in Nat
    BY <1>2, <1>5, <1>16
  <2>2. reserved'[s] = Held("building", now, ss, ps2)
    BY <1>12, <1>15, <1>16, <1>17
  <2> QED
    BY <1>15, <2>1, <2>2 DEF Good
<1>19. OnlySide(s)
  <2>1. \A o \in Sides \ {s} : reserved'[o] = reserved[o]
    <3> HIDE DEF bytes
    <3> QED
      BY <1>1, <1>3
  <2>2. \A o \in Sides \ {s} : tasks'[o] = tasks[o]
    BY <1>8 DEF TaskFrame
  <2> QED
    BY <1>3, <1>14, <2>1, <2>2 DEF OnlySide
<1>20. Good(Side(s), stage'[s], tasks'[s], sets'[s], plans'[s], reserved'[s], outcome)
  <2>1. stage'[s] = "building" /\ sets'[s] = ss
    BY <1>3, <1>4
  <2> HIDE DEF ss, ps2
  <2> QED
    BY <1>14, <1>18, <2>1
<1>21. GoodSides'
  BY <1>19, <1>20, SideGood
<1>22. NoNewHolder
  <2>1. ~HoldsPermit(t, "done")
    BY DEF HoldsPermit
  <2>2. tasks'[s][t].at = "done"
    BY <1>8
  <2> QED
    BY <1>8, <2>1, <2>2, FrameHolders
<1>23. DOMAIN reserved' = Sides /\ DOMAIN plans' = Sides
  <2> HIDE DEF bytes, plan
  <2> QED
    BY <1>1, <1>3
<1> QED
  BY <1>8, <1>21, <1>22, <1>23 DEF TaskFrame
-----------------------------------------------------------------------------
\* Between its stages a side has no task and no position set.
LEMMA IdleEnter ==
  ASSUME NEW side, NEW st \in Stages \ Collecting, NEW ts, NEW ss, NEW ps, SideInv(side, st, ts, ss, ps),
         NEW next \in Stages \ Collecting, DOMAIN ps = {} \/ next \in {"ready", "streaming"}
  PROVE  /\ DOMAIN ts = {} /\ ss = {}
         /\ SideInv(side, next, ts, ss, ps)
         /\ Held(next, ts, ss, ps) = Held(st, ts, ss, ps)
<1>1. OpsAt(st) = {}
  BY DEF OpsAt, Collecting
<1>2. DOMAIN ts = {}
  BY <1>1 DEF SideInv, TaskOK
<1>3. ss = {}
  BY DEF SideInv, Collecting
<1>4. SideInv(side, next, ts, ss, ps)
  BY <1>2, <1>3 DEF SideInv
<1>5. TaskSizes(next, ts, ss) = TaskSizes(st, ts, ss)
  BY <1>2 DEF TaskSizes
<1>6. SetTotal(next, ss) = SetTotal(st, ss)
  BY DEF SetTotal, Collecting
<1> QED
  BY <1>2, <1>3, <1>4, <1>5, <1>6 DEF Held

\* The tasks of a new stage.
NewTasks(new, left) ==
    [t \in new |-> [at |-> IF Reads(t) THEN "waiting" ELSE "decoding", left |-> left[t], found |-> NoSets]]
NewOK(side, st, t, left) ==
    /\ t.op \in OpsAt(st)
    /\ Reading(side, t)
    /\ t.op \in {"open", "group"} => left[t] \subseteq DOMAIN side.content[t.path.id]
    /\ t.op \in {"union", "plan"} => t.path.id \in Assigned(side)
OneEach(new) == \A t, u \in new : t.path.id = u.path.id => t = u

\* Freshly spawned tasks hold nothing, so that the side holds its position
\* sets.
LEMMA SpawnInv ==
  ASSUME NEW side, SideShape(side), NEW st \in Collecting, NEW new, NEW left, NEW ss, NEW ps,
         IsFiniteSet(new), \A t \in new : NewOK(side, st, t, left),
         st \in {"uniting", "building"} => OneEach(new),
         IsFiniteSet(ss), \A r \in ss : SetOK(side, st, r), st = "opening" => ss = {},
         DOMAIN ps = {}
  PROVE  /\ SideInv(side, st, NewTasks(new, left), ss, ps)
         /\ SumFunction(PlanSizes(ps)) = 0
         /\ st # "uniting" =>
              Held(st, NewTasks(new, left), ss, ps) = SumFunction(SetSizes(ss))
<1> DEFINE ts == NewTasks(new, left)
<1>1. DOMAIN ts = new
  BY DEF NewTasks
<1>2. ASSUME NEW t \in new
      PROVE  ts[t].at \in {"waiting", "decoding"} /\ ts[t].left = left[t] /\ ts[t].found = NoSets
             /\ ts[t] = [at |-> ts[t].at, left |-> ts[t].left, found |-> ts[t].found]
  <2> DEFINE at == IF Reads(t) THEN "waiting" ELSE "decoding"
  <2>1. ts[t] = [at |-> at, left |-> left[t], found |-> NoSets]
    BY DEF NewTasks
  <2>2. at \in {"waiting", "decoding"}
    OBVIOUS
  <2> HIDE DEF at, ts
  <2> QED
    BY <2>1, <2>2
<1> HIDE DEF ts
<1>3. ASSUME NEW t \in new PROVE TaskOK(side, st, t, ts[t], ps)
  <2>1. NewOK(side, st, t, left)
    OBVIOUS
  <2>2. FoundOK(side, ts[t].found)
    BY <1>2, NoSetsOK
  <2>3. ts[t].at \in TaskStates
    BY <1>2 DEF TaskStates
  <2> QED
    BY <1>2, <2>1, <2>2, <2>3 DEF TaskOK, NewOK
<1>4. SideInv(side, st, ts, ss, ps)
  <2>1. st \in {"uniting", "building"} => \A t, u \in DOMAIN ts : t.path.id = u.path.id => t = u
    BY <1>1 DEF OneEach
  <2>2. st \notin {"grouping", "uniting", "building"} => ss = {}
    BY DEF Collecting
  <2> QED
    BY <1>1, <1>3, <2>1, <2>2 DEF SideInv
<1>5. SumFunction(PlanSizes(ps)) = 0
  <2>1. DOMAIN PlanSizes(ps) = {}
    BY DEF PlanSizes
  <2> QED
    BY <2>1, SumEmpty
<1>6. ASSUME st # "uniting" PROVE Held(st, ts, ss, ps) = SumFunction(SetSizes(ss))
  <2>1. \A t \in new : TaskSizes(st, ts, ss)[t] = 0
    <3>1. ASSUME NEW t \in new PROVE TaskSize(st, ss, t, ts[t]) = 0
      <4>1. ts[t].found = NoSets
        BY <1>2
      <4> QED
        BY <1>6, <4>1, NoSetsOK DEF TaskSize
    <3> QED
      BY <1>1, <3>1 DEF TaskSizes
  <2>2. TaskSizes(st, ts, ss) \in [new -> Int]
    BY <1>1, <1>4, SizesTyped
  <2>3. SumFunction(TaskSizes(st, ts, ss)) = 0
    BY <2>1, <2>2, SumZero
  <2>4. SetTotal(st, ss) = SumFunction(SetSizes(ss)) /\ SetTotal(st, ss) \in Nat
    BY <1>4, <1>6, SizesTyped DEF SetTotal
  <2> QED
    BY <1>5, <2>3, <2>4 DEF Held
<1> QED
  BY <1>4, <1>5, <1>6 DEF ts

\* What a finished stage leaves, and its bytes.
Gathered(ts) == {[task |-> t, found |-> ts[t].found] : t \in DOMAIN ts}

\* The gathered sets weigh what the tasks found.
LEMMA GatheredInv ==
  ASSUME NEW side, SideShape(side), NEW ts, IsFiniteSet(DOMAIN ts),
         \A t \in DOMAIN ts : FoundOK(side, ts[t].found)
  PROVE  /\ IsFiniteSet(Gathered(ts))
         /\ \A r \in Gathered(ts) :
              /\ r = [task |-> r.task, found |-> r.found]
              /\ FoundOK(side, r.found) /\ r.task \in DOMAIN ts
         /\ SetSizes(Gathered(ts)) \in [Gathered(ts) -> Nat]
         /\ SumFunction(SetSizes(Gathered(ts))) = SumFunction([t \in DOMAIN ts |-> Sizes(ts[t].found)])
<1> DEFINE G == Gathered(ts)
           S == DOMAIN ts
           e == [t \in S |-> [task |-> t, found |-> ts[t].found]]
           f == SetSizes(G)
<1>1. G = {e[t] : t \in S} /\ DOMAIN e = S
  BY DEF Gathered
<1>2. IsFiniteSet(G)
  <2> HIDE DEF G, S, e
  <2>1. IsFiniteSet(S)
    BY DEF S
  <2> QED
    BY <1>1, <2>1, FiniteImage
<1>3. ASSUME NEW r \in G
      PROVE  r = [task |-> r.task, found |-> r.found] /\ FoundOK(side, r.found) /\ r.task \in DOMAIN ts
  <2>1. PICK t \in DOMAIN ts : r = [task |-> t, found |-> ts[t].found]
    BY DEF Gathered
  <2>2. r.task = t /\ r.found = ts[t].found
    BY <2>1
  <2> QED
    BY <2>1, <2>2
<1>4. f \in [G -> Nat]
  <2>1. \A r \in G : Sizes(r.found) \in Nat
    BY <1>3, SizesNat
  <2> QED
    BY <2>1 DEF SetSizes
<1>5. e \in [S -> G] /\ \A t \in S : e[t] = [task |-> t, found |-> ts[t].found]
  BY DEF Gathered
<1>6. \A t, u \in S : e[t] = e[u] => t = u
  <2> TAKE t, u \in S
  <2>1. e[t].task = t /\ e[u].task = u
    OBVIOUS
  <2> HIDE DEF e
  <2> QED
    BY <2>1
<1>7. \A r \in G : \E t \in S : e[t] = r
  <2> HIDE DEF e, G, S
  <2> QED
    BY <1>1
<1>8. [t \in S |-> f[e[t]]] = [t \in S |-> Sizes(ts[t].found)]
  <2>1. ASSUME NEW t \in S PROVE f[e[t]] = Sizes(ts[t].found)
    <3>1. e[t] \in G /\ e[t].found = ts[t].found
      BY <1>5
    <3> HIDE DEF e, G
    <3> QED
      BY <3>1 DEF SetSizes
  <2> HIDE DEF f, e, S
  <2> QED
    BY <2>1
<1>9. SumFunction([t \in S |-> f[e[t]]]) = SumFunction(f)
  <2>1. f \in [G -> Int]
    BY <1>4
  <2>2. IsFiniteSet(S)
    OBVIOUS
  <2>3. e \in [S -> G]
    BY <1>5
  <2> HIDE DEF f, e, S, G
  <2> QED
    BY <1>6, <1>7, <2>1, <2>2, <2>3, SumRename
<1>10. SumFunction(SetSizes(Gathered(ts))) = SumFunction([t \in DOMAIN ts |-> Sizes(ts[t].found)])
  BY <1>8, <1>9
<1> HIDE DEF e
<1> QED
  BY <1>2, <1>3, <1>4, <1>10

\* SpawnRowGroups keeps the bytes of the opening stage in its sets.
LEMMA RowGroupsHeld ==
  ASSUME NEW side, SideShape(side), NEW ts, NEW ps, SideInv(side, "opening", ts, {}, ps),
         NEW left, \A t \in row_group_reads(side) : left[t] = {t.group}
  PROVE  /\ SideInv(side, "grouping", NewTasks(row_group_reads(side), left), Gathered(ts), ps)
         /\ Held("grouping", NewTasks(row_group_reads(side), left), Gathered(ts), ps)
              = Held("opening", ts, {}, ps)
<1> DEFINE new == row_group_reads(side)  ss == Gathered(ts)
<1>1. IsFiniteSet(DOMAIN ts) /\ \A t \in DOMAIN ts : FoundOK(side, ts[t].found) /\ t.op \in {"open", "vector"}
  BY DEF SideInv, TaskOK, OpsAt
<1>2. IsFiniteSet(ss) /\ \A r \in ss : SetOK(side, "grouping", r)
  BY <1>1, GatheredInv DEF SetOK
<1>3. IsFiniteSet(new) /\ \A t \in new : NewOK(side, "grouping", t, left)
  <2>1. Spawns(side, new, {"group"}) /\ \A t \in new : t.group \in Relevant(side, t.path)
    BY GroupsSpawn
  <2>2. ASSUME NEW t \in new PROVE NewOK(side, "grouping", t, left)
    <3>1. t.op = "group" /\ Reading(side, t)
      BY <2>1 DEF Spawns
    <3>2. left[t] \subseteq DOMAIN side.content[t.path.id]
      BY <2>1 DEF Relevant
    <3> QED
      BY <3>1, <3>2 DEF NewOK, OpsAt
  <2> QED
    BY <2>1, <2>2 DEF Spawns
<1>4. DOMAIN ps = {}
  BY DEF SideInv
<1>5. /\ SideInv(side, "grouping", NewTasks(new, left), ss, ps)
      /\ SumFunction(PlanSizes(ps)) = 0
      /\ Held("grouping", NewTasks(new, left), ss, ps) = SumFunction(SetSizes(ss))
  <2>1. "grouping" \in Collecting /\ "grouping" # "uniting" /\ "grouping" \notin {"uniting", "building"}
        /\ "grouping" # "opening"
    BY DEF Collecting
  <2> HIDE DEF new, ss
  <2> QED
    BY <1>2, <1>3, <1>4, <2>1, SpawnInv
<1>6. Held("opening", ts, {}, ps) = SumFunction([t \in DOMAIN ts |-> Sizes(ts[t].found)])
  <2>1. TaskSizes("opening", ts, {}) = [t \in DOMAIN ts |-> Sizes(ts[t].found)]
    BY DEF TaskSizes, TaskSize
  <2>2. SetTotal("opening", {}) = 0
    <3>1. DOMAIN SetSizes({}) = {}
      BY DEF SetSizes
    <3> QED
      BY <3>1, SumEmpty DEF SetTotal
  <2>3. SumFunction(TaskSizes("opening", ts, {})) \in Nat
    BY SizesTyped
  <2> QED
    BY <1>5, <2>1, <2>2, <2>3 DEF Held
<1>7. SumFunction(SetSizes(ss)) = SumFunction([t \in DOMAIN ts |-> Sizes(ts[t].found)])
  BY <1>1, GatheredInv
<1> QED
  BY <1>5, <1>6, <1>7
\* The bytes of a family of sets, added up by file instead of by set.
FilesIn(ss) == UNION {DOMAIN r.found : r \in ss}

\* The gathered bytes, added up by file, are the gathered bytes.
LEMMA ByFile ==
  ASSUME NEW side, SideShape(side), NEW ss, IsFiniteSet(ss), \A r \in ss : FoundOK(side, r.found)
  PROVE  /\ IsFiniteSet(FilesIn(ss)) /\ FilesIn(ss) \subseteq Assigned(side)
         /\ SumFunction([f \in FilesIn(ss) |-> BytesIn(ss, f)]) = SumFunction(SetSizes(ss))
<1> DEFINE F == FilesIn(ss)
           w == [r \in ss |-> [f \in F |-> IF f \in DOMAIN r.found THEN Size(r.found[f]) ELSE 0]]
<1>1. F \subseteq Assigned(side)
  BY DEF FilesIn, FoundOK
<1>2. IsFiniteSet(F)
  BY <1>1, EntriesFinite, FS_Subset
<1>3. ASSUME NEW r \in ss, NEW f \in DOMAIN r.found PROVE Size(r.found[f]) \in Nat /\ f \in F
  <2>1. r.found[f] \in FinNat
    BY DEF FoundOK
  <2> QED
    BY <2>1, SizeNat DEF FilesIn
<1>4. w \in [ss -> [F -> Int]]
  <2>1. ASSUME NEW r \in ss, NEW f \in F
        PROVE  (IF f \in DOMAIN r.found THEN Size(r.found[f]) ELSE 0) \in Int
    BY <1>3
  <2> HIDE DEF F
  <2> QED
    BY <2>1
<1>5. SumFunction(RowSums(w, ss)) = SumFunction(ColumnSums(w, ss, F))
  <2> HIDE DEF w, F
  <2> QED
    BY <1>2, <1>4, SumExchange
<1>6. RowSums(w, ss) = SetSizes(ss)
  <2>1. ASSUME NEW r \in ss PROVE SumFunction(w[r]) = Sizes(r.found)
    <3> DEFINE v == w[r]  R == DOMAIN r.found
    <3>1. v \in [F -> Int] /\ R \in SUBSET F
      <4>1. R \in SUBSET F
        BY <1>3
      <4> HIDE DEF w
      <4> QED
        BY <1>4, <4>1
    <3>2. \A f \in F \ R : v[f] = 0
      OBVIOUS
    <3>3. [f \in R |-> v[f]] = [f \in R |-> Size(r.found[f])]
      <4>1. ASSUME NEW f \in R PROVE v[f] = Size(r.found[f])
        BY <1>3
      <4> HIDE DEF v, R
      <4> QED
        BY <4>1
    <3>4. SumFunction(v) = SumFunction([f \in R |-> v[f]])
      <4> HIDE DEF v, R, F
      <4> QED
        BY <1>2, <3>1, <3>2, SumSupport
    <3> QED
      BY <3>3, <3>4 DEF Sizes
  <2> HIDE DEF w
  <2> QED
    BY <2>1 DEF RowSums, SetSizes
<1>7. ColumnSums(w, ss, F) = [f \in F |-> BytesIn(ss, f)]
  <2>1. ASSUME NEW f \in F PROVE SumFunction([r \in ss |-> w[r][f]]) = BytesIn(ss, f)
    <3> DEFINE v == [r \in ss |-> w[r][f]]  R == FoundIn(ss, f)
    <3>1. v \in [ss -> Int] /\ R \in SUBSET ss
      <4>1. R \in SUBSET ss
        BY DEF FoundIn
      <4> HIDE DEF w, F
      <4> QED
        BY <1>4, <4>1
    <3>2. \A r \in ss \ R : v[r] = 0
      BY DEF FoundIn
    <3>3. [r \in R |-> v[r]] = SizesIn(ss, f)
      <4>1. ASSUME NEW r \in R PROVE v[r] = Size(r.found[f])
        BY DEF FoundIn
      <4>2. SizesIn(ss, f) = [r \in R |-> Size(r.found[f])]
        BY DEF SizesIn
      <4> HIDE DEF v, R
      <4> QED
        BY <4>1, <4>2
    <3>4. SumFunction(v) = SumFunction([r \in R |-> v[r]])
      <4> HIDE DEF v, R
      <4> QED
        BY <3>1, <3>2, SumSupport
    <3> QED
      BY <3>3, <3>4 DEF BytesIn
  <2> HIDE DEF w, F
  <2> QED
    BY <2>1 DEF ColumnSums
<1> HIDE DEF w
<1> QED
  BY <1>1, <1>2, <1>5, <1>6, <1>7

\* One union task per file: p names the path of each.
UnionTasks(ss, p) == {Task("union", p[f]) : f \in FilesIn(ss)}
Names(ss, p) == \A f \in FilesIn(ss) : p[f].id = f

\* One union task per file takes over the bytes of the gathered sets.
LEMMA UnionTasksInv ==
  ASSUME NEW side, SideShape(side), NEW ss, IsFiniteSet(ss), \A r \in ss : SetOK(side, "uniting", r),
         NEW ps, DOMAIN ps = {}, NEW p, Names(ss, p), NEW left
  PROVE  /\ SideInv(side, "uniting", NewTasks(UnionTasks(ss, p), left), ss, ps)
         /\ Held("uniting", NewTasks(UnionTasks(ss, p), left), ss, ps) = SumFunction(SetSizes(ss))
<1> DEFINE F == FilesIn(ss)
           U == UnionTasks(ss, p)
           ts == NewTasks(U, left)
           e == [f \in F |-> Task("union", p[f])]
           b == TaskSizes("uniting", ts, ss)
<1>1. \A r \in ss : FoundOK(side, r.found)
  BY DEF SetOK
<1>2. IsFiniteSet(F) /\ F \subseteq Assigned(side)
      /\ SumFunction([f \in F |-> BytesIn(ss, f)]) = SumFunction(SetSizes(ss))
  BY <1>1, ByFile
<1>3. U = {e[f] : f \in F} /\ DOMAIN e = F
  BY DEF UnionTasks
<1>4. ASSUME NEW f \in F PROVE e[f].op = "union" /\ e[f].path.id = f
  BY DEF Task, Names
<1>5. IsFiniteSet(U)
  <2> HIDE DEF U, e, F
  <2> QED
    BY <1>2, <1>3, FiniteImage
<1>6. \A t \in U : NewOK(side, "uniting", t, left)
  <2> TAKE t \in U
  <2>1. PICK f \in F : t = e[f]
    BY <1>3
  <2>2. t.op = "union" /\ t.path.id \in Assigned(side)
    <3> HIDE DEF e, F
    <3> QED
      BY <1>2, <1>4, <2>1
  <2> QED
    BY <2>2 DEF NewOK, OpsAt, Reading
<1>7. OneEach(U)
  <2> HIDE DEF U, e, F
  <2> QED
    BY <1>3, <1>4 DEF OneEach
<1>8. SideInv(side, "uniting", ts, ss, ps) /\ SumFunction(PlanSizes(ps)) = 0
  <2>1. "uniting" \in Collecting /\ "uniting" # "opening"
    BY DEF Collecting
  <2> HIDE DEF U
  <2> QED
    BY <1>5, <1>6, <1>7, <2>1, SpawnInv
<1>9. DOMAIN ts = U /\ \A t \in U : ts[t].at # "done"
  BY DEF NewTasks
<1>10. b \in [U -> Int] /\ SumFunction(b) \in Nat
  <2>1. b \in [DOMAIN ts -> Nat] /\ SumFunction(b) \in Nat
    BY <1>8, SizesTyped
  <2> HIDE DEF b, ts, U
  <2> QED
    BY <1>9, <2>1
<1>11. [f \in F |-> b[e[f]]] = [f \in F |-> BytesIn(ss, f)]
  <2>1. ASSUME NEW f \in F PROVE b[e[f]] = BytesIn(ss, f)
    <3>1. e[f] \in U /\ e[f].path.id = f
      BY <1>3, <1>4
    <3> HIDE DEF e, F, U, ts
    <3> QED
      BY <1>9, <3>1 DEF TaskSizes, TaskSize
  <2> HIDE DEF e, b, F
  <2> QED
    BY <2>1
<1>12. SumFunction([f \in F |-> b[e[f]]]) = SumFunction(b)
  <2>1. e \in [F -> U]
    BY DEF UnionTasks
  <2>2. \A f, g \in F : e[f] = e[g] => f = g
    <3> HIDE DEF e, F
    <3> QED
      BY <1>4
  <2>3. \A u \in U : \E f \in F : e[f] = u
    <3> HIDE DEF e, F, U
    <3> QED
      BY <1>3
  <2>4. IsFiniteSet(F) /\ b \in [U -> Int]
    BY <1>2, <1>10
  <2> HIDE DEF e, F, U, b
  <2> QED
    BY <2>1, <2>2, <2>3, <2>4, SumRename
<1>13. Held("uniting", ts, ss, ps) = SumFunction(b)
  <2>1. SetTotal("uniting", ss) = 0
    BY DEF SetTotal
  <2>2. Held("uniting", ts, ss, ps) = SumFunction(b) + SetTotal("uniting", ss) + SumFunction(PlanSizes(ps))
    BY DEF Held
  <2> HIDE DEF b, ts
  <2> QED
    BY <1>8, <1>10, <2>1, <2>2
<1>14. SumFunction(b) = SumFunction(SetSizes(ss))
  <2> HIDE DEF b, e, F
  <2> QED
    BY <1>2, <1>11, <1>12
<1> QED
  BY <1>8, <1>13, <1>14

\* SpawnUnions: the sets of both read stages are what the union tasks hold.
LEMMA UnionsHeld ==
  ASSUME NEW side, SideShape(side), NEW ts, NEW ss, NEW ps, SideInv(side, "grouping", ts, ss, ps),
         NEW p, Names(ss \cup Gathered(ts), p), NEW left
  PROVE  LET all == ss \cup Gathered(ts)
             now == NewTasks(UnionTasks(all, p), left)
         IN  /\ SideInv(side, "uniting", now, all, ps)
             /\ Held("uniting", now, all, ps) = Held("grouping", ts, ss, ps)
<1> DEFINE G == Gathered(ts)
           all == ss \cup G
           now == NewTasks(UnionTasks(all, p), left)
<1>1. IsFiniteSet(DOMAIN ts) /\ \A t \in DOMAIN ts : FoundOK(side, ts[t].found) /\ t.op = "group"
  BY DEF SideInv, TaskOK, OpsAt
<1>2. /\ IsFiniteSet(G)
      /\ \A r \in G : r = [task |-> r.task, found |-> r.found] /\ FoundOK(side, r.found) /\ r.task \in DOMAIN ts
      /\ SetSizes(G) \in [G -> Nat]
      /\ SumFunction(SetSizes(G)) = SumFunction([t \in DOMAIN ts |-> Sizes(ts[t].found)])
  BY <1>1, GatheredInv
<1>3. IsFiniteSet(ss) /\ \A r \in ss : SetOK(side, "grouping", r)
  BY DEF SideInv
<1>4. ss \cap G = {}
  <2>1. \A r \in ss : r.task.op \in {"open", "vector"}
    BY <1>3 DEF SetOK
  <2>2. \A r \in G : r.task.op = "group"
    BY <1>1, <1>2
  <2> HIDE DEF G
  <2> QED
    BY <2>1, <2>2
<1>5. IsFiniteSet(all)
  <2> HIDE DEF G
  <2> QED
    BY <1>2, <1>3, FS_Union
<1>6. \A r \in all : SetOK(side, "uniting", r)
  <2> HIDE DEF G
  <2> QED
    BY <1>2, <1>3 DEF SetOK
<1>7. DOMAIN ps = {}
  BY DEF SideInv
<1>8. SideInv(side, "uniting", now, all, ps) /\ Held("uniting", now, all, ps) = SumFunction(SetSizes(all))
  <2> HIDE DEF all
  <2>1. Names(all, p)
    BY DEF all
  <2> QED
    BY <1>5, <1>6, <1>7, <2>1, UnionTasksInv
<1>9. SumFunction(SetSizes(all)) = SumFunction(SetSizes(ss)) + SumFunction(SetSizes(G))
  <2> DEFINE f == SetSizes(all)
  <2>1. f \in [all -> Nat]
    <3> HIDE DEF all
    <3> QED
      BY <1>8, SizesTyped
  <2>2. [x \in ss |-> f[x]] = SetSizes(ss) /\ [x \in G |-> f[x]] = SetSizes(G)
    <3> HIDE DEF G
    <3> QED
      BY DEF SetSizes
  <2>3. f \in [ss \cup G -> Int]
    BY <2>1
  <2> HIDE DEF f, G
  <2>5. IsFiniteSet(ss) /\ IsFiniteSet(G)
    BY <1>2, <1>3
  <2>4. SumFunction(f) = SumFunction([x \in ss |-> f[x]]) + SumFunction([x \in G |-> f[x]])
    BY <1>4, <2>3, <2>5, SumDisjoint
  <2> QED
    BY <2>2, <2>4 DEF f
<1>10. Held("grouping", ts, ss, ps) = SumFunction(SetSizes(G)) + SumFunction(SetSizes(ss))
  <2>1. TaskSizes("grouping", ts, ss) = [t \in DOMAIN ts |-> Sizes(ts[t].found)]
    BY DEF TaskSizes, TaskSize
  <2>2. SetTotal("grouping", ss) = SumFunction(SetSizes(ss)) /\ SetTotal("grouping", ss) \in Nat
        /\ SumFunction(TaskSizes("grouping", ts, ss)) \in Nat
    BY SizesTyped DEF SetTotal
  <2>3. SumFunction(PlanSizes(ps)) = 0
    <3>1. DOMAIN PlanSizes(ps) = {}
      BY <1>7 DEF PlanSizes
    <3> QED
      BY <3>1, SumEmpty
  <2> HIDE DEF G
  <2> QED
    BY <1>2, <2>1, <2>2, <2>3 DEF Held
<1>11. SumFunction(SetSizes(G)) \in Int /\ SumFunction(SetSizes(ss)) \in Int
  <2>1. SetSizes(G) \in [G -> Int] /\ SetSizes(ss) \in [ss -> Int]
    BY <1>2, SizesTyped
  <2> HIDE DEF G
  <2> QED
    BY <1>2, <1>3, <2>1, SumType
<1> HIDE DEF G
<1>12. SumFunction(SetSizes(all)) = Held("grouping", ts, ss, ps)
  <2> HIDE DEF all
  <2> QED
    BY <1>9, <1>10, <1>11
<1> QED
  BY <1>8, <1>12 DEF G

\* SpawnPlans: the united sets are what the tasks held; each file with positions has a task.
LEMMA PlansHeld ==
  ASSUME NEW side, SideShape(side), NEW ts, NEW ss, NEW ps, SideInv(side, "uniting", ts, ss, ps),
         \A t \in DOMAIN ts : ts[t].at = "done",
         NEW left, NEW T \in SUBSET DOMAIN ts
  PROVE  LET new == {Task("plan", t.path) : t \in T}
         IN  /\ SideInv(side, "building", NewTasks(new, left), Gathered(ts), ps)
             /\ Held("building", NewTasks(new, left), Gathered(ts), ps) = Held("uniting", ts, ss, ps)
<1> DEFINE new == {Task("plan", t.path) : t \in T}
           G == Gathered(ts)
           e == [t \in T |-> Task("plan", t.path)]
<1>1. /\ IsFiniteSet(DOMAIN ts) /\ DOMAIN ps = {}
      /\ \A t \in DOMAIN ts : FoundOK(side, ts[t].found) /\ t.path.id \in Assigned(side)
      /\ \A t, u \in DOMAIN ts : t.path.id = u.path.id => t = u
  BY DEF SideInv, TaskOK, OpsAt
<1>2. /\ IsFiniteSet(G) /\ \A r \in G : SetOK(side, "building", r)
      /\ SumFunction(SetSizes(G)) = SumFunction([t \in DOMAIN ts |-> Sizes(ts[t].found)])
  BY <1>1, GatheredInv DEF SetOK
<1>3. IsFiniteSet(new)
  <2>1. IsFiniteSet(T)
    BY <1>1, FS_Subset
  <2>2. new = {e[t] : t \in T} /\ DOMAIN e = T
    OBVIOUS
  <2> HIDE DEF new, e
  <2> QED
    BY <2>1, <2>2, FiniteImage
<1>4. ASSUME NEW u \in new PROVE NewOK(side, "building", u, left)
  <2>1. PICK t \in T : u = Task("plan", t.path)
    OBVIOUS
  <2>2. u.op = "plan" /\ u.path = t.path
    BY <2>1 DEF Task
  <2>3. u.path.id \in Assigned(side)
    BY <1>1, <2>2
  <2> QED
    BY <2>2, <2>3 DEF NewOK, OpsAt, Reading
<1>5. OneEach(new)
  <2> SUFFICES ASSUME NEW u \in new, NEW v \in new, u.path.id = v.path.id PROVE u = v
    BY DEF OneEach
  <2>1. PICK t \in T : u = Task("plan", t.path)
    OBVIOUS
  <2>2. PICK x \in T : v = Task("plan", x.path)
    OBVIOUS
  <2>3. u.path = t.path /\ v.path = x.path
    BY <2>1, <2>2 DEF Task
  <2>4. t = x
    BY <1>1, <2>3
  <2> QED
    BY <2>1, <2>2, <2>4
<1>6. /\ SideInv(side, "building", NewTasks(new, left), G, ps)
      /\ SumFunction(PlanSizes(ps)) = 0
      /\ Held("building", NewTasks(new, left), G, ps) = SumFunction(SetSizes(G))
  <2>1. "building" \in Collecting /\ "building" # "uniting" /\ "building" # "opening"
    BY DEF Collecting
  <2> HIDE DEF new, G
  <2> QED
    BY <1>1, <1>2, <1>3, <1>4, <1>5, <2>1, SpawnInv
<1>7. Held("uniting", ts, ss, ps) = SumFunction([t \in DOMAIN ts |-> Sizes(ts[t].found)])
  <2>1. TaskSizes("uniting", ts, ss) = [t \in DOMAIN ts |-> Sizes(ts[t].found)]
    BY DEF TaskSizes, TaskSize
  <2>2. SetTotal("uniting", ss) = 0
    BY DEF SetTotal
  <2>3. SumFunction(TaskSizes("uniting", ts, ss)) \in Nat
    BY SizesTyped
  <2> QED
    BY <1>6, <2>1, <2>2, <2>3 DEF Held
<1> HIDE DEF new
<1> QED
  BY <1>2, <1>6, <1>7 DEF new
-----------------------------------------------------------------------------
\* A side enters a stage with new tasks and sets; its plans stay.
StageChange(s, next, ts, ss) ==
    /\ call' = call /\ outcome' = outcome /\ plans' = plans
    /\ stage' = [stage EXCEPT ![s] = next]
    /\ tasks'[s] = ts /\ sets'[s] = ss
    /\ \A o \in Sides \ {s} : tasks'[o] = tasks[o] /\ sets'[o] = sets[o] /\ reserved'[o] = reserved[o]
    /\ DOMAIN tasks' = Sides /\ DOMAIN sets' = Sides /\ DOMAIN reserved' = Sides
NoHolders(ts) == \A t \in DOMAIN ts : ~HoldsPermit(t, ts[t].at)

\* A side that enters its next stage keeps its accounting and takes no
\* permit.
LEMMA StageGood ==
  ASSUME Shape, GoodSides, outcome = "running", NEW s \in Sides, NEW next, NEW ts, NEW ss,
         StageChange(s, next, ts, ss), NoHolders(ts),
         SideInv(Side(s), next, ts, ss, plans[s]), reserved'[s] = Held(next, ts, ss, plans[s])
  PROVE  GoodSides' /\ NoNewHolder
<1> DEFINE ps == plans[s]
<1>1. SideShape(Side(s)) /\ DOMAIN stage = Sides
  BY CallFacts DEF Shape
<1>2. Held(next, ts, ss, ps) \in Nat
  <2>1. SideInv(Side(s), next, ts, ss, ps)
    OBVIOUS
  <2> HIDE DEF ps
  <2> QED
    BY <1>1, <2>1, SizesTyped
<1>3. Good(Side(s), next, ts, ss, ps, reserved'[s], outcome)
  <2>1. SideInv(Side(s), next, ts, ss, ps) /\ reserved'[s] = Held(next, ts, ss, ps)
    OBVIOUS
  <2> HIDE DEF ps
  <2> QED
    BY <1>2, <2>1 DEF Good
<1>4. stage'[s] = next /\ tasks'[s] = ts /\ sets'[s] = ss /\ plans'[s] = ps
      /\ \A o \in Sides \ {s} : stage'[o] = stage[o]
  BY <1>1 DEF StageChange
<1>5. Good(Side(s), stage'[s], tasks'[s], sets'[s], plans'[s], reserved'[s], outcome)
  <2> HIDE DEF ps
  <2> QED
    BY <1>3, <1>4
<1>6. OnlySide(s)
  BY <1>4 DEF OnlySide, StageChange
<1>7. GoodSides'
  BY <1>5, <1>6, SideGood
<1>8. NoNewHolder
  <2> SUFFICES ASSUME NEW r \in Sides, NEW u \in DOMAIN tasks'[r], HoldsPermit(u, tasks'[r][u].at)
               PROVE  u \in DOMAIN tasks[r] /\ HoldsPermit(u, tasks[r][u].at)
    BY DEF NoNewHolder
  <2>1. CASE r = s
    BY <1>4, <2>1 DEF NoHolders
  <2>2. CASE r # s
    BY <2>2 DEF StageChange
  <2> QED
    BY <2>1, <2>2
<1> QED
  BY <1>7, <1>8

\* A spawned task waits and holds no permit.
LEMMA NewTasksHoldNone ==
  ASSUME NEW new, NEW left
  PROVE  NoHolders(NewTasks(new, left))
<1> SUFFICES ASSUME NEW t \in new PROVE ~HoldsPermit(t, NewTasks(new, left)[t].at)
  BY DEF NoHolders, NewTasks
<1>1. NewTasks(new, left)[t].at = IF Reads(t) THEN "waiting" ELSE "decoding"
  BY DEF NewTasks
<1> QED
  BY <1>1 DEF HoldsPermit, HoldsWhileDecoding, Reads

\* What a step must show of the state and of the stages.
ShapeNext ==
    /\ call' = call
    /\ outcome' \in {"running", "done", "failed"}
    /\ stage' \in [Sides -> Stages]
    /\ DOMAIN tasks' = Sides /\ DOMAIN sets' = Sides /\ DOMAIN plans' = Sides
    /\ DOMAIN reserved' = Sides /\ DOMAIN emitted' = Sides /\ DOMAIN todo' = Sides
    /\ \A s \in Sides : todo'[s] \subseteq GroupsOf(s)
    /\ faults' \in 0 .. MaxFaults
RegisteredNext ==
    /\ \/ \A s \in Sides : stage'[s] = "unbuilt"
       \/ validate_sides_share_one_store /\ \A s \in Sides : stage'[s] # "unbuilt"
    /\ \A s \in Sides : stage'[s] \notin Unregistered => Checked(s)
    /\ \A s \in Sides : stage'[s] \notin Unregistered \cup {"registered"} =>
         \A r \in Sides : stage'[r] \notin Unregistered
    /\ \A s \in Sides : todo'[s] # {} => stage'[s] = "streaming"

\* The parts of the invariant, put together after a step.
LEMMA Assemble ==
  ASSUME call \in Calls, ShapeNext, RegisteredNext, Permits', GoodSides', OwnCredential'
  PROVE  IInv'
<1>1. call' = call
  BY DEF ShapeNext
<1>2. Sides' = Sides /\ \A s : Side(s)' = Side(s)
  BY <1>1 DEF Sides, Side
<1>3. \A s : GroupsOf(s)' = GroupsOf(s)
  BY <1>1 DEF GroupsOf, Side
<1>4. Shape'
  BY <1>1, <1>2, <1>3 DEF ShapeNext, Shape
<1>5. validate_sides_share_one_store' <=> validate_sides_share_one_store
  BY <1>1 DEF validate_sides_share_one_store, present_sides, Sides, Side
<1>6. \A s \in Sides : Checked(s)' <=> Checked(s)
  BY <1>1 DEF Checked, Side
<1>7. Registered'
  BY <1>2, <1>5, <1>6 DEF RegisteredNext, Registered
<1> QED
  BY <1>4, <1>7 DEF IInv

\* A step without a request keeps OwnCredential.
LEMMA NoRequest ==
  ASSUME IInv, call' = call, asked' = asked
  PROVE  OwnCredential'
<1>1. call \in Calls /\ OwnCredential
  BY DEF IInv, Shape
<1>2. 1 \in Sides
  BY <1>1, CallFacts
<1> QED
  BY <1>1, <1>2, CredentialStep

\* The stages and the lists stay.
LEMMA StagesStay ==
  ASSUME IInv, stage' = stage, todo' = todo
  PROVE  RegisteredNext
BY DEF IInv, Registered, RegisteredNext

\* A failure keeps the state as it is.
LEMMA FailKeeps ==
  ASSUME IInv, outcome' = "failed", faults' \in 0 .. MaxFaults,
         UNCHANGED <<call, stage, tasks, sets, plans, reserved, asked, emitted, todo>>
  PROVE  IInv'
<1>1. call \in Calls /\ call' = call
  BY DEF IInv, Shape
<1>2. ShapeNext
  BY DEF IInv, Shape, ShapeNext
<1>3. RegisteredNext
  BY StagesStay
<1>4. Permits'
  <2>1. NoNewHolder
    BY DEF NoNewHolder
  <2> QED
    BY <1>1, <2>1, PermitsKept DEF IInv
<1>5. GoodSides'
  <2>1. Sides' = Sides
    BY <1>1 DEF Sides
  <2>2. ASSUME NEW s \in Sides PROVE GoodSide(s)'
    <3>1. GoodSide(s)
      BY DEF IInv, GoodSides
    <3>2. Good(Side(s), stage[s], tasks[s], sets[s], plans[s], reserved[s], "failed")
      BY <3>1 DEF GoodSide, Good
    <3>3. Side(s)' = Side(s)
      BY <1>1 DEF Side
    <3>4. Good(Side(s)', stage'[s], tasks'[s], sets'[s], plans'[s], reserved'[s], outcome')
      BY <3>2, <3>3
    <3> QED
      BY <3>4 DEF GoodSide
  <2> QED
    BY <2>1, <2>2 DEF GoodSides
<1> QED
  BY <1>1, <1>2, <1>3, <1>4, <1>5, NoRequest, Assemble

\* A step that fails the call keeps the invariant.
LEMMA FailStep ==
  ASSUME IInv, Fail
  PROVE  IInv'
<1>1. faults' \in 0 .. MaxFaults
  BY DEF IInv, Shape, Fail
<1> QED
  BY <1>1, FailKeeps DEF Fail
\* Once a side reads, every list is checked and the stores are told apart.
LEMMA AllChecked ==
  ASSUME IInv, NEW s \in Sides, stage[s] \notin Unregistered \cup {"registered"}
  PROVE  validate_sides_share_one_store /\ (\A r \in Sides : Checked(r))
BY DEF IInv, Registered, Unregistered

\* A side that has tasks is in one of the collecting stages.
LEMMA TaskStage ==
  ASSUME IInv, NEW s \in Sides, NEW t \in DOMAIN tasks[s]
  PROVE  stage[s] \in Collecting
<1>1. TaskOK(Side(s), stage[s], t, tasks[s][t], plans[s])
  BY TaskFacts DEF IInv, Shape
<1> QED
  BY <1>1 DEF TaskOK, OpsAt, Collecting

\* A request that finds its object keeps OwnCredential.
LEMMA RequestStep ==
  ASSUME IInv, NEW s \in Sides, stage[s] \notin Unregistered \cup {"registered"}, NEW path, Found(s, path),
         call' = call, asked' = asked \cup {Request(s, path)}
  PROVE  OwnCredential'
<1>1. call \in Calls /\ OwnCredential
  BY DEF IInv, Shape
<1>2. Covered(Request(s, path))
  BY <1>1, AllChecked, RouteCovers DEF Found
<1> QED
  BY <1>1, <1>2, CredentialStep

\* A step of one task, once its effect on the bytes and the permits is known.
LEMMA TaskStepShape ==
  ASSUME IInv, UNCHANGED <<call, outcome, stage, sets, emitted, todo, faults>>,
         DOMAIN tasks' = Sides, DOMAIN reserved' = Sides, DOMAIN plans' = Sides,
         Permits', GoodSides', OwnCredential'
  PROVE  IInv'
<1>1. call \in Calls
  BY DEF IInv, Shape
<1>2. ShapeNext
  BY DEF IInv, Shape, ShapeNext
<1>3. RegisteredNext
  BY StagesStay
<1> QED
  BY <1>1, <1>2, <1>3, Assemble

\* A task that gets a permit keeps the invariant: one was free.
LEMMA AcquireKeeps ==
  ASSUME IInv, NEW s \in Sides, NEW t \in DOMAIN tasks[s], Acquire(s, t)
  PROVE  IInv'
<1>1. CASE Fail
  BY <1>1, FailStep
<1>2. CASE ~Fail
  <2>1. Shape /\ GoodSides /\ Permits /\ call \in Calls /\ DOMAIN tasks = Sides
        /\ DOMAIN reserved = Sides /\ DOMAIN plans = Sides
    BY DEF IInv, Shape
  <2>2. /\ outcome = "running" /\ tasks[s][t].at = "waiting"
        /\ Cardinality(PermitHolders) < delete_path_read_limiter
        /\ Found(s, t.path)
        /\ tasks' = [tasks EXCEPT ![s][t].at = "reading"]
        /\ asked' = asked \cup {Request(s, t.path)}
        /\ UNCHANGED <<call, outcome, stage, sets, plans, reserved, emitted, todo, faults>>
    BY <1>2 DEF Acquire
  <2>3. /\ GoodSides'
        /\ DOMAIN tasks' = Sides /\ (\A o \in Sides \ {s} : tasks'[o] = tasks[o])
        /\ DOMAIN tasks'[s] = DOMAIN tasks[s]
        /\ \A u \in DOMAIN tasks[s] \ {t} : tasks'[s][u] = tasks[s][u]
    <3>1. tasks[s][t].at # "done" /\ "reading" \in {"reading", "decoding"}
      BY <2>2
    <3>2. UNCHANGED <<call, outcome, stage, sets, plans, reserved>>
      BY <2>2
    <3> QED
      BY <2>1, <2>2, <3>1, <3>2, MoveGood
  <2>4. OneNewHolder(s, t)
    <3> SUFFICES ASSUME NEW r \in Sides, NEW u \in DOMAIN tasks'[r], HoldsPermit(u, tasks'[r][u].at),
                        ~(r = s /\ u = t)
                 PROVE  u \in DOMAIN tasks[r] /\ HoldsPermit(u, tasks[r][u].at)
      BY DEF OneNewHolder
    <3>1. CASE r = s
      BY <2>3, <3>1
    <3>2. CASE r # s
      BY <2>3, <3>2
    <3> QED
      BY <3>1, <3>2
  <2>5. Permits'
    BY <2>1, <2>2, <2>4, PermitsTaken
  <2>6. OwnCredential'
    <3>1. stage[s] \notin Unregistered \cup {"registered"}
      BY TaskStage DEF Collecting, Unregistered
    <3> QED
      BY <2>2, <3>1, RequestStep
  <2>7. DOMAIN reserved' = Sides /\ DOMAIN plans' = Sides
        /\ UNCHANGED <<call, outcome, stage, sets, emitted, todo, faults>>
    BY <2>1, <2>2
  <2> QED
    BY <2>3, <2>5, <2>6, <2>7, TaskStepShape
<1> QED
  BY <1>1, <1>2

\* Bytes that arrive from a store keep the invariant; their request went to
\* its own side's store.
LEMMA ArriveKeeps ==
  ASSUME IInv, NEW s \in Sides, NEW t \in DOMAIN tasks[s], Arrive(s, t)
  PROVE  IInv'
<1>1. Shape /\ GoodSides /\ Permits /\ call \in Calls /\ DOMAIN tasks = Sides
      /\ DOMAIN reserved = Sides /\ DOMAIN plans = Sides
  BY DEF IInv, Shape
<1>2. /\ outcome = "running" /\ tasks[s][t].at = "reading"
      /\ tasks' = [tasks EXCEPT ![s][t].at = "decoding"]
      /\ UNCHANGED <<call, outcome, stage, sets, plans, reserved, asked, emitted, todo, faults>>
  BY DEF Arrive
<1>3. /\ GoodSides' /\ tasks'[s][t].at = "decoding"
      /\ DOMAIN tasks' = Sides /\ (\A o \in Sides \ {s} : tasks'[o] = tasks[o])
      /\ DOMAIN tasks'[s] = DOMAIN tasks[s]
      /\ \A u \in DOMAIN tasks[s] \ {t} : tasks'[s][u] = tasks[s][u]
  <2>1. tasks[s][t].at # "done" /\ "decoding" \in {"reading", "decoding"}
    BY <1>2
  <2>2. UNCHANGED <<call, outcome, stage, sets, plans, reserved>>
    BY <1>2
  <2> QED
    BY <1>1, <1>2, <2>1, <2>2, MoveGood
<1>4. NoNewHolder
  <2>1. TaskFrame(s, t)
    BY <1>3 DEF TaskFrame
  <2>2. HoldsPermit(t, tasks[s][t].at)
    BY <1>2 DEF HoldsPermit
  <2> QED
    BY <2>1, <2>2, FrameHolders
<1>5. Permits'
  BY <1>1, <1>2, <1>4, PermitsKept
<1>6. OwnCredential'
  BY <1>2, NoRequest
<1>7. DOMAIN reserved' = Sides /\ DOMAIN plans' = Sides
      /\ UNCHANGED <<call, outcome, stage, sets, emitted, todo, faults>>
  BY <1>1, <1>2
<1> QED
  BY <1>3, <1>5, <1>6, <1>7, TaskStepShape

\* Decoding, uniting and building a plan: the lemmas above, or the call fails.
LEMMA DecodeKeeps ==
  ASSUME IInv, NEW s \in Sides, NEW t \in DOMAIN tasks[s],
         DecodeBatch(s, t) \/ EndDecode(s, t) \/ DecodeVectors(s, t) \/ Unite(s, t) \/ BuildPlan(s, t)
  PROVE  IInv'
<1>1. CASE Fail
  BY <1>1, FailStep
<1>2. CASE ~Fail
  <2>1. Shape /\ GoodSides /\ Permits /\ call \in Calls /\ DOMAIN plans = Sides
    BY DEF IInv, Shape
  <2>2. UNCHANGED <<call, outcome, stage, sets, asked, emitted, todo, faults>>
    BY <1>2 DEF DecodeBatch, EndDecode, DecodeVectors, Unite, BuildPlan, Finish
  <2>3. GoodSides' /\ NoNewHolder /\ DOMAIN tasks' = Sides /\ DOMAIN reserved' = Sides /\ DOMAIN plans' = Sides
    <3>1. CASE DecodeBatch(s, t)
      <4>1. plans' = plans
        BY <1>2, <3>1 DEF DecodeBatch
      <4> QED
        BY <1>2, <2>1, <3>1, <4>1, DecodeBatchGood
    <3>2. CASE EndDecode(s, t)
      <4>1. plans' = plans
        BY <1>2, <3>2 DEF EndDecode, Finish
      <4> QED
        BY <1>2, <2>1, <3>2, <4>1, EndDecodeGood
    <3>3. CASE DecodeVectors(s, t)
      <4>1. plans' = plans
        BY <1>2, <3>3 DEF DecodeVectors, Finish
      <4> QED
        BY <1>2, <2>1, <3>3, <4>1, DecodeVectorsGood
    <3>4. CASE Unite(s, t)
      <4>1. plans' = plans
        BY <1>2, <3>4 DEF Unite, Finish
      <4> QED
        BY <1>2, <2>1, <3>4, <4>1, UniteGood
    <3>5. CASE BuildPlan(s, t)
      BY <1>2, <2>1, <3>5, BuildPlanGood
    <3> QED
      BY <3>1, <3>2, <3>3, <3>4, <3>5
  <2>4. Permits'
    BY <2>1, <2>2, <2>3, PermitsKept
  <2>5. OwnCredential'
    BY <2>2, NoRequest
  <2>6. UNCHANGED <<call, outcome, stage, sets, emitted, todo, faults>>
    BY <2>2
  <2> QED
    BY <2>3, <2>4, <2>5, <2>6, TaskStepShape
<1> QED
  BY <1>1, <1>2

\* A failed call gives its tasks and bytes back.
LEMMA AbortKeeps ==
  ASSUME IInv, NEW s \in Sides, NEW t \in DOMAIN tasks[s], Abort(s, t)
  PROVE  IInv'
<1> DEFINE now == [u \in DOMAIN tasks[s] \ {t} |-> tasks[s][u]]
<1>1. Shape /\ GoodSides /\ Permits /\ call \in Calls /\ DOMAIN tasks = Sides
      /\ DOMAIN reserved = Sides /\ DOMAIN plans = Sides
  BY DEF IInv, Shape
<1>2. /\ outcome = "failed"
      /\ tasks' = [tasks EXCEPT ![s] = now]
      /\ reserved' = [reserved EXCEPT ![s] = IF DOMAIN tasks[s] = {t} THEN 0 ELSE @]
      /\ UNCHANGED <<call, outcome, stage, sets, plans, asked, emitted, todo, faults>>
  BY DEF Abort
<1>3. tasks'[s] = now /\ DOMAIN tasks' = Sides /\ (\A o \in Sides \ {s} : tasks'[o] = tasks[o])
  <2> HIDE DEF now
  <2> QED
    BY <1>1, <1>2
<1>4. DOMAIN reserved' = Sides /\ reserved'[s] \in {0, reserved[s]}
      /\ (\A o \in Sides \ {s} : reserved'[o] = reserved[o])
  BY <1>1, <1>2
<1>5. SideInv(Side(s), stage[s], tasks[s], sets[s], plans[s]) /\ reserved[s] \in Nat
  BY <1>1 DEF GoodSides, GoodSide, Good
<1>6. SideInv(Side(s), stage[s], now, sets[s], plans[s])
  <2>1. DOMAIN now = DOMAIN tasks[s] \ {t} /\ (\A u \in DOMAIN now : now[u] = tasks[s][u])
    OBVIOUS
  <2>2. IsFiniteSet(DOMAIN now)
    BY <1>5, <2>1, FS_Subset DEF SideInv
  <2>3. \A u \in DOMAIN now : TaskOK(Side(s), stage[s], u, now[u], plans[s])
    <3> HIDE DEF now
    <3> QED
      BY <1>5, <2>1 DEF SideInv
  <2> HIDE DEF now
  <2> QED
    BY <1>5, <2>1, <2>2, <2>3 DEF SideInv
<1>7. Good(Side(s), stage'[s], tasks'[s], sets'[s], plans'[s], reserved'[s], outcome)
  <2>1. stage'[s] = stage[s] /\ sets'[s] = sets[s] /\ plans'[s] = plans[s]
    BY <1>2
  <2>2. reserved'[s] \in Nat
    BY <1>4, <1>5
  <2> HIDE DEF now
  <2> QED
    BY <1>2, <1>3, <1>6, <2>1, <2>2 DEF Good
<1>8. GoodSides'
  <2>1. OnlySide(s)
    BY <1>2, <1>3, <1>4 DEF OnlySide
  <2> QED
    BY <1>1, <1>7, <2>1, SideGood
<1>9. Permits'
  <2>1. NoNewHolder
    <3> SUFFICES ASSUME NEW r \in Sides, NEW u \in DOMAIN tasks'[r], HoldsPermit(u, tasks'[r][u].at)
                 PROVE  u \in DOMAIN tasks[r] /\ HoldsPermit(u, tasks[r][u].at)
      BY DEF NoNewHolder
    <3>1. CASE r = s
      BY <1>3, <3>1
    <3>2. CASE r # s
      BY <1>3, <3>2
    <3> QED
      BY <3>1, <3>2
  <2> QED
    BY <1>1, <1>2, <2>1, PermitsKept
<1>10. OwnCredential'
  BY <1>2, NoRequest
<1>11. DOMAIN plans' = Sides /\ UNCHANGED <<call, outcome, stage, sets, emitted, todo, faults>>
  BY <1>1, <1>2
<1> QED
  BY <1>3, <1>4, <1>8, <1>9, <1>10, <1>11, TaskStepShape
-----------------------------------------------------------------------------
\* The steps of a side.
LEMMA StageStepKeeps ==
  ASSUME IInv, outcome = "running", NEW s \in Sides, NEW next \in Stages, NEW ts, NEW ss,
         StageChange(s, next, ts, ss), NoHolders(ts),
         SideInv(Side(s), next, ts, ss, plans[s]), reserved'[s] = Held(next, ts, ss, plans[s]),
         UNCHANGED <<asked, emitted, todo, faults>>, RegisteredNext
  PROVE  IInv'
<1>1. Shape /\ GoodSides /\ Permits /\ call \in Calls
  BY DEF IInv, Shape
<1>2. GoodSides' /\ NoNewHolder
  BY <1>1, StageGood
<1>3. ShapeNext
  <2>1. stage' \in [Sides -> Stages]
    BY <1>1 DEF Shape, StageChange
  <2> QED
    BY <1>1, <2>1 DEF Shape, ShapeNext, StageChange
<1>4. call' = call
  BY DEF StageChange
<1>5. Permits'
  BY <1>1, <1>2, <1>4, PermitsKept
<1> QED
  BY <1>1, <1>2, <1>3, <1>4, <1>5, NoRequest, Assemble

\* A registered side enters its next stage when every side is registered.
LEMMA StageRegistered ==
  ASSUME IInv, NEW s \in Sides, NEW next \in Stages \ Unregistered, stage' = [stage EXCEPT ![s] = next],
         \A r \in Sides : stage[r] \notin Unregistered, stage[s] # "streaming", todo' = todo
  PROVE  RegisteredNext
<1>1. DOMAIN stage = Sides /\ Registered
  BY DEF IInv, Shape
<1>2. stage'[s] = next /\ \A o \in Sides \ {s} : stage'[o] = stage[o]
  BY <1>1
<1>3. \A r \in Sides : stage'[r] \notin Unregistered
  BY <1>2
<1>4. \A r \in Sides : Checked(r)
  BY <1>1 DEF Registered
<1>5. validate_sides_share_one_store
  BY <1>1 DEF Registered, Unregistered
<1>6. \A r \in Sides : todo'[r] # {} => stage'[r] = "streaming"
  BY <1>1, <1>2 DEF Registered
<1> QED
  BY <1>3, <1>4, <1>5, <1>6 DEF RegisteredNext, Unregistered

\* A side beyond registering: so are the others.
LEMMA SidesRegistered ==
  ASSUME IInv, NEW s \in Sides, stage[s] \notin Unregistered \cup {"registered"}
  PROVE  \A r \in Sides : stage[r] \notin Unregistered
BY DEF IInv, Registered

\* What the invariant says of a side while the call runs.
LEMMA SideFacts ==
  ASSUME IInv, outcome = "running", NEW s \in Sides
  PROVE  /\ call \in Calls /\ SideShape(Side(s))
         /\ SideInv(Side(s), stage[s], tasks[s], sets[s], plans[s])
         /\ reserved[s] \in Nat /\ reserved[s] = Held(stage[s], tasks[s], sets[s], plans[s])
         /\ stage[s] \in Stages
         /\ DOMAIN stage = Sides /\ DOMAIN tasks = Sides /\ DOMAIN sets = Sides
         /\ DOMAIN plans = Sides /\ DOMAIN reserved = Sides
<1>1. Shape /\ GoodSides
  BY DEF IInv
<1>2. call \in Calls
  BY <1>1 DEF Shape
<1>3. GoodSide(s)
  BY <1>1 DEF GoodSides
<1>4. SideShape(Side(s))
  BY <1>2, CallFacts
<1> QED
  BY <1>1, <1>2, <1>3, <1>4 DEF Shape, GoodSide, Good

\* An idle side enters another idle stage.
LEMMA IdleKeeps ==
  ASSUME IInv, outcome = "running", NEW s \in Sides, stage[s] \notin Collecting,
         NEW next \in Stages \ Collecting, DOMAIN plans[s] = {} \/ next \in {"ready", "streaming"},
         stage' = [stage EXCEPT ![s] = next],
         UNCHANGED <<call, outcome, tasks, sets, plans, reserved, asked, emitted, todo, faults>>,
         RegisteredNext
  PROVE  IInv'
<1> DEFINE ts == tasks[s]  ss == sets[s]  ps == plans[s]  st == stage[s]
<1>1. SideInv(Side(s), st, ts, ss, ps) /\ reserved[s] = Held(st, ts, ss, ps) /\ st \in Stages \ Collecting
      /\ (DOMAIN ps = {} \/ next \in {"ready", "streaming"})
  BY SideFacts
<1>2. DOMAIN tasks = Sides /\ DOMAIN sets = Sides /\ DOMAIN reserved = Sides
  BY SideFacts
<1>3. DOMAIN ts = {} /\ SideInv(Side(s), next, ts, ss, ps) /\ Held(next, ts, ss, ps) = Held(st, ts, ss, ps)
  <2> HIDE DEF ts, ss, ps, st
  <2> QED
    BY <1>1, IdleEnter
<1>4. StageChange(s, next, ts, ss)
  BY <1>2 DEF StageChange
<1>5. NoHolders(ts)
  BY <1>3 DEF NoHolders
<1>6. reserved'[s] = Held(next, ts, ss, ps)
  BY <1>1, <1>3
<1>7. SideInv(Side(s), next, tasks[s], sets[s], plans[s]) /\ reserved'[s] = Held(next, tasks[s], sets[s], plans[s])
  BY <1>3, <1>6
<1> QED
  BY <1>4, <1>5, <1>7, StageStepKeeps

\* The registration of a side's file list keeps the invariant.
LEMMA RegisterFileListKeeps ==
  ASSUME IInv, NEW s \in Sides, RegisterFileList(s)
  PROVE  IInv'
<1>1. CASE Fail
  BY <1>1, FailStep
<1>2. CASE ~Fail
  <2>1. /\ outcome = "running" /\ stage[s] = "registering"
        /\ Side(s).entries # <<>> /\ validate_uniform_object_store_files(Side(s))
        /\ stage' = [stage EXCEPT ![s] = "registered"]
        /\ UNCHANGED <<call, outcome, tasks, sets, plans, reserved, asked, emitted, todo, faults>>
    BY <1>2 DEF RegisterFileList, Enter
  <2>2. DOMAIN plans[s] = {} /\ DOMAIN stage = Sides
    BY <2>1, SideFacts DEF SideInv
  <2>3. "registered" \in Stages \ Collecting /\ stage[s] \notin Collecting
    BY <2>1 DEF Stages, Collecting
  <2>4. RegisteredNext
    <3>1. stage'[s] = "registered" /\ \A o \in Sides \ {s} : stage'[o] = stage[o]
      BY <2>1, <2>2
    <3>2. Registered
      BY DEF IInv
    <3>3. Checked(s)
      BY <2>1 DEF Checked
    <3>4. \A o \in Sides : stage[o] \in Unregistered \cup {"registered"}
      BY <2>1, <3>2 DEF Registered, Unregistered
    <3>5. \A o \in Sides : todo[o] = {}
      BY <3>2, <3>4 DEF Registered, Unregistered
    <3>6. validate_sides_share_one_store /\ \A o \in Sides : stage[o] # "unbuilt"
      BY <2>1, <3>2 DEF Registered
    <3>7. \A o \in Sides : stage'[o] \in Unregistered \cup {"registered"}
      BY <3>1, <3>4
    <3>8. \A o \in Sides : stage'[o] # "unbuilt"
      BY <3>1, <3>6
    <3>9. \A o \in Sides : stage'[o] \notin Unregistered => Checked(o)
      BY <3>1, <3>2, <3>3 DEF Registered
    <3> QED
      BY <2>1, <3>5, <3>6, <3>7, <3>8, <3>9 DEF RegisteredNext
  <2> QED
    BY <2>1, <2>2, <2>3, <2>4, IdleKeeps
<1> QED
  BY <1>1, <1>2

\* Spawn as the tasks it makes.
LEMMA SpawnIs ==
  ASSUME NEW s \in Sides, NEW new, NEW left, Spawn(s, new, left), DOMAIN tasks = Sides
  PROVE  tasks'[s] = NewTasks(new, left) /\ DOMAIN tasks' = Sides /\ \A o \in Sides \ {s} : tasks'[o] = tasks[o]
<1>1. tasks' = [tasks EXCEPT ![s] = NewTasks(new, left)]
  BY DEF Spawn, NewTasks
<1> QED
  BY <1>1

\* The start of the delete phase keeps the invariant.
LEMMA StartPartitionedFilesKeeps ==
  ASSUME IInv, NEW s \in Sides, StartPartitionedFiles(s)
  PROVE  IInv'
<1>0. /\ outcome = "running" /\ stage[s] = "registered"
      /\ \A r \in Sides : stage[r] # "registering"
  BY DEF StartPartitionedFiles
<1>1. CASE Fail
  BY <1>1, FailStep
<1>2. \A r \in Sides : stage[r] \notin Unregistered
  BY <1>0 DEF IInv, Registered, Unregistered
<1>3. CASE /\ Enter(s, "ready")
           /\ UNCHANGED <<call, outcome, tasks, sets, plans, reserved, asked, emitted, todo, faults>>
  <2>1. stage' = [stage EXCEPT ![s] = "ready"]
    BY <1>3 DEF Enter
  <2>2. "ready" \in Stages \ Collecting /\ stage[s] \notin Collecting /\ "ready" \in Stages \ Unregistered
        /\ stage[s] # "streaming" /\ "ready" \in {"ready", "streaming"}
    BY <1>0 DEF Stages, Collecting, Unregistered
  <2>3. RegisteredNext
    BY <1>2, <1>3, <2>1, <2>2, StageRegistered
  <2> QED
    BY <1>0, <1>3, <2>1, <2>2, <2>3, IdleKeeps
<1> DEFINE side == Side(s)
           reads == delete_file_opens(side) \cup delta_vector_reads(side) \cup iceberg_vector_reads(side)
           left == [t \in reads |-> IF t.op = "open" THEN InTail(side, t.path) ELSE {}]
<1>4. CASE /\ Spawn(s, reads, left)
           /\ Enter(s, "opening")
           /\ UNCHANGED <<call, outcome, sets, plans, reserved, asked, emitted, todo, faults>>
  <2> DEFINE ps == plans[s]
             ts == NewTasks(reads, left)
  <2>1. /\ SideShape(side) /\ SideInv(side, "registered", tasks[s], sets[s], ps)
        /\ reserved[s] = Held("registered", tasks[s], sets[s], ps)
        /\ DOMAIN tasks = Sides /\ DOMAIN sets = Sides /\ DOMAIN reserved = Sides
    BY <1>0, SideFacts
  <2>2. sets[s] = {} /\ DOMAIN ps = {} /\ DOMAIN tasks[s] = {}
    <3>1. OpsAt("registered") = {}
      BY DEF OpsAt
    <3> HIDE DEF ps, side
    <3> QED
      BY <2>1, <3>1 DEF SideInv, TaskOK
  <2>3. Spawns(side, reads, {"open", "vector"})
    <3>1. Spawns(side, delete_file_opens(side), {"open", "vector"})
      BY <2>1, OpensSpawn
    <3>2. Spawns(side, delta_vector_reads(side), {"open", "vector"})
      BY <2>1, DeltaSpawn
    <3>3. Spawns(side, iceberg_vector_reads(side), {"open", "vector"})
      BY <2>1, PuffinSpawn
    <3> QED
      BY <3>1, <3>2, <3>3, SpawnsUnion
  <2>4. IsFiniteSet(reads) /\ \A t \in reads : NewOK(side, "opening", t, left)
    <3>1. ASSUME NEW t \in reads PROVE NewOK(side, "opening", t, left)
      <4>1. t.op \in {"open", "vector"} /\ Reading(side, t)
        BY <2>3 DEF Spawns
      <4>2. t.op = "open" => left[t] = InTail(side, t.path)
        <5> HIDE DEF reads
        <5> QED
          OBVIOUS
      <4>3. t.op = "open" => left[t] \subseteq DOMAIN side.content[t.path.id]
        <5> HIDE DEF left
        <5> QED
          BY <4>2 DEF InTail, Relevant
      <4> HIDE DEF reads, left, side
      <4> QED
        BY <4>1, <4>3 DEF NewOK, OpsAt
    <3> QED
      BY <2>3, <3>1 DEF Spawns
  <2>5. SideInv(side, "opening", ts, {}, ps) /\ Held("opening", ts, {}, ps) = SumFunction(SetSizes({}))
    <3>1. "opening" \in Collecting /\ "opening" # "uniting" /\ "opening" \notin {"uniting", "building"}
      BY DEF Collecting
    <3>2. IsFiniteSet({}) /\ \A r \in {} : SetOK(side, "opening", r)
      BY FS_EmptySet
    <3> HIDE DEF reads, left, side, ps
    <3> QED
      BY <2>1, <2>2, <2>4, <3>1, <3>2, SpawnInv
  <2>6. Held("registered", tasks[s], sets[s], ps) = 0 /\ SumFunction(SetSizes({})) = 0
    <3>1. DOMAIN TaskSizes("registered", tasks[s], sets[s]) = {} /\ DOMAIN SetSizes({}) = {}
          /\ DOMAIN PlanSizes(ps) = {}
      <4> HIDE DEF ps
      <4> QED
        BY <2>2 DEF TaskSizes, SetSizes, PlanSizes
    <3>2. SumFunction(TaskSizes("registered", tasks[s], sets[s])) = 0 /\ SumFunction(SetSizes({})) = 0
          /\ SumFunction(PlanSizes(ps)) = 0
      BY <3>1, SumEmpty
    <3>3. SetTotal("registered", sets[s]) = 0
      BY <2>2, <3>2 DEF SetTotal
    <3> HIDE DEF ps
    <3> QED
      BY <3>2, <3>3 DEF Held
  <2>7. stage' = [stage EXCEPT ![s] = "opening"]
    BY <1>4 DEF Enter
  <2>8. StageChange(s, "opening", ts, {})
    <3>1. tasks'[s] = ts /\ DOMAIN tasks' = Sides /\ \A o \in Sides \ {s} : tasks'[o] = tasks[o]
      <4> HIDE DEF reads, left
      <4> QED
        BY <1>4, <2>1, SpawnIs
    <3> HIDE DEF ts
    <3> QED
      BY <1>4, <2>1, <2>2, <2>7, <3>1 DEF StageChange
  <2>9. RegisteredNext
    <3>1. "opening" \in Stages \ Unregistered /\ stage[s] # "streaming"
      BY <1>0 DEF Stages, Unregistered
    <3> QED
      BY <1>2, <1>4, <2>7, <3>1, StageRegistered
  <2>10. reserved'[s] = Held("opening", ts, {}, ps)
    <3> HIDE DEF ts, ps, side
    <3> QED
      BY <1>4, <2>1, <2>5, <2>6
  <2>11. "opening" \in Stages /\ NoHolders(ts)
    BY NewTasksHoldNone DEF Stages
  <2>12. UNCHANGED <<asked, emitted, todo, faults>>
    BY <1>4
  <2> HIDE DEF ts
  <2> QED
    BY <1>0, <2>5, <2>8, <2>9, <2>10, <2>11, <2>12, StageStepKeeps
<1> QED
  BY <1>1, <1>3, <1>4, Zenon DEF StartPartitionedFiles
\* Between the stages that collect deletes.
LEMMA CollectKeeps ==
  ASSUME IInv, outcome = "running", NEW s \in Sides, stage[s] \in Collecting,
         NEW next \in Stages \ Unregistered, NEW ts, NEW ss,
         StageChange(s, next, ts, ss), NoHolders(ts),
         SideInv(Side(s), next, ts, ss, plans[s]), reserved'[s] = Held(next, ts, ss, plans[s]),
         UNCHANGED <<asked, emitted, todo, faults>>
  PROVE  IInv'
<1>1. stage[s] \notin Unregistered \cup {"registered"} /\ stage[s] # "streaming"
  BY DEF Collecting, Unregistered
<1>2. stage' = [stage EXCEPT ![s] = next] /\ todo' = todo
  BY DEF StageChange
<1>3. RegisteredNext
  BY <1>1, <1>2, SidesRegistered, StageRegistered
<1> QED
  BY <1>3, StageStepKeeps

\* The spawn of the row-group reads keeps the invariant.
LEMMA SpawnRowGroupsKeeps ==
  ASSUME IInv, NEW s \in Sides, SpawnRowGroups(s)
  PROVE  IInv'
<1> DEFINE side == Side(s)
           new == row_group_reads(side)
           left == [t \in new |-> {t.group}]
           ts == NewTasks(new, left)
           ss == Gathered(tasks[s])
           ps == plans[s]
<1>1. /\ outcome = "running" /\ stage[s] = "opening"
      /\ sets' = [sets EXCEPT ![s] = ss]
      /\ Spawn(s, new, left)
      /\ stage' = [stage EXCEPT ![s] = "grouping"]
      /\ UNCHANGED <<call, outcome, plans, reserved, asked, emitted, todo, faults>>
  BY DEF SpawnRowGroups, Gathered, Enter
<1>2. /\ SideShape(side) /\ SideInv(side, "opening", tasks[s], sets[s], ps)
      /\ reserved[s] = Held("opening", tasks[s], sets[s], ps)
      /\ DOMAIN tasks = Sides /\ DOMAIN sets = Sides /\ DOMAIN reserved = Sides
  BY <1>1, SideFacts
<1>3. sets[s] = {}
  BY <1>2 DEF SideInv
<1>4. SideInv(side, "grouping", ts, ss, ps) /\ Held("grouping", ts, ss, ps) = Held("opening", tasks[s], {}, ps)
  <2>1. \A t \in row_group_reads(side) : left[t] = {t.group}
    OBVIOUS
  <2>2. SideInv(side, "opening", tasks[s], {}, ps)
    BY <1>2, <1>3
  <2> HIDE DEF left, side, ps
  <2> QED
    BY <1>2, <2>1, <2>2, RowGroupsHeld
<1>5. StageChange(s, "grouping", ts, ss)
  <2>1. tasks'[s] = ts /\ DOMAIN tasks' = Sides /\ \A o \in Sides \ {s} : tasks'[o] = tasks[o]
    <3> HIDE DEF new, left
    <3> QED
      BY <1>1, <1>2, SpawnIs
  <2> HIDE DEF ts, ss
  <2> QED
    BY <1>1, <1>2, <2>1 DEF StageChange
<1>6. "grouping" \in Stages \ Unregistered /\ stage[s] \in Collecting /\ NoHolders(ts)
  BY <1>1, NewTasksHoldNone DEF Stages, Unregistered, Collecting
<1>7. reserved'[s] = Held("grouping", ts, ss, ps)
  <2> HIDE DEF ts, ss, ps, side
  <2> QED
    BY <1>1, <1>2, <1>3, <1>4
<1>8. UNCHANGED <<asked, emitted, todo, faults>>
  BY <1>1
<1> HIDE DEF ts, ss
<1> QED
  BY <1>1, <1>4, <1>5, <1>6, <1>7, <1>8, CollectKeeps

\* The spawn of the unions keeps the invariant: each file's sets pass to its
\* task.
LEMMA SpawnUnionsKeeps ==
  ASSUME IInv, NEW s \in Sides, SpawnUnions(s)
  PROVE  IInv'
<1> DEFINE side == Side(s)
           G == Gathered(tasks[s])
           all == sets[s] \cup G
           p == [f \in FilesIn(all) |-> Entry(s, f).path]
           new == UnionTasks(all, p)
           left == Nothing(new)
           ts == NewTasks(new, left)
           ps == plans[s]
           unions == {Task("union", Entry(s, f).path) : f \in FilesIn(all)}
<1>0. new = unions
  BY DEF UnionTasks
<1>1. /\ outcome = "running" /\ stage[s] = "grouping"
      /\ sets' = [sets EXCEPT ![s] = all]
      /\ Spawn(s, unions, Nothing(unions))
      /\ stage' = [stage EXCEPT ![s] = "uniting"]
      /\ UNCHANGED <<call, outcome, plans, reserved, asked, emitted, todo, faults>>
  BY DEF SpawnUnions, Gathered, Enter, FilesIn
<1>2. /\ SideShape(side) /\ SideInv(side, "grouping", tasks[s], sets[s], ps)
      /\ reserved[s] = Held("grouping", tasks[s], sets[s], ps)
      /\ DOMAIN tasks = Sides /\ DOMAIN sets = Sides /\ DOMAIN reserved = Sides
  BY <1>1, SideFacts
<1>3. FilesIn(all) \subseteq Assigned(side)
  <2>1. \A r \in sets[s] : FoundOK(side, r.found)
    BY <1>2 DEF SideInv, SetOK
  <2>2. \A r \in G : FoundOK(side, r.found)
    <3>1. IsFiniteSet(DOMAIN tasks[s]) /\ \A t \in DOMAIN tasks[s] : FoundOK(side, tasks[s][t].found)
      BY <1>2 DEF SideInv, TaskOK
    <3> QED
      BY <1>2, <3>1, GatheredInv
  <2> HIDE DEF G, side
  <2> QED
    BY <2>1, <2>2 DEF FilesIn, FoundOK
<1>4. Names(all, p)
  <2>1. ASSUME NEW f \in FilesIn(all) PROVE p[f].id = f
    <3>1. Entry(s, f).path.id = f
      BY <1>3, EntryOf
    <3> HIDE DEF all
    <3> QED
      BY <3>1
  <2> HIDE DEF all, p
  <2> QED
    BY <2>1 DEF Names
<1>5. SideInv(side, "uniting", ts, all, ps) /\ Held("uniting", ts, all, ps) = Held("grouping", tasks[s], sets[s], ps)
  <2> HIDE DEF side, p, left, ps
  <2> QED
    BY <1>2, <1>4, UnionsHeld
<1>6. StageChange(s, "uniting", ts, all)
  <2>1. tasks'[s] = ts /\ DOMAIN tasks' = Sides /\ \A o \in Sides \ {s} : tasks'[o] = tasks[o]
    <3>1. Spawn(s, new, left)
      <4> HIDE DEF new, unions
      <4> QED
        BY <1>0, <1>1
    <3> HIDE DEF new, left
    <3> QED
      BY <1>2, <3>1, SpawnIs
  <2> HIDE DEF ts, all
  <2> QED
    BY <1>1, <1>2, <2>1 DEF StageChange
<1>7. "uniting" \in Stages \ Unregistered /\ stage[s] \in Collecting /\ NoHolders(ts)
  BY <1>1, NewTasksHoldNone DEF Stages, Unregistered, Collecting
<1>8. reserved'[s] = Held("uniting", ts, all, ps)
  <2> HIDE DEF ts, all, ps, side
  <2> QED
    BY <1>1, <1>2, <1>5
<1>9. UNCHANGED <<asked, emitted, todo, faults>>
  BY <1>1
<1> HIDE DEF ts, all
<1> QED
  BY <1>1, <1>5, <1>6, <1>7, <1>8, <1>9, CollectKeeps

\* A side whose tasks and sets are gone holds its access plans.
LEMMA ReadyHeld ==
  ASSUME NEW side, SideShape(side), NEW ts, DOMAIN ts = {}, NEW ps, DOMAIN ps \subseteq Assigned(side),
         \A f \in DOMAIN ps : access_plan_bytes(ps[f]) \in Nat
  PROVE  SideInv(side, "ready", ts, {}, ps) /\ Held("ready", ts, {}, ps) = SumFunction(PlanSizes(ps))
<1>1. SideInv(side, "ready", ts, {}, ps)
  BY FS_EmptySet DEF SideInv
<1>2. DOMAIN TaskSizes("ready", ts, {}) = {} /\ DOMAIN SetSizes({}) = {}
  BY DEF TaskSizes, SetSizes
<1>3. SumFunction(TaskSizes("ready", ts, {})) = 0 /\ SetTotal("ready", {}) = 0
  BY <1>2, SumEmpty DEF SetTotal
<1>4. SumFunction(PlanSizes(ps)) \in Nat
  BY <1>1, SizesTyped
<1> QED
  BY <1>1, <1>3, <1>4 DEF Held

\* The spawn of the access plans keeps the invariant.
LEMMA SpawnPlansKeeps ==
  ASSUME IInv, NEW s \in Sides, SpawnPlans(s)
  PROVE  IInv'
<1> DEFINE side == Side(s)
           G == Gathered(tasks[s])
           T == {u \in DOMAIN tasks[s] : tasks[s][u].found[u.path.id] # {}}
           new == {Task("plan", t.path) : t \in T}
           left == Nothing(new)
           ts == NewTasks(new, left)
           ps == plans[s]
<1>1. /\ outcome = "running" /\ stage[s] = "uniting" /\ AllDone(s)
      /\ sets' = [sets EXCEPT ![s] = G]
      /\ IF G = {}
         THEN /\ tasks' = [tasks EXCEPT ![s] = <<>>]
              /\ reserved' = [reserved EXCEPT ![s] = 0]
              /\ Enter(s, "ready")
         ELSE /\ Spawn(s, new, left)
              /\ Enter(s, "building")
              /\ UNCHANGED reserved
      /\ UNCHANGED <<call, outcome, plans, asked, emitted, todo, faults>>
  BY Zenon DEF SpawnPlans, Gathered
<1>2. /\ SideShape(side) /\ SideInv(side, "uniting", tasks[s], sets[s], ps)
      /\ reserved[s] = Held("uniting", tasks[s], sets[s], ps)
      /\ DOMAIN tasks = Sides /\ DOMAIN sets = Sides /\ DOMAIN reserved = Sides
  BY <1>1, SideFacts
<1>3. stage[s] \in Collecting /\ UNCHANGED <<asked, emitted, todo, faults>>
  BY <1>1 DEF Collecting
<1>4. CASE G = {}
  <2> DEFINE none == <<>>
  <2>1. DOMAIN ps = {} /\ DOMAIN none = {}
    BY <1>2 DEF SideInv
  <2>2. SideInv(side, "ready", none, {}, ps) /\ Held("ready", none, {}, ps) = SumFunction(PlanSizes(ps))
    <3> HIDE DEF side, ps, none
    <3> QED
      BY <1>2, <2>1, ReadyHeld
  <2>3. SumFunction(PlanSizes(ps)) = 0
    <3>1. DOMAIN PlanSizes(ps) = {}
      BY <2>1 DEF PlanSizes
    <3> QED
      BY <3>1, SumEmpty
  <2>4. tasks' = [tasks EXCEPT ![s] = none] /\ reserved' = [reserved EXCEPT ![s] = 0]
        /\ stage' = [stage EXCEPT ![s] = "ready"] /\ sets' = [sets EXCEPT ![s] = {}]
    BY <1>1, <1>4 DEF Enter
  <2> HIDE DEF none
  <2>5. StageChange(s, "ready", none, {})
    BY <1>1, <1>2, <2>4 DEF StageChange
  <2>6. reserved'[s] = Held("ready", none, {}, ps)
    <3>1. reserved'[s] = 0
      BY <1>2, <2>4
    <3> QED
      BY <2>2, <2>3, <3>1
  <2>7. "ready" \in Stages \ Unregistered /\ NoHolders(none)
    BY <2>1 DEF Stages, Unregistered, NoHolders
  <2> QED
    BY <1>1, <1>3, <2>2, <2>5, <2>6, <2>7, CollectKeeps
<1>5. CASE G # {}
  <2>1. SideInv(side, "building", ts, G, ps) /\ Held("building", ts, G, ps) = Held("uniting", tasks[s], sets[s], ps)
    <3>1. \A t \in DOMAIN tasks[s] : tasks[s][t].at = "done"
      BY <1>1 DEF AllDone
    <3>2. T \in SUBSET DOMAIN tasks[s]
      OBVIOUS
    <3> HIDE DEF side, T, ps, left
    <3> QED
      BY <1>2, <3>1, <3>2, PlansHeld
  <2>2. Spawn(s, new, left) /\ stage' = [stage EXCEPT ![s] = "building"] /\ reserved' = reserved
    <3> HIDE DEF new, left, G
    <3> QED
      BY <1>1, <1>5 DEF Enter
  <2>3. StageChange(s, "building", ts, G)
    <3>1. tasks'[s] = ts /\ DOMAIN tasks' = Sides /\ \A o \in Sides \ {s} : tasks'[o] = tasks[o]
      <4> HIDE DEF new, left
      <4> QED
        BY <1>2, <2>2, SpawnIs
    <3>2. sets' = [sets EXCEPT ![s] = G] /\ call' = call /\ outcome' = outcome /\ plans' = plans
      BY <1>1
    <3> HIDE DEF ts, G
    <3> QED
      BY <1>2, <2>2, <3>1, <3>2 DEF StageChange
  <2>4. "building" \in Stages \ Unregistered /\ NoHolders(ts)
    BY NewTasksHoldNone DEF Stages, Unregistered
  <2>5. reserved'[s] = Held("building", ts, G, ps)
    <3> HIDE DEF ts, G, ps, side
    <3> QED
      BY <1>2, <2>1, <2>2
  <2>6. outcome = "running"
    BY <1>1
  <2> HIDE DEF ts, G
  <2> QED
    BY <1>3, <2>1, <2>3, <2>4, <2>5, <2>6, CollectKeeps
<1> QED
  BY <1>4, <1>5

\* The end of the delete phase keeps the invariant: the plans' bytes stay
\* reserved.
LEMMA EndPlansKeeps ==
  ASSUME IInv, NEW s \in Sides, EndPlans(s)
  PROVE  IInv'
<1> DEFINE side == Side(s)  ts == tasks[s]  ss == sets[s]  ps == plans[s]  none == <<>>
<1>1. /\ outcome = "running" /\ stage[s] = "building" /\ AllDone(s)
      /\ reserved' = [reserved EXCEPT ![s] = @ - PositionBytes(s)]
      /\ sets' = [sets EXCEPT ![s] = {}]
      /\ tasks' = [tasks EXCEPT ![s] = none]
      /\ stage' = [stage EXCEPT ![s] = "ready"]
      /\ UNCHANGED <<call, outcome, plans, asked, emitted, todo, faults>>
  BY DEF EndPlans, Enter
<1>2. /\ SideShape(side) /\ SideInv(side, "building", ts, ss, ps)
      /\ reserved[s] = Held("building", ts, ss, ps)
      /\ DOMAIN tasks = Sides /\ DOMAIN sets = Sides /\ DOMAIN reserved = Sides
  BY <1>1, SideFacts
<1>3. SumFunction(TaskSizes("building", ts, ss)) = 0
  <2>1. \A t \in DOMAIN ts : TaskSizes("building", ts, ss)[t] = 0
    <3>1. ASSUME NEW t \in DOMAIN ts PROVE TaskSize("building", ss, t, ts[t]) = 0
      <4>1. TaskOK(side, "building", t, ts[t], ps)
        <5> HIDE DEF side, ts, ss, ps
        <5> QED
          BY <1>2 DEF SideInv
      <4>2. ts[t].found = NoSets
        <5> HIDE DEF side, ts, ss, ps
        <5> QED
          BY <4>1 DEF TaskOK, OpsAt
      <4> HIDE DEF ts, ss
      <4> QED
        BY <4>2, NoSetsOK DEF TaskSize
    <3> HIDE DEF ts, ss
    <3> QED
      BY <3>1 DEF TaskSizes
  <2>2. TaskSizes("building", ts, ss) \in [DOMAIN ts -> Int] /\ IsFiniteSet(DOMAIN ts)
    <3> HIDE DEF side, ts, ss, ps
    <3>1. TaskSizes("building", ts, ss) \in [DOMAIN ts -> Nat]
      BY <1>2, SizesTyped
    <3> QED
      BY <1>2, <3>1 DEF SideInv
  <2> HIDE DEF ts, ss
  <2> QED
    BY <2>1, <2>2, SumZero
<1>4. SetTotal("building", ss) = PositionBytes(s)
  BY DEF SetTotal, SetSizes, PositionBytes
<1>5. SetTotal("building", ss) \in Nat /\ SumFunction(PlanSizes(ps)) \in Nat
  <2> HIDE DEF side, ts, ss, ps
  <2> QED
    BY <1>2, SizesTyped
<1>6. SideInv(side, "ready", none, {}, ps) /\ Held("ready", none, {}, ps) = SumFunction(PlanSizes(ps))
  <2>1. DOMAIN ps \subseteq Assigned(side) /\ \A f \in DOMAIN ps : access_plan_bytes(ps[f]) \in Nat
    <3> HIDE DEF side, ts, ss, ps
    <3> QED
      BY <1>2 DEF SideInv
  <2>2. DOMAIN none = {}
    OBVIOUS
  <2> HIDE DEF side, ps, none
  <2> QED
    BY <1>2, <2>1, <2>2, ReadyHeld
<1>7. reserved'[s] = Held("ready", none, {}, ps)
  <2> DEFINE a == SumFunction(TaskSizes("building", ts, ss))
             b == SetTotal("building", ss)
             c == SumFunction(PlanSizes(ps))
  <2>1. Held("building", ts, ss, ps) = a + b + c
    BY DEF Held
  <2>2. a = 0 /\ b \in Nat /\ c \in Nat /\ Held("ready", none, {}, ps) = c
    BY <1>3, <1>5, <1>6
  <2>3. reserved'[s] = reserved[s] - b
    BY <1>1, <1>2, <1>4
  <2> HIDE DEF a, b, c, ts, ss, ps
  <2> QED
    BY <1>2, <2>1, <2>2, <2>3
<1>8. "ready" \in Stages \ Unregistered /\ NoHolders(none) /\ stage[s] \in Collecting
  BY <1>1 DEF Stages, Unregistered, NoHolders, Collecting
<1> HIDE DEF none
<1>9. StageChange(s, "ready", none, {})
  BY <1>1, <1>2 DEF StageChange
<1>10. UNCHANGED <<asked, emitted, todo, faults>>
  BY <1>1
<1> QED
  BY <1>1, <1>6, <1>7, <1>8, <1>9, <1>10, CollectKeeps
-----------------------------------------------------------------------------
\* The steps that leave the tasks, the sets and the plans alone.
LEMMA GoodSame ==
  ASSUME GoodSides, UNCHANGED <<call, outcome, stage, tasks, sets, plans, reserved>>
  PROVE  GoodSides'
<1>1. Sides' = Sides /\ \A s : Side(s)' = Side(s)
  BY DEF Sides, Side
<1>2. ASSUME NEW s \in Sides PROVE GoodSide(s)'
  <2>1. Good(Side(s), stage[s], tasks[s], sets[s], plans[s], reserved[s], outcome)
    BY DEF GoodSides, GoodSide
  <2>2. Good(Side(s)', stage'[s], tasks'[s], sets'[s], plans'[s], reserved'[s], outcome')
    BY <1>1, <2>1
  <2> QED
    BY <2>2 DEF GoodSide
<1> QED
  BY <1>1, <1>2 DEF GoodSides

\* The drop of a side's providers gives its plans' bytes back.
LEMMA DropProvidersKeeps ==
  ASSUME IInv, NEW s \in Sides, DropProviders(s)
  PROVE  IInv'
<1>1. Shape /\ GoodSides /\ Permits /\ call \in Calls /\ DOMAIN tasks = Sides
      /\ DOMAIN reserved = Sides /\ DOMAIN plans = Sides
  BY DEF IInv, Shape
<1>2. /\ outcome = "failed" /\ reserved' = [reserved EXCEPT ![s] = 0]
      /\ UNCHANGED <<call, outcome, stage, tasks, sets, plans, asked, emitted, todo, faults>>
  BY DEF DropProviders
<1>3. DOMAIN reserved' = Sides /\ reserved'[s] = 0 /\ \A o \in Sides \ {s} : reserved'[o] = reserved[o]
  BY <1>1, <1>2
<1>4. GoodSides'
  <2>1. Good(Side(s), stage[s], tasks[s], sets[s], plans[s], reserved[s], outcome)
    BY <1>1 DEF GoodSides, GoodSide
  <2>2. Good(Side(s), stage[s], tasks[s], sets[s], plans[s], 0, outcome)
    BY <1>2, <2>1 DEF Good
  <2>3. stage'[s] = stage[s] /\ tasks'[s] = tasks[s] /\ sets'[s] = sets[s] /\ plans'[s] = plans[s]
    BY <1>2
  <2>4. Good(Side(s), stage'[s], tasks'[s], sets'[s], plans'[s], reserved'[s], outcome)
    BY <1>3, <2>2, <2>3
  <2>5. OnlySide(s)
    BY <1>2, <1>3 DEF OnlySide
  <2> QED
    BY <1>1, <2>4, <2>5, SideGood
<1>5. Permits'
  <2>1. NoNewHolder
    BY <1>2 DEF NoNewHolder
  <2> QED
    BY <1>1, <1>2, <2>1, PermitsKept
<1>6. OwnCredential'
  BY <1>2, NoRequest
<1>7. DOMAIN plans' = Sides /\ DOMAIN tasks' = Sides
      /\ UNCHANGED <<call, outcome, stage, sets, emitted, todo, faults>>
  BY <1>1, <1>2
<1> QED
  BY <1>3, <1>4, <1>5, <1>6, <1>7, TaskStepShape

\* A batch, emitted or failed, keeps the invariant; its file was read from
\* its own side's store.
LEMMA EmitBatchKeeps ==
  ASSUME IInv, NEW s \in Sides, NEW b \in todo[s], EmitBatch(s, b[1], b[2])
  PROVE  IInv'
<1>1. CASE Fail
  BY <1>1, FailStep
<1>2. CASE ~Fail
  <2> DEFINE path == Entry(s, b[1]).path
  <2>1. Shape /\ Registered /\ GoodSides /\ Permits /\ call \in Calls
    BY DEF IInv, Shape
  <2>2. /\ Found(s, path)
        /\ todo' = [todo EXCEPT ![s] = @ \ {<<b[1], b[2]>>}]
        /\ DOMAIN emitted' = DOMAIN emitted
        /\ asked' = asked \cup {Request(s, path)}
        /\ UNCHANGED <<call, outcome, stage, tasks, sets, plans, reserved, faults>>
    BY <1>2 DEF EmitBatch
  <2>3. stage[s] = "streaming"
    BY <2>1 DEF Registered
  <2>4. OwnCredential'
    <3>1. stage[s] \notin Unregistered \cup {"registered"}
      BY <2>3 DEF Unregistered
    <3> HIDE DEF path
    <3> QED
      BY <2>2, <3>1, RequestStep
  <2>5. DOMAIN todo' = Sides /\ \A o \in Sides : todo'[o] \subseteq todo[o]
    <3>1. DOMAIN todo = Sides
      BY <2>1 DEF Shape
    <3> QED
      BY <2>2, <3>1
  <2>6. ShapeNext
    BY <2>1, <2>2, <2>5 DEF Shape, ShapeNext
  <2>7. RegisteredNext
    <3>1. \A o \in Sides : todo'[o] # {} => stage'[o] = "streaming"
      BY <2>1, <2>2, <2>5 DEF Registered
    <3> QED
      BY <2>1, <2>2, <3>1 DEF Registered, RegisteredNext
  <2>8. Permits'
    <3>1. NoNewHolder
      BY <2>2 DEF NoNewHolder
    <3> QED
      BY <2>1, <2>2, <3>1, PermitsKept
  <2>9. GoodSides'
    BY <2>1, <2>2, GoodSame
  <2> QED
    BY <2>1, <2>4, <2>6, <2>7, <2>8, <2>9, Assemble
<1> QED
  BY <1>1, <1>2

\* Every side goes from one idle stage to the next at once.
LEMMA AllIdle ==
  ASSUME IInv, outcome = "running", NEW st \in Stages \ Collecting, NEW next \in Stages \ Collecting,
         \A s \in Sides : stage[s] = st, stage' = [s \in Sides |-> next],
         next = "streaming" \/ \A s \in Sides : DOMAIN plans[s] = {},
         UNCHANGED <<call, outcome, tasks, sets, plans, reserved>>
  PROVE  GoodSides'
<1>1. Sides' = Sides /\ \A s : Side(s)' = Side(s)
  BY DEF Sides, Side
<1>2. ASSUME NEW s \in Sides PROVE GoodSide(s)'
  <2> DEFINE ts == tasks[s]  ss == sets[s]  ps == plans[s]  side == Side(s)
  <2>1. SideInv(side, st, ts, ss, ps) /\ reserved[s] \in Nat /\ reserved[s] = Held(st, ts, ss, ps)
    BY SideFacts
  <2>2. SideInv(side, next, ts, ss, ps) /\ Held(next, ts, ss, ps) = Held(st, ts, ss, ps)
    <3>1. SideInv(side, st, ts, ss, ps)
      BY <2>1
    <3>2. DOMAIN ps = {} \/ next \in {"ready", "streaming"}
      OBVIOUS
    <3> HIDE DEF ts, ss, ps, side
    <3> QED
      BY <3>1, <3>2, IdleEnter
  <2>3. Good(side, next, ts, ss, ps, reserved[s], outcome)
    <3> HIDE DEF ts, ss, ps, side
    <3> QED
      BY <2>1, <2>2 DEF Good
  <2>4. stage'[s] = next
    OBVIOUS
  <2>5. Good(Side(s)', stage'[s], tasks'[s], sets'[s], plans'[s], reserved'[s], outcome')
    BY <1>1, <2>3, <2>4
  <2> QED
    BY <2>5 DEF GoodSide
<1> QED
  BY <1>1, <1>2 DEF GoodSides

\* The shared-store check keeps the invariant: past it, the sides' paths are
\* told apart.
LEMMA BuildSessionContextKeeps ==
  ASSUME IInv, BuildSessionContext
  PROVE  IInv'
<1>1. CASE Fail
  BY <1>1, FailStep
<1>2. CASE ~Fail
  <2>1. Shape /\ Registered /\ GoodSides /\ Permits /\ call \in Calls
    BY DEF IInv, Shape
  <2>2. /\ outcome = "running" /\ \A s \in Sides : stage[s] = "unbuilt"
        /\ validate_sides_share_one_store
        /\ stage' = [s \in Sides |-> "registering"]
        /\ UNCHANGED <<call, outcome, tasks, sets, plans, reserved, asked, emitted, todo, faults>>
    BY <1>2 DEF BuildSessionContext
  <2>3. "unbuilt" \in Stages \ Collecting /\ "registering" \in Stages \ Collecting
    BY DEF Stages, Collecting
  <2>4. \A s \in Sides : DOMAIN plans[s] = {}
    <3> TAKE s \in Sides
    <3>1. SideInv(Side(s), "unbuilt", tasks[s], sets[s], plans[s])
      BY <2>2, SideFacts
    <3> QED
      BY <3>1 DEF SideInv
  <2>5. GoodSides'
    BY <2>2, <2>3, <2>4, AllIdle
  <2>6. ShapeNext
    <3>1. stage' \in [Sides -> Stages]
      BY <2>2, <2>3
    <3> QED
      BY <2>1, <2>2, <3>1 DEF Shape, ShapeNext
  <2>7. RegisteredNext
    <3>1. \A s \in Sides : todo'[s] = {}
      BY <2>1, <2>2 DEF Registered
    <3>2. \A s \in Sides : stage'[s] = "registering"
      BY <2>2
    <3> QED
      BY <2>2, <3>1, <3>2 DEF RegisteredNext, Unregistered
  <2>8. Permits'
    <3>1. NoNewHolder
      BY <2>2 DEF NoNewHolder
    <3> QED
      BY <2>1, <2>2, <3>1, PermitsKept
  <2>9. OwnCredential'
    BY <2>2, NoRequest
  <2> QED
    BY <2>1, <2>5, <2>6, <2>7, <2>8, <2>9, Assemble
<1> QED
  BY <1>1, <1>2

\* The start of the stream keeps the invariant.
LEMMA StartStreamKeeps ==
  ASSUME IInv, StartStream
  PROVE  IInv'
<1>1. Shape /\ Registered /\ GoodSides /\ Permits /\ call \in Calls
  BY DEF IInv, Shape
<1>2. /\ outcome = "running" /\ \A s \in Sides : stage[s] = "ready"
      /\ stage' = [s \in Sides |-> "streaming"]
      /\ todo' = [s \in Sides |-> GroupsOf(s)]
      /\ UNCHANGED <<call, outcome, tasks, sets, plans, reserved, asked, emitted, faults>>
  BY DEF StartStream
<1>3. "ready" \in Stages \ Collecting /\ "streaming" \in Stages \ Collecting
  BY DEF Stages, Collecting
<1>4. GoodSides'
  <2>1. UNCHANGED <<call, outcome, tasks, sets, plans, reserved>>
    BY <1>2
  <2> QED
    BY <1>2, <1>3, <2>1, AllIdle
<1>5. ShapeNext
  <2>1. stage' \in [Sides -> Stages]
    BY <1>2, <1>3
  <2>2. DOMAIN todo' = Sides /\ \A s \in Sides : todo'[s] \subseteq GroupsOf(s)
    BY <1>2
  <2> QED
    BY <1>1, <1>2, <2>1, <2>2 DEF Shape, ShapeNext
<1>6. RegisteredNext
  <2>1. \A s \in Sides : stage'[s] = "streaming"
    BY <1>2
  <2>2. validate_sides_share_one_store
    <3>1. 1 \in Sides
      BY <1>1, CallFacts
    <3> QED
      BY <1>1, <1>2, <3>1 DEF Registered
  <2>3. \A s \in Sides : Checked(s)
    BY <1>1, <1>2 DEF Registered, Unregistered
  <2> QED
    BY <2>1, <2>2, <2>3 DEF RegisteredNext, Unregistered
<1>7. Permits'
  <2>1. NoNewHolder
    BY <1>2 DEF NoNewHolder
  <2> QED
    BY <1>1, <1>2, <2>1, PermitsKept
<1>8. OwnCredential'
  BY <1>2, NoRequest
<1> QED
  BY <1>1, <1>4, <1>5, <1>6, <1>7, <1>8, Assemble

\* The end of the stream keeps the invariant.
LEMMA EndStreamKeeps ==
  ASSUME IInv, EndStream
  PROVE  IInv'
<1>1. Shape /\ Registered /\ GoodSides /\ Permits /\ call \in Calls
  BY DEF IInv, Shape
<1>2. /\ outcome' = "done" /\ reserved' = [s \in Sides |-> 0]
      /\ UNCHANGED <<call, stage, tasks, sets, plans, asked, emitted, todo, faults>>
  BY DEF EndStream
<1>3. GoodSides'
  <2>1. Sides' = Sides /\ \A s : Side(s)' = Side(s)
    BY <1>2 DEF Sides, Side
  <2>2. ASSUME NEW s \in Sides PROVE GoodSide(s)'
    <3>1. Good(Side(s), stage[s], tasks[s], sets[s], plans[s], reserved[s], outcome)
      BY <1>1 DEF GoodSides, GoodSide
    <3>2. Good(Side(s), stage[s], tasks[s], sets[s], plans[s], 0, "done")
      BY <3>1 DEF Good
    <3>3. reserved'[s] = 0
      BY <1>2
    <3>4. Good(Side(s)', stage'[s], tasks'[s], sets'[s], plans'[s], reserved'[s], outcome')
      BY <1>2, <2>1, <3>2, <3>3
    <3> QED
      BY <3>4 DEF GoodSide
  <2> QED
    BY <2>1, <2>2 DEF GoodSides
<1>4. ShapeNext
  BY <1>1, <1>2 DEF Shape, ShapeNext
<1>5. RegisteredNext
  BY <1>2, StagesStay
<1>6. Permits'
  <2>1. NoNewHolder
    BY <1>2 DEF NoNewHolder
  <2> QED
    BY <1>1, <1>2, <2>1, PermitsKept
<1>7. OwnCredential'
  BY <1>2, NoRequest
<1> QED
  BY <1>1, <1>3, <1>4, <1>5, <1>6, <1>7, Assemble

\* A failing store request keeps the invariant.
LEMMA StoreFailsKeeps ==
  ASSUME IInv, StoreFails
  PROVE  IInv'
<1>1. faults < MaxFaults /\ faults' = faults + 1 /\ outcome' = "failed"
      /\ UNCHANGED <<call, stage, tasks, sets, plans, reserved, asked, emitted, todo>>
  BY DEF StoreFails
<1>2. faults' \in 0 .. MaxFaults
  BY <1>1, ScanCallAssumption DEF IInv, Shape
<1> QED
  BY <1>1, <1>2, FailKeeps

\* A stuttering step keeps the invariant.
LEMMA StutterKeeps ==
  ASSUME IInv, UNCHANGED vars
  PROVE  IInv'
<1>1. Shape /\ GoodSides /\ Permits /\ call \in Calls
  BY DEF IInv, Shape
<1>2. ShapeNext
  BY <1>1 DEF vars, Shape, ShapeNext
<1>3. RegisteredNext
  BY StagesStay DEF vars
<1>4. Permits'
  <2>1. NoNewHolder
    BY DEF vars, NoNewHolder
  <2> QED
    BY <1>1, <2>1, PermitsKept DEF vars
<1>5. GoodSides'
  BY <1>1, GoodSame DEF vars
<1>6. OwnCredential'
  BY NoRequest DEF vars
<1> QED
  BY <1>1, <1>2, <1>3, <1>4, <1>5, <1>6, Assemble

\* A call that has not begun satisfies the invariant.
LEMMA InitInv ==
  ASSUME Init
  PROVE  IInv
<1>1. call \in Calls /\ outcome = "running" /\ stage = [s \in Sides |-> "unbuilt"]
      /\ tasks = [s \in Sides |-> <<>>] /\ sets = [s \in Sides |-> {}] /\ plans = [s \in Sides |-> <<>>]
      /\ reserved = [s \in Sides |-> 0] /\ asked = {} /\ emitted = [s \in Sides |-> {}]
      /\ todo = [s \in Sides |-> {}] /\ faults = 0
  BY DEF Init
<1>2. Shape
  BY <1>1, ScanCallAssumption DEF Shape, Stages
<1>3. Registered
  BY <1>1 DEF Registered, Unregistered
<1>4. Permits
  <2>1. PermitHolders = {}
    <3>1. \A s \in Sides : DOMAIN tasks[s] = {}
      BY <1>1
    <3>2. \A x : x \notin PermitHolders
      BY <3>1, HoldersOf
    <3> QED
      BY <3>2
  <2>2. delete_path_read_limiter \in Nat
    BY <1>1, CallFacts
  <2> QED
    BY <2>1, <2>2, FS_EmptySet DEF Permits
<1>5. GoodSides
  <2> SUFFICES ASSUME NEW s \in Sides PROVE GoodSide(s)
    BY DEF GoodSides
  <2> DEFINE none == <<>>
  <2>1. DOMAIN none = {}
    OBVIOUS
  <2>2. stage[s] = "unbuilt" /\ tasks[s] = none /\ sets[s] = {} /\ plans[s] = none /\ reserved[s] = 0
    BY <1>1
  <2> HIDE DEF none
  <2>3. SideInv(Side(s), "unbuilt", none, {}, none)
    BY <2>1, FS_EmptySet DEF SideInv
  <2>4. Held("unbuilt", none, {}, none) = 0
    <3>1. DOMAIN TaskSizes("unbuilt", none, {}) = {} /\ DOMAIN SetSizes({}) = {} /\ DOMAIN PlanSizes(none) = {}
      BY <2>1 DEF TaskSizes, SetSizes, PlanSizes
    <3>2. SumFunction(TaskSizes("unbuilt", none, {})) = 0 /\ SumFunction(SetSizes({})) = 0
          /\ SumFunction(PlanSizes(none)) = 0
      BY <3>1, SumEmpty
    <3> QED
      BY <3>2 DEF Held, SetTotal
  <2>5. Good(Side(s), "unbuilt", none, {}, none, 0, outcome)
    BY <2>3, <2>4 DEF Good
  <2> QED
    BY <2>2, <2>5 DEF GoodSide
<1>6. OwnCredential
  BY <1>1 DEF OwnCredential
<1> QED
  BY <1>2, <1>3, <1>4, <1>5, <1>6 DEF IInv

\* Every step keeps the inductive invariant: one case per action.
LEMMA NextInv ==
  ASSUME IInv, [Next]_vars
  PROVE  IInv'
<1>1. CASE BuildSessionContext
  BY <1>1, BuildSessionContextKeeps
<1>2. ASSUME NEW s \in Sides, SideStep(s) PROVE IInv'
  <2>1. CASE RegisterFileList(s)
    BY <2>1, RegisterFileListKeeps
  <2>2. CASE StartPartitionedFiles(s)
    BY <2>2, StartPartitionedFilesKeeps
  <2>3. CASE SpawnRowGroups(s)
    BY <2>3, SpawnRowGroupsKeeps
  <2>4. CASE SpawnUnions(s)
    BY <2>4, SpawnUnionsKeeps
  <2>5. CASE SpawnPlans(s)
    BY <2>5, SpawnPlansKeeps
  <2>6. CASE EndPlans(s)
    BY <2>6, EndPlansKeeps
  <2>7. CASE DropProviders(s)
    BY <2>7, DropProvidersKeeps
  <2>8. ASSUME NEW t \in DOMAIN tasks[s], TaskStep(s, t) PROVE IInv'
    BY <2>8, AcquireKeeps, ArriveKeeps, DecodeKeeps, AbortKeeps DEF TaskStep
  <2>9. ASSUME NEW b \in todo[s], EmitBatch(s, b[1], b[2]) PROVE IInv'
    BY <2>9, EmitBatchKeeps
  <2> QED
    BY <1>2, <2>1, <2>2, <2>3, <2>4, <2>5, <2>6, <2>7, <2>8, <2>9 DEF SideStep
<1>3. CASE StartStream
  BY <1>3, StartStreamKeeps
<1>4. CASE EndStream
  BY <1>4, EndStreamKeeps
<1>5. CASE StoreFails
  BY <1>5, StoreFailsKeeps
<1>6. CASE UNCHANGED vars
  BY <1>6, StutterKeeps
<1> QED
  BY <1>1, <1>2, <1>3, <1>4, <1>5, <1>6 DEF Next, Steps

\* The inductive invariant holds in every state a call reaches, for any calls whose
\* file lists have the shapes of ScanCallAssumption.
THEOREM Invariance == Spec => []IInv
<1>1. Init => IInv
  BY InitInv
<1>2. IInv /\ [Next]_vars => IInv'
  BY NextInv
<1> QED
  BY <1>1, <1>2, PTL DEF Spec

\* TypeOK: however the tasks of the sides interleave, the position sets are row
\* numbers, the reservation never falls below zero, only assigned files have plans and
\* no more reads hold a permit than the limiter gave out.
THEOREM TypeCorrect == Spec => []TypeOK
<1>1. IInv => TypeOK
  <2> SUFFICES ASSUME IInv PROVE TypeOK
    OBVIOUS
  <2>1. Shape /\ Permits /\ GoodSides
    BY DEF IInv
  <2>2. ASSUME NEW s \in Sides
        PROVE  /\ stage[s] \in Stages
               /\ \A t \in DOMAIN tasks[s] :
                    /\ tasks[s][t].at \in TaskStates
                    /\ \A f \in DOMAIN tasks[s][t].found : tasks[s][t].found[f] \subseteq Nat
               /\ DOMAIN plans[s] \subseteq Assigned(Side(s))
               /\ reserved[s] \in Nat
               /\ todo[s] \subseteq GroupsOf(s)
    <3>1. SideInv(Side(s), stage[s], tasks[s], sets[s], plans[s]) /\ reserved[s] \in Nat
      BY <2>1 DEF GoodSides, GoodSide, Good
    <3>2. ASSUME NEW t \in DOMAIN tasks[s]
          PROVE  tasks[s][t].at \in TaskStates
                 /\ \A f \in DOMAIN tasks[s][t].found : tasks[s][t].found[f] \subseteq Nat
      <4>1. TaskOK(Side(s), stage[s], t, tasks[s][t], plans[s])
        BY <3>1 DEF SideInv
      <4> QED
        BY <4>1 DEF TaskOK, FoundOK, FinNat
    <3>3. DOMAIN plans[s] \subseteq Assigned(Side(s))
      BY <3>1 DEF SideInv
    <3> QED
      BY <2>1, <3>1, <3>2, <3>3 DEF Shape
  <2>3. Cardinality(PermitHolders) <= Max({1, call.connections})
    BY <2>1 DEF Permits, delete_path_read_limiter
  <2> QED
    BY <2>1, <2>2, <2>3 DEF TypeOK, Shape, Stages
<1> QED
  BY <1>1, Invariance, PTL

\* MemoryAccounted: while the call runs, the reservation of a side is exactly what its
\* position sets and access plans hold, through merging, planning and the drops.
THEOREM MemoryExact == Spec => []MemoryAccounted
<1>1. IInv => MemoryAccounted
  <2> SUFFICES ASSUME IInv, outcome = "running", NEW s \in Sides PROVE reserved[s] = HeldBytes(s)
    BY DEF MemoryAccounted
  <2>1. reserved[s] = Held(stage[s], tasks[s], sets[s], plans[s])
    BY SideFacts
  <2> QED
    BY <2>1, HeldIs
<1> QED
  BY <1>1, Invariance, PTL

\* OwnCredential: a listed file is read from the container it names, and every request
\* goes out with a credential that covers its key, the asking side's own unless the
\* other table lists the key or has its root at least as near.
THEOREM CredentialsOwn == Spec => []OwnCredential
<1>1. IInv => OwnCredential
  BY DEF IInv
<1> QED
  BY <1>1, Invariance, PTL
-----------------------------------------------------------------------------
\* What an access plan selects.
GroupRows(groups, g) == FirstRow(groups, g) .. FirstRow(groups, g) + groups[g] - 1

Prefix(w, i) == SumFunction([k \in 1 .. i - 1 |-> w[k]])

\* The prefix sums of a sequence of lengths grow by one length at a time.
LEMMA PrefixSteps ==
  ASSUME NEW n \in Nat, NEW w \in [1 .. n -> Int]
  PROVE  /\ Prefix(w, 1) = 0
         /\ \A i \in 1 .. n : Prefix(w, i) \in Int /\ Prefix(w, i + 1) = Prefix(w, i) + w[i]
<1>1. Prefix(w, 1) = 0
  <2>1. DOMAIN [k \in 1 .. 1 - 1 |-> w[k]] = {}
    OBVIOUS
  <2> QED
    BY <2>1, SumEmpty DEF Prefix
<1>2. ASSUME NEW i \in 1 .. n PROVE Prefix(w, i) \in Int /\ Prefix(w, i + 1) = Prefix(w, i) + w[i]
  <2> DEFINE S == 1 .. i - 1
             f == [k \in S |-> w[k]]
             h == [k \in 1 .. (i + 1) - 1 |-> w[k]]
  <2>1. i \in Nat /\ i - 1 \in Nat /\ 1 .. (i + 1) - 1 = S \cup {i} /\ i \notin S /\ S \subseteq 1 .. n
    OBVIOUS
  <2>2. IsFiniteSet(S)
    BY <2>1, FS_Interval
  <2>3. f \in [S -> Int]
    BY <2>1
  <2>4. h \in [S \cup {i} -> Int] /\ Agree(h, f, S) /\ h[i] = w[i]
    BY <2>1 DEF Agree
  <2>5. SumFunction(h) = SumFunction(f) + h[i] /\ SumFunction(f) \in Int
    <3> HIDE DEF S, f, h
    <3> QED
      BY <2>1, <2>2, <2>3, <2>4, SumGrow, SumType
  <2>6. Prefix(w, i) = SumFunction(f) /\ Prefix(w, i + 1) = SumFunction(h)
    BY DEF Prefix
  <2> QED
    BY <2>4, <2>5, <2>6
<1> QED
  BY <1>1, <1>2

\* The first rows of the row groups follow each other.
LEMMA FirstRowSteps ==
  ASSUME NEW groups \in Seq(Nat)
  PROVE  /\ FirstRow(groups, 1) = 0
         /\ \A g \in DOMAIN groups : /\ groups[g] \in Nat /\ FirstRow(groups, g) \in Nat
                                     /\ FirstRow(groups, g + 1) = FirstRow(groups, g) + groups[g]
         /\ FirstRow(groups, Len(groups) + 1) \in Nat
<1> DEFINE n == Len(groups)
<1>1. n \in Nat /\ DOMAIN groups = 1 .. n /\ groups \in [1 .. n -> Int] /\ \A g \in 1 .. n : groups[g] \in Nat
  OBVIOUS
<1>2. \A g : FirstRow(groups, g) = Prefix(groups, g)
  BY DEF FirstRow, Prefix
<1> HIDE DEF n
<1>3. /\ FirstRow(groups, 1) = 0
      /\ \A g \in 1 .. n : FirstRow(groups, g + 1) = FirstRow(groups, g) + groups[g]
  BY <1>1, <1>2, PrefixSteps
<1> DEFINE T == {k \in 0 .. n : FirstRow(groups, k + 1) \in Nat}
<1>4. T = 0 .. n
  <2>1. 0 \in T
    BY <1>1, <1>3
  <2>2. ASSUME NEW k \in T, k < n PROVE k + 1 \in T
    <3>1. k + 1 \in 1 .. n /\ k \in Nat
      BY <1>1, <2>2
    <3>2. FirstRow(groups, (k + 1) + 1) = FirstRow(groups, k + 1) + groups[k + 1]
      BY <1>3, <3>1
    <3> QED
      BY <1>1, <2>2, <3>1, <3>2
  <2>3. T \in SUBSET (0 .. n)
    OBVIOUS
  <2> HIDE DEF T
  <2> QED
    BY <1>1, <2>1, <2>2, <2>3, BoundedInduction
<1>5. \A g \in 1 .. n : FirstRow(groups, g) \in Nat
  <2> SUFFICES ASSUME NEW g \in 1 .. n PROVE FirstRow(groups, g) \in Nat
    OBVIOUS
  <2>0. g - 1 \in 0 .. n /\ (g - 1) + 1 = g
    BY <1>1
  <2>1. g - 1 \in T /\ (g - 1) + 1 = g
    <3> HIDE DEF T
    <3> QED
      BY <1>4, <2>0
  <2>2. FirstRow(groups, (g - 1) + 1) \in Nat
    BY <2>1, Zenon
  <2> QED
    BY <2>1, <2>2, Zenon
<1>6. FirstRow(groups, n + 1) \in Nat
  <2>1. n \in T
    <3> HIDE DEF T
    <3> QED
      BY <1>1, <1>4
  <2> QED
    BY <2>1, Zenon
<1> QED
  BY <1>1, <1>3, <1>5, <1>6 DEF n

\* The row groups of a file hold its rows.
LEMMA RowsCovered ==
  ASSUME NEW groups \in Seq(Nat)
  PROVE  UNION {GroupRows(groups, g) : g \in DOMAIN groups} = 0 .. FirstRow(groups, Len(groups) + 1) - 1
<1> DEFINE n == Len(groups)
           F(g) == FirstRow(groups, g)
<1>1. n \in Nat /\ DOMAIN groups = 1 .. n
  OBVIOUS
<1>2. F(1) = 0 /\ F(n + 1) \in Nat
      /\ \A g \in 1 .. n : groups[g] \in Nat /\ F(g) \in Nat /\ F(g + 1) = F(g) + groups[g]
  BY <1>1, FirstRowSteps
<1> HIDE DEF n, F
<1> DEFINE T == {k \in 0 .. n : UNION {F(g) .. F(g) + groups[g] - 1 : g \in 1 .. k} = 0 .. F(k + 1) - 1}
<1>3. 0 \in T
  <2>1. UNION {F(g) .. F(g) + groups[g] - 1 : g \in 1 .. 0} = {}
    OBVIOUS
  <2>2. 0 .. F(0 + 1) - 1 = {}
    BY <1>2
  <2> QED
    BY <1>1, <2>1, <2>2
<1>4. ASSUME NEW k \in T, k < n PROVE k + 1 \in T
  <2> DEFINE U(j) == UNION {F(g) .. F(g) + groups[g] - 1 : g \in 1 .. j}
  <2>1. k \in Nat /\ k + 1 \in 1 .. n /\ k + 1 \in 0 .. n /\ U(k) = 0 .. F(k + 1) - 1
    BY <1>1, <1>4
  <2>2. 1 .. k + 1 = (1 .. k) \cup {k + 1}
    BY <2>1
  <2>3. U(k + 1) = U(k) \cup (F(k + 1) .. F(k + 1) + groups[k + 1] - 1)
    BY <2>2
  <2> DEFINE a == F(k + 1)  b == groups[k + 1]
  <2>4. a \in Nat /\ b \in Nat /\ F((k + 1) + 1) = a + b
    BY <1>2, <2>1
  <2> HIDE DEF a, b
  <2>5. (0 .. a - 1) \cup (a .. a + b - 1) = 0 .. (a + b) - 1
    BY <2>4
  <2>6. U(k + 1) = 0 .. F((k + 1) + 1) - 1
    BY <2>1, <2>3, <2>4, <2>5 DEF a, b
  <2> QED
    BY <2>1, <2>6
<1>5. T = 0 .. n
  <2>1. T \in SUBSET (0 .. n)
    OBVIOUS
  <2> HIDE DEF T
  <2> QED
    BY <1>1, <1>3, <1>4, <2>1, BoundedInduction
<1>6. n \in T
  <2> HIDE DEF T
  <2> QED
    BY <1>1, <1>5
<1>7. UNION {F(g) .. F(g) + groups[g] - 1 : g \in 1 .. n} = 0 .. F(n + 1) - 1
  BY <1>6, Zenon
<1> QED
  BY <1>1, <1>7 DEF GroupRows, F, n

\* How many of the heads lie at or before a row, and the head of a run.
Rank(H, p) == Cardinality({q \in H : q <= p})
HeadAt(H, i) == CHOOSE p \in H : Rank(H, p) = i
Until(H, last, i) == IF i = Cardinality(H) THEN last + 1 ELSE HeadAt(H, i + 1)

Integral(H) == \A p \in H : p \in Int
Within(H, first, last) == \A p \in H : p \in Int /\ first <= p /\ p <= last

\* The rank of a row grows with the row, at each head by one.
LEMMA RankSteps ==
  ASSUME NEW H, Integral(H), IsFiniteSet(H), NEW p \in Int, NEW q \in Int
  PROVE  /\ Rank(H, p) \in 0 .. Cardinality(H) /\ Cardinality(H) \in Nat
         /\ p <= q => Rank(H, p) <= Rank(H, q)
         /\ p < q /\ q \in H => Rank(H, p) < Rank(H, q)
         /\ Rank(H, p) <= Rank(H, p - 1) + 1
         /\ p \notin H => Rank(H, p) = Rank(H, p - 1)
<1> DEFINE U(x) == {y \in H : y <= x}
<1>0. \A y \in H : y \in Int
  BY DEF Integral
<1>1. \A x : IsFiniteSet(U(x)) /\ Rank(H, x) = Cardinality(U(x)) /\ Cardinality(U(x)) \in Nat
             /\ Cardinality(U(x)) <= Cardinality(H)
  BY FS_Subset, FS_CardinalityType DEF Rank
<1>2. Cardinality(H) \in Nat
  BY FS_CardinalityType
<1>3. ASSUME p <= q PROVE Rank(H, p) <= Rank(H, q)
  <2>1. U(p) \subseteq U(q)
    BY <1>0, <1>3
  <2> HIDE DEF U
  <2> QED
    BY <1>1, <2>1, FS_Subset
<1>4. ASSUME p < q, q \in H PROVE Rank(H, p) < Rank(H, q)
  <2>0. U(p) \subseteq U(q) /\ q \in U(q)
    <3>1. p <= q
      BY <1>4
    <3>2. U(p) \subseteq U(q)
      BY <1>0, <3>1
    <3>3. q \in U(q)
      BY <1>4
    <3> QED
      BY <3>2, <3>3
  <2>1. U(p) \cup {q} \subseteq U(q) /\ q \notin U(p)
    <3>1. q \notin U(p)
      BY <1>4
    <3> HIDE DEF U
    <3> QED
      BY <2>0, <3>1
  <2> HIDE DEF U
  <2>2. Cardinality(U(p) \cup {q}) = Cardinality(U(p)) + 1
    BY <1>1, <2>1, FS_AddElement
  <2>3. Cardinality(U(p) \cup {q}) <= Cardinality(U(q))
    BY <1>1, <2>1, FS_Subset
  <2> QED
    BY <1>1, <2>2, <2>3
<1>5. ASSUME p \notin H PROVE Rank(H, p) = Rank(H, p - 1)
  <2>1. U(p) = U(p - 1)
    BY <1>0, <1>5
  <2> QED
    BY <2>1 DEF Rank
<1>6. Rank(H, p) <= Rank(H, p - 1) + 1
  <2>1. CASE p \notin H
    <3> HIDE DEF U
    <3> QED
      BY <1>1, <1>5, <2>1
  <2>2. CASE p \in H
    <3>0. ASSUME NEW y PROVE y \in U(p) <=> y \in U(p - 1) \/ y = p
      <4>1. y \in U(p) => y \in U(p - 1) \/ y = p
        BY <1>0
      <4>2. y \in U(p - 1) => y \in U(p)
        BY <1>0
      <4>3. p \in U(p)
        BY <2>2
      <4> QED
        BY <4>1, <4>2, <4>3
    <3>1. U(p) = U(p - 1) \cup {p} /\ p \notin U(p - 1)
      <4>1. p \notin U(p - 1)
        OBVIOUS
      <4> HIDE DEF U
      <4> QED
        BY <3>0, <4>1
    <3> HIDE DEF U
    <3>2. Cardinality(U(p)) = Cardinality(U(p - 1)) + 1
      BY <1>1, <3>1, FS_AddElement
    <3> QED
      BY <1>1, <3>2
  <2> QED
    BY <2>1, <2>2
<1> HIDE DEF U
<1> QED
  BY <1>1, <1>2, <1>3, <1>4, <1>5, <1>6

\* Every number of heads is the rank of one of them.
LEMMA HeadOf ==
  ASSUME NEW first \in Int, NEW last \in Int, NEW H, Within(H, first, last), IsFiniteSet(H),
         NEW i \in 1 .. Cardinality(H)
  PROVE  HeadAt(H, i) \in H /\ Rank(H, HeadAt(H, i)) = i
<1>1. Integral(H) /\ \A x \in H : x \in Int /\ first <= x /\ x <= last
  BY DEF Integral, Within
<1>2. Cardinality(H) \in Nat
  BY FS_CardinalityType
<1> DEFINE T == {k \in Nat : Rank(H, first + k) >= i}
<1>3. T # {}
  <2>1. H # {}
    BY <1>2, FS_EmptySet
  <2>2. last - first \in Nat
    BY <1>1, <2>1
  <2>3. {q \in H : q <= last} = H
    BY <1>1
  <2>4. Rank(H, last) = Cardinality(H)
    BY <2>3 DEF Rank
  <2>5. first + (last - first) = last
    OBVIOUS
  <2>6. Rank(H, first + (last - first)) >= i
    BY <1>2, <2>4, <2>5
  <2>7. last - first \in T
    BY <2>2, <2>6
  <2> QED
    BY <2>7, Zenon
<1>4. PICK k \in T : \A j \in T : k <= j
  <2>1. T \in SUBSET Nat
    OBVIOUS
  <2> HIDE DEF T
  <2> QED
    BY <1>3, <2>1, LeastNumber
<1> DEFINE p == first + k
<1>5. k \in Nat /\ Rank(H, p) >= i /\ p \in Int
  BY <1>4
<1>6. Rank(H, p - 1) < i /\ Rank(H, p - 1) \in Nat
  <2>1. Rank(H, p - 1) \in Nat
    <3>1. p - 1 \in Int
      BY <1>5
    <3> QED
      BY <1>1, <1>2, <3>1, RankSteps
  <2>2. CASE k = 0
    <3>1. {q \in H : q <= p - 1} = {}
      BY <1>1, <2>2
    <3>2. Rank(H, p - 1) = 0
      BY <3>1, FS_EmptySet DEF Rank
    <3> QED
      BY <1>2, <3>2
  <2>3. CASE k # 0
    <3>1. k - 1 \in Nat /\ ~(k <= k - 1) /\ first + (k - 1) = p - 1
      BY <1>5, <2>3
    <3>2. k - 1 \notin T
      BY <1>4, <3>1
    <3>3. ~(Rank(H, first + (k - 1)) >= i)
      BY <3>1, <3>2
    <3>4. ~(Rank(H, p - 1) >= i)
      BY <3>1, <3>3
    <3> QED
      BY <1>2, <2>1, <3>4
  <2> QED
    BY <2>1, <2>2, <2>3
<1> HIDE DEF T, p
<1>7. Rank(H, p) <= Rank(H, p - 1) + 1 /\ Rank(H, p) \in 0 .. Cardinality(H)
      /\ (p \notin H => Rank(H, p) = Rank(H, p - 1))
  BY <1>1, <1>5, RankSteps
<1>8. Rank(H, p) = i /\ p \in H
  BY <1>2, <1>5, <1>6, <1>7
<1> QED
  BY <1>8 DEF HeadAt

InRun(H, last, i, x) == HeadAt(H, i) <= x /\ x < Until(H, last, i)

\* The heads cut the rows into runs: a row lies in the run of its rank.
LEMMA RunsCut ==
  ASSUME NEW first \in Int, NEW last \in Int, NEW H, Within(H, first, last), IsFiniteSet(H), first \in H,
         NEW x \in Int
  PROVE  /\ x \in first .. last => /\ Rank(H, x) \in 1 .. Cardinality(H)
                                   /\ InRun(H, last, Rank(H, x), x)
         /\ \A i \in 1 .. Cardinality(H) : InRun(H, last, i, x) => x \in first .. last /\ Rank(H, x) = i
         /\ HeadAt(H, 1) = first /\ Cardinality(H) \in Nat \ {0}
<1> DEFINE n == Cardinality(H)
<1>1. Integral(H) /\ \A y \in H : y \in Int /\ first <= y /\ y <= last
  BY DEF Integral, Within
<1>2. n \in Nat /\ \A y \in Int : Rank(H, y) \in 0 .. n
  BY <1>1, RankSteps
<1>3. \A y, z \in Int : /\ y <= z => Rank(H, y) <= Rank(H, z)
                        /\ y < z /\ z \in H => Rank(H, y) < Rank(H, z)
  BY <1>1, RankSteps
<1>4. \A i \in 1 .. n : HeadAt(H, i) \in H /\ Rank(H, HeadAt(H, i)) = i /\ HeadAt(H, i) \in Int
  BY <1>1, HeadOf
<1> HIDE DEF n
<1>5. Rank(H, first) >= 1
  <2>1. Rank(H, first - 1) < Rank(H, first)
    BY <1>1, <1>3
  <2>2. Rank(H, first - 1) \in Nat /\ Rank(H, first) \in Nat
    BY <1>1, <1>2
  <2> QED
    BY <2>1, <2>2
<1>6. n >= 1
  BY <1>2, <1>5
<1>7. ASSUME x \in first .. last PROVE Rank(H, x) \in 1 .. n /\ InRun(H, last, Rank(H, x), x)
  <2> DEFINE i == Rank(H, x)
  <2>1. i \in 1 .. n
    <3>1. Rank(H, first) <= i
      BY <1>3, <1>7
    <3>2. Rank(H, first) \in Nat /\ i \in 0 .. n
      BY <1>2
    <3> HIDE DEF i
    <3> QED
      BY <1>2, <1>5, <3>1, <3>2
  <2>2. HeadAt(H, i) <= x
    <3>1. HeadAt(H, i) \in H /\ Rank(H, HeadAt(H, i)) = i /\ HeadAt(H, i) \in Int
      BY <1>4, <2>1
    <3>2. ~(x < HeadAt(H, i))
      <4> SUFFICES ASSUME x < HeadAt(H, i) PROVE FALSE
        OBVIOUS
      <4>1. Rank(H, x) < Rank(H, HeadAt(H, i))
        BY <1>3, <3>1
      <4> QED
        BY <1>2, <2>1, <3>1, <4>1
    <3> QED
      BY <3>1, <3>2
  <2>3. x < Until(H, last, i)
    <3>1. CASE i = n
      BY <1>7, <3>1 DEF Until, n
    <3>2. CASE i # n
      <4>1. i + 1 \in 1 .. n /\ i \in Int
        BY <1>2, <2>1, <3>2
      <4>2. Until(H, last, i) = HeadAt(H, i + 1) /\ HeadAt(H, i + 1) \in Int /\ Rank(H, HeadAt(H, i + 1)) = i + 1
        BY <1>4, <3>2, <4>1 DEF Until, n
      <4>3. HeadAt(H, i + 1) <= x => i + 1 <= Rank(H, x)
        BY <1>3, <4>2
      <4> QED
        BY <4>1, <4>2, <4>3
    <3> QED
      BY <3>1, <3>2
  <2> QED
    BY <2>1, <2>2, <2>3 DEF InRun
<1>8. ASSUME NEW i \in 1 .. n, InRun(H, last, i, x) PROVE x \in first .. last /\ Rank(H, x) = i
  <2>1. HeadAt(H, i) <= x /\ x < Until(H, last, i) /\ HeadAt(H, i) \in H /\ Rank(H, HeadAt(H, i)) = i
    BY <1>4, <1>8 DEF InRun
  <2>0. HeadAt(H, i) \in Int /\ first <= HeadAt(H, i)
    BY <1>1, <2>1
  <2>2. i <= Rank(H, x) /\ Rank(H, x) \in 0 .. n
    BY <1>1, <1>2, <1>3, <2>1
  <2>3. CASE i = n
    <3>1. x < last + 1
      BY <2>1, <2>3 DEF Until, n
    <3>2. first <= x /\ x <= last
      BY <2>0, <2>1, <3>1
    <3>3. Rank(H, x) = i
      BY <1>2, <2>2, <2>3
    <3> QED
      BY <3>2, <3>3
  <2>4. CASE i # n
    <3>1. i + 1 \in 1 .. n /\ i \in Int
      BY <1>2, <2>4
    <3>2. Until(H, last, i) = HeadAt(H, i + 1) /\ HeadAt(H, i + 1) \in H /\ Rank(H, HeadAt(H, i + 1)) = i + 1
      BY <1>4, <2>4, <3>1 DEF Until, n
    <3>3. Rank(H, x) < i + 1
      BY <1>1, <1>3, <2>1, <3>2
    <3>4. first <= x /\ x <= last
      <4>1. HeadAt(H, i + 1) \in Int /\ HeadAt(H, i + 1) <= last
        BY <1>1, <3>2
      <4> QED
        BY <2>0, <2>1, <3>2, <4>1
    <3>5. Rank(H, x) = i
      BY <1>2, <2>2, <3>3
    <3> QED
      BY <3>4, <3>5
  <2> QED
    BY <2>3, <2>4
<1>9. HeadAt(H, 1) = first
  <2>1. 1 \in 1 .. n
    BY <1>2, <1>6
  <2>2. HeadAt(H, 1) \in H /\ Rank(H, HeadAt(H, 1)) = 1
    BY <1>4, <2>1
  <2>3. ~(first < HeadAt(H, 1))
    <3>1. first < HeadAt(H, 1) => Rank(H, first) < 1
      BY <1>1, <1>3, <2>2
    <3> QED
      BY <1>1, <1>2, <1>5, <3>1
  <2>4. HeadAt(H, 1) \in Int /\ first <= HeadAt(H, 1)
    BY <1>1, <2>2
  <2> QED
    BY <2>3, <2>4
<1> QED
  BY <1>2, <1>6, <1>7, <1>8, <1>9 DEF n

\* The rows where deleted and live rows meet.
HeadsIn(first, last, deletes) ==
    {p \in first .. last : p = first \/ (p \in deletes) # (p - 1 \in deletes)}

\* The rows of a run are all deleted or all live.
LEMMA RunsAgree ==
  ASSUME NEW first \in Int, NEW last \in Int, NEW deletes, NEW H, H = HeadsIn(first, last, deletes),
         Within(H, first, last), IsFiniteSet(H), first \in H, NEW x \in first .. last
  PROVE  x \in deletes <=> HeadAt(H, Rank(H, x)) \in deletes
<1> DEFINE h == HeadAt(H, Rank(H, x))
           D == {k \in 0 .. (x - h) : h + k \in deletes <=> h \in deletes}
<1>1. x \in Int /\ first <= x /\ x <= last
  OBVIOUS
<1>2. Rank(H, x) \in 1 .. Cardinality(H) /\ InRun(H, last, Rank(H, x), x)
  BY <1>1, RunsCut
<1>3. h \in H /\ Rank(H, h) = Rank(H, x) /\ h <= x
  BY <1>2, HeadOf DEF InRun
<1>4. h \in Int /\ first <= h
  BY <1>3 DEF Within
<1>5. ASSUME NEW y \in Int, h < y, y <= x PROVE y \notin H
  <2> SUFFICES ASSUME y \in H PROVE FALSE
    OBVIOUS
  <2>1. Integral(H)
    BY DEF Integral, Within
  <2> HIDE DEF h
  <2>2. Rank(H, h) < Rank(H, y)
    BY <1>4, <1>5, <2>1, RankSteps
  <2>3. Rank(H, y) <= Rank(H, x)
    BY <1>1, <1>5, <2>1, RankSteps
  <2>4. Rank(H, x) \in Int /\ Rank(H, y) \in Int
    BY <1>1, <2>1, RankSteps
  <2> QED
    BY <1>3, <2>2, <2>3, <2>4
<1> HIDE DEF h
<1>6. x - h \in Nat
  BY <1>1, <1>3, <1>4
<1>7. 0 \in D
  <2>1. h + 0 = h /\ 0 \in 0 .. (x - h)
    BY <1>4, <1>6
  <2> QED
    BY <2>1
<1>8. ASSUME NEW k \in D, k < x - h PROVE k + 1 \in D
  <2>0. k \in 0 .. (x - h) /\ (h + k \in deletes <=> h \in deletes)
    BY <1>8
  <2> DEFINE y == h + (k + 1)
  <2>1. k \in Nat /\ k + 1 \in 0 .. (x - h) /\ y \in Int /\ h < y /\ y <= x /\ y - 1 = h + k /\ y # first
        /\ y \in first .. last
    BY <1>1, <1>4, <1>6, <1>8, <2>0
  <2>2. y \notin H
    BY <1>5, <2>1
  <2>3. (y \in deletes) <=> (y - 1 \in deletes)
    <3> HIDE DEF y
    <3> QED
      BY <2>1, <2>2 DEF HeadsIn
  <2>4. y \in deletes <=> h \in deletes
    <3> HIDE DEF y
    <3> QED
      BY <2>0, <2>1, <2>3
  <2> QED
    BY <2>1, <2>4
<1>9. D = 0 .. (x - h)
  <2>1. D \in SUBSET (0 .. (x - h))
    OBVIOUS
  <2> HIDE DEF D
  <2> QED
    BY <1>6, <1>7, <1>8, <2>1, BoundedInduction
<1>10. x - h \in D
  <2>1. x - h \in 0 .. (x - h)
    BY <1>6
  <2> HIDE DEF D
  <2> QED
    BY <1>9, <2>1
<1>11. h + (x - h) \in deletes <=> h \in deletes
  BY <1>10
<1>12. h + (x - h) = x
  BY <1>1, <1>4
<1> QED
  BY <1>11, <1>12 DEF h

\* Each run starts where the lengths of the runs before it add up to.
LEMMA RunStarts ==
  ASSUME NEW first \in Int, NEW last \in Int, NEW H, Within(H, first, last), IsFiniteSet(H), first \in H,
         NEW w, w = [i \in 1 .. Cardinality(H) |-> Until(H, last, i) - HeadAt(H, i)]
  PROVE  \A i \in 1 .. Cardinality(H) : first + Prefix(w, i) = HeadAt(H, i)
<1> DEFINE n == Cardinality(H)
<1>1. HeadAt(H, 1) = first /\ n \in Nat \ {0}
  BY RunsCut
<1>2. \A i \in 1 .. n : HeadAt(H, i) \in Int
  BY HeadOf DEF Within
<1> HIDE DEF n
<1>3. \A i \in 1 .. n : Until(H, last, i) \in Int /\ (i # n => Until(H, last, i) = HeadAt(H, i + 1))
  <2> SUFFICES ASSUME NEW i \in 1 .. n
               PROVE  Until(H, last, i) \in Int /\ (i # n => Until(H, last, i) = HeadAt(H, i + 1))
    OBVIOUS
  <2>1. CASE i = n
    BY <2>1 DEF Until, n
  <2>2. CASE i # n
    <3>1. i + 1 \in 1 .. n
      BY <1>1, <2>2
    <3> QED
      BY <1>2, <2>2, <3>1 DEF Until, n
  <2> QED
    BY <2>1, <2>2
<1>4. w \in [1 .. n -> Int] /\ \A i \in 1 .. n : w[i] = Until(H, last, i) - HeadAt(H, i)
  <2>1. w = [i \in 1 .. n |-> Until(H, last, i) - HeadAt(H, i)]
    BY DEF n
  <2> DEFINE d(i) == Until(H, last, i) - HeadAt(H, i)
  <2>2. \A i \in 1 .. n : d(i) \in Int
    BY <1>2, <1>3
  <2>3. w = [i \in 1 .. n |-> d(i)]
    BY <2>1
  <2> HIDE DEF d
  <2>4. w \in [1 .. n -> Int] /\ \A i \in 1 .. n : w[i] = d(i)
    BY <2>2, <2>3
  <2> QED
    BY <2>4 DEF d
<1>5. /\ Prefix(w, 1) = 0
      /\ \A i \in 1 .. n : Prefix(w, i) \in Int /\ Prefix(w, i + 1) = Prefix(w, i) + w[i]
  BY <1>1, <1>4, PrefixSteps
<1> DEFINE T == {k \in 0 .. n - 1 : first + Prefix(w, k + 1) = HeadAt(H, k + 1)}
<1>6. 0 \in T
  <2>1. 0 + 1 = 1 /\ 0 \in 0 .. n - 1
    BY <1>1
  <2> QED
    BY <1>1, <1>5, <2>1
<1>7. ASSUME NEW k \in T, k < n - 1 PROVE k + 1 \in T
  <2>0. k \in 0 .. n - 1 /\ first + Prefix(w, k + 1) = HeadAt(H, k + 1)
    BY <1>7, Zenon
  <2>1. k \in Nat /\ k + 1 \in 1 .. n /\ k + 1 # n /\ k + 1 \in 0 .. n - 1 /\ (k + 1) + 1 \in 1 .. n
    BY <1>1, <1>7, <2>0
  <2> DEFINE j == k + 1
  <2>2. Prefix(w, j + 1) = Prefix(w, j) + w[j] /\ w[j] = Until(H, last, j) - HeadAt(H, j)
        /\ Prefix(w, j) \in Int
    BY <1>4, <1>5, <2>1
  <2>3. Until(H, last, j) = HeadAt(H, j + 1) /\ HeadAt(H, j + 1) \in Int /\ HeadAt(H, j) \in Int
    BY <1>2, <1>3, <2>1
  <2>4. first + Prefix(w, j) = HeadAt(H, j)
    BY <2>0
  <2> HIDE DEF j
  <2>5. first + Prefix(w, j + 1) = HeadAt(H, j + 1)
    BY <2>2, <2>3, <2>4
  <2> QED
    BY <2>1, <2>5 DEF j
<1>8. T = 0 .. n - 1
  <2>1. T \in SUBSET (0 .. n - 1) /\ n - 1 \in Nat
    BY <1>1
  <2> HIDE DEF T
  <2> QED
    BY <1>6, <1>7, <2>1, BoundedInduction
<1>9. ASSUME NEW i \in 1 .. n PROVE first + Prefix(w, i) = HeadAt(H, i)
  <2>1. i - 1 \in 0 .. n - 1 /\ (i - 1) + 1 = i
    BY <1>1
  <2>2. i - 1 \in T
    <3> HIDE DEF T
    <3> QED
      BY <1>8, <2>1
  <2>3. first + Prefix(w, (i - 1) + 1) = HeadAt(H, (i - 1) + 1)
    BY <2>2, Zenon
  <2> QED
    BY <2>1, <2>3, Zenon
<1> QED
  BY <1>9 DEF n

\* The rows that a sequence of runs from row first on does not skip.
RunStart(first, sel, i) == first + SumFunction([k \in 1 .. i - 1 |-> sel[k].rows])
RunRows(first, sel) ==
    UNION {RunStart(first, sel, i) .. RunStart(first, sel, i) + sel[i].rows - 1 :
              i \in {j \in DOMAIN sel : ~sel[j].skip}}

\* The selectors of a row group with deleted rows choose its live rows.
LEMMA SelectorsSelect ==
  ASSUME NEW first \in Int, NEW last \in Int, first <= last, NEW deletes
  PROVE  RunRows(first, Selectors(first, last, deletes)) = (first .. last) \ deletes
<1> DEFINE H == HeadsIn(first, last, deletes)
           n == Cardinality(H)
           sel == Selectors(first, last, deletes)
           w == [i \in 1 .. n |-> Until(H, last, i) - HeadAt(H, i)]
<1>1. sel = [i \in 1 .. n |-> [skip |-> HeadAt(H, i) \in deletes, rows |-> Until(H, last, i) - HeadAt(H, i)]]
  BY DEF Selectors, HeadsIn, HeadAt, Until, Rank
<1>2. Within(H, first, last) /\ first \in H /\ IsFiniteSet(H)
  <2>1. H \subseteq first .. last
    BY DEF HeadsIn
  <2>2. IsFiniteSet(H)
    BY <2>1, FS_Interval, FS_Subset
  <2>3. Within(H, first, last)
    BY <2>1 DEF Within
  <2>4. first \in H
    BY DEF HeadsIn
  <2> QED
    BY <2>2, <2>3, <2>4
<1> HIDE DEF H, sel
<1>3. n \in Nat /\ DOMAIN sel = 1 .. n
  BY <1>1, <1>2, FS_CardinalityType
<1>4. \A i \in 1 .. n : /\ HeadAt(H, i) \in Int /\ Until(H, last, i) \in Int
                        /\ sel[i].rows = Until(H, last, i) - HeadAt(H, i)
                        /\ sel[i].skip = (HeadAt(H, i) \in deletes)
  <2> SUFFICES ASSUME NEW i \in 1 .. n
               PROVE  /\ HeadAt(H, i) \in Int /\ Until(H, last, i) \in Int
                      /\ sel[i].rows = Until(H, last, i) - HeadAt(H, i)
                      /\ sel[i].skip = (HeadAt(H, i) \in deletes)
    OBVIOUS
  <2>1. \A j \in 1 .. n : HeadAt(H, j) \in Int
    BY <1>2, HeadOf DEF Within
  <2>2. Until(H, last, i) \in Int
    <3>1. CASE i = n
      BY <3>1 DEF Until
    <3>2. CASE i # n
      <4>1. i + 1 \in 1 .. n
        BY <1>3, <3>2
      <4> QED
        BY <2>1, <3>2, <4>1 DEF Until
    <3> QED
      BY <3>1, <3>2
  <2>3. sel[i] = [skip |-> HeadAt(H, i) \in deletes, rows |-> Until(H, last, i) - HeadAt(H, i)]
    BY <1>1
  <2> QED
    BY <2>1, <2>2, <2>3
<1>5. \A i \in 1 .. n : RunStart(first, sel, i) = HeadAt(H, i)
  <2> SUFFICES ASSUME NEW i \in 1 .. n PROVE RunStart(first, sel, i) = HeadAt(H, i)
    OBVIOUS
  <2>1. first + Prefix(w, i) = HeadAt(H, i)
    BY <1>2, RunStarts
  <2>2. [k \in 1 .. i - 1 |-> sel[k].rows] = [k \in 1 .. i - 1 |-> w[k]]
    <3>1. \A k \in 1 .. i - 1 : k \in 1 .. n
      BY <1>3
    <3>2. \A k \in 1 .. n : w[k] = Until(H, last, k) - HeadAt(H, k)
      OBVIOUS
    <3> HIDE DEF w
    <3>3. \A k \in 1 .. i - 1 : sel[k].rows = w[k]
      BY <1>4, <3>1, <3>2
    <3> QED
      BY <3>3
  <2> QED
    BY <2>1, <2>2 DEF RunStart, Prefix
<1> HIDE DEF n, w
<1>6. \A i \in 1 .. n, x \in Int :
        x \in RunStart(first, sel, i) .. RunStart(first, sel, i) + sel[i].rows - 1 <=> InRun(H, last, i, x)
  <2> SUFFICES ASSUME NEW i \in 1 .. n, NEW x \in Int
               PROVE  x \in RunStart(first, sel, i) .. RunStart(first, sel, i) + sel[i].rows - 1 <=> InRun(H, last, i, x)
    OBVIOUS
  <2> DEFINE a == HeadAt(H, i)  b == Until(H, last, i)
  <2>1. a \in Int /\ b \in Int /\ sel[i].rows = b - a /\ RunStart(first, sel, i) = a
    BY <1>4, <1>5
  <2>2. InRun(H, last, i, x) <=> a <= x /\ x < b
    BY DEF InRun
  <2> HIDE DEF a, b
  <2>3. x \in a .. a + (b - a) - 1 <=> a <= x /\ x < b
    BY <2>1
  <2> QED
    BY <2>1, <2>2, <2>3
<1>7. ASSUME NEW x, x \in RunRows(first, sel) PROVE x \in (first .. last) \ deletes
  <2>1. PICK i \in 1 .. n : /\ ~sel[i].skip
                            /\ x \in RunStart(first, sel, i) .. RunStart(first, sel, i) + sel[i].rows - 1
    BY <1>3, <1>7 DEF RunRows
  <2>2. x \in Int
    BY <2>1
  <2>3. InRun(H, last, i, x)
    BY <1>6, <2>1, <2>2
  <2>4. x \in first .. last /\ Rank(H, x) = i
    BY <1>2, <2>2, <2>3, RunsCut DEF n
  <2>5. x \in deletes <=> HeadAt(H, i) \in deletes
    BY <1>2, <2>4, RunsAgree DEF H
  <2> QED
    BY <1>4, <2>1, <2>4, <2>5
<1>8. ASSUME NEW x, x \in (first .. last) \ deletes PROVE x \in RunRows(first, sel)
  <2>1. x \in Int /\ x \in first .. last /\ x \notin deletes
    BY <1>8
  <2> DEFINE i == Rank(H, x)
  <2>2. i \in 1 .. n /\ InRun(H, last, i, x)
    BY <1>2, <2>1, RunsCut DEF n
  <2>3. HeadAt(H, i) \notin deletes
    BY <1>2, <2>1, RunsAgree DEF H
  <2> HIDE DEF i
  <2>4. ~sel[i].skip /\ x \in RunStart(first, sel, i) .. RunStart(first, sel, i) + sel[i].rows - 1
    BY <1>4, <1>6, <2>1, <2>2, <2>3
  <2> QED
    BY <1>3, <2>2, <2>4 DEF RunRows
<1> QED
  BY <1>7, <1>8 DEF sel

\* The opener reads of a row group exactly the rows the positions do not delete,
\* whichever access the plan gives it.
LEMMA PlanSelects ==
  ASSUME NEW groups \in Seq(Nat), NEW g \in DOMAIN groups, NEW deletes
  PROVE  /\ SelectedRows(groups, g, build_access_plan(groups, deletes)[g]) = GroupRows(groups, g) \ deletes
         /\ SelectedRows(groups, g, [access |-> "scan", selectors |-> <<>>]) = GroupRows(groups, g)
<1> DEFINE first == FirstRow(groups, g)
           last == first + groups[g] - 1
           plan == build_access_plan(groups, deletes)[g]
<1>1. first \in Int /\ groups[g] \in Nat
  BY FirstRowSteps
<1>2. GroupRows(groups, g) = first .. last
  BY DEF GroupRows
<1>3. SelectedRows(groups, g, [access |-> "scan", selectors |-> <<>>]) = GroupRows(groups, g)
  BY <1>2 DEF SelectedRows
<1> DEFINE scanned == [access |-> "scan", selectors |-> <<>>]
           skipped == [access |-> "skip", selectors |-> <<>>]
           chosen == [access |-> "select", selectors |-> Selectors(first, last, deletes)]
<1>4. plan = CASE (first .. last) \cap deletes = {} -> scanned
               [] (first .. last) \subseteq deletes -> skipped
               [] OTHER -> chosen
  BY DEF build_access_plan
<1>5. \/ (first .. last) \cap deletes = {} /\ plan = scanned
      \/ (first .. last) \subseteq deletes /\ plan = skipped
      \/ ~((first .. last) \subseteq deletes) /\ plan = chosen
  <2> HIDE DEF plan, scanned, skipped, chosen, first, last
  <2> QED
    BY <1>4
<1>6. CASE (first .. last) \cap deletes = {} /\ plan = scanned
  <2>1. SelectedRows(groups, g, plan) = GroupRows(groups, g)
    BY <1>3, <1>6
  <2> HIDE DEF plan, first, last
  <2> QED
    BY <1>2, <1>3, <1>6, <2>1 DEF plan
<1>7. CASE (first .. last) \subseteq deletes /\ plan = skipped
  <2>1. SelectedRows(groups, g, plan) = {}
    BY <1>7 DEF SelectedRows
  <2> HIDE DEF plan, first, last
  <2> QED
    BY <1>2, <1>3, <1>7, <2>1 DEF plan
<1>8. CASE ~((first .. last) \subseteq deletes) /\ plan = chosen
  <2>1. first <= last
    BY <1>1, <1>8
  <2>2. SelectedRows(groups, g, chosen) = RunRows(first, Selectors(first, last, deletes))
    BY DEF SelectedRows, RunRows, RunStart
  <2>3. SelectedRows(groups, g, plan) = (first .. last) \ deletes
    <3>1. last \in Int
      BY <1>1
    <3> HIDE DEF plan, first, last, chosen
    <3> QED
      BY <1>1, <1>8, <2>1, <2>2, <3>1, SelectorsSelect DEF chosen
  <2> HIDE DEF plan, first, last, chosen
  <2> QED
    BY <1>2, <1>3, <2>3 DEF plan
<1> QED
  BY <1>5, <1>6, <1>7, <1>8
-----------------------------------------------------------------------------
(* Exactly the live rows.                                                   *)

\* What a delete file's row groups G, and some vectors, say of file f.
PositionsIn(side, path, G, f) ==
    {r.pos : r \in {q \in UNION {Applying(side, side.content[path.id][g]) : g \in G} : q.file = f}}
VectorPositions(members, f) == UNION {m.vector.positions : m \in {n \in members : n.file = f}}
Lookup(found, f) == IF f \in DOMAIN found THEN found[f] ELSE {}

\* The tasks of the two reading stages, and what each has to find.
FirstReads(side) == delete_file_opens(side) \cup delta_vector_reads(side) \cup iceberg_vector_reads(side)
GroupsFor(side, t) == IF t.op = "open" THEN InTail(side, t.path) ELSE {t.group}
Share(side, t, f) ==
    IF t.op = "vector" THEN VectorPositions(t.members, f)
    ELSE PositionsIn(side, t.path, GroupsFor(side, t), f)
Shares(side, ts, f) == UNION {Share(side, t, f) : t \in ts}
Expected(side, f) == Shares(side, FirstReads(side) \cup row_group_reads(side), f)

\* What a task has found, and that it met nothing it could not apply.
Wellformed(side, path, G) == \A g \in G : ~Malformed(side, side.content[path.id][g])
Progress(side, t, r) ==
    IF t.op = "vector"
    THEN r.at = "done" => /\ \A m \in t.members : Decodes(m)
                          /\ \A f \in Assigned(side) : Lookup(r.found, f) = Share(side, t, f)
    ELSE /\ r.left \subseteq GroupsFor(side, t)
         /\ r.at = "done" => r.left = {}
         /\ Wellformed(side, t.path, GroupsFor(side, t) \ r.left)
         /\ \A f \in Assigned(side) :
              Lookup(r.found, f) = PositionsIn(side, t.path, GroupsFor(side, t) \ r.left, f)

\* The tasks ts met nothing they could not apply.
Accepted(side, ts) ==
    \A t \in ts : IF t.op = "vector" THEN \A m \in t.members : Decodes(m)
                  ELSE Wellformed(side, t.path, GroupsFor(side, t))
Applicable(side) == \A m \in Mechanisms(side) : applicable_delete_mechanism(m)
Applied(side) == Applicable(side) /\ Accepted(side, FirstReads(side) \cup row_group_reads(side))

\* The positions of file f in the sets ss.
UnionIn(ss, f) == UNION {r.found[f] : r \in FoundIn(ss, f)}
EntryFor(side, f) == CHOOSE e \in EntriesOf(side) : e.path.id = f

CollectOK(side, st, ts, ss, ps) ==
    /\ \A f \in DOMAIN ps : ps[f] = build_access_plan(EntryFor(side, f).groups, Expected(side, f))
    /\ st = "opening" =>
         /\ Applicable(side)
         /\ DOMAIN ts = FirstReads(side)
         /\ \A t \in DOMAIN ts : Progress(side, t, ts[t])
    /\ st = "grouping" =>
         /\ Applicable(side) /\ Accepted(side, FirstReads(side))
         /\ DOMAIN ts = row_group_reads(side)
         /\ \A t \in DOMAIN ts : Progress(side, t, ts[t])
         /\ \A f \in Assigned(side) : UnionIn(ss, f) = Shares(side, FirstReads(side), f)
    /\ st \in {"uniting", "building"} =>
         \A f \in Assigned(side) : UnionIn(ss, f) = Expected(side, f)
    /\ st = "uniting" =>
         /\ {t.path.id : t \in DOMAIN ts} = FilesIn(ss)
         /\ \A t \in DOMAIN ts : ts[t].at = "done" =>
              ts[t].found = [x \in {t.path.id} |-> UnionIn(ss, t.path.id)]
    /\ st = "building" =>
         /\ \A f \in Assigned(side) : Expected(side, f) # {} => \E t \in DOMAIN ts : t.path.id = f
         /\ \A t \in DOMAIN ts : ts[t].at = "done" => t.path.id \in DOMAIN ps
    /\ st \in {"ready", "streaming"} =>
         \A f \in Assigned(side) : Expected(side, f) # {} => f \in DOMAIN ps

Collected ==
    outcome # "failed" => \A s \in Sides : CollectOK(Side(s), stage[s], tasks[s], sets[s], plans[s])

\* The rows of a side's row groups that nothing deletes; em are the rows it has handed
\* out, td the row groups it still has to read.
LiveIn(side, f, g) == GroupRows(EntryFor(side, f).groups, g) \ Expected(side, f)
GroupsIn(side) == UNION {{<<e.path.id, g>> : g \in DOMAIN e.groups} : e \in EntriesOf(side)}
LiveOf(side, b) == {<<b[1], x>> : x \in LiveIn(side, b[1], b[2])}
StreamOK(side, em, td) ==
    {<<r.file, r.row>> : r \in em} = UNION {LiveOf(side, b) : b \in GroupsIn(side) \ td}

Planned == {"uniting", "building", "ready", "streaming"}
Streamed ==
    /\ \A s \in Sides : stage[s] \in Planned => Applied(Side(s))
    /\ \A s \in Sides : emitted[s] # {} \/ stage[s] = "streaming" => \A r \in Sides : stage[r] = "streaming"
    /\ outcome = "done" => \A s \in Sides : stage[s] = "streaming" /\ todo[s] = {}
    /\ \A s \in Sides : stage[s] = "streaming" => StreamOK(Side(s), emitted[s], todo[s])

LInv == Collected /\ Streamed

\* The blobs of a side have their ranges.
LEMMA PuffinRanged ==
  ASSUME NEW side, SideShape(side)
  PROVE  Ranged(Members(side, "puffin"))
<1> SUFFICES ASSUME NEW m \in Members(side, "puffin") PROVE m.vector.start \in Int /\ m.vector.end \in Int
  BY DEF Ranged
<1>1. PICK e \in EntriesOf(side) : \E d \in e.deletes :
        d.kind = "puffin" /\ m = [file |-> e.path.id, vector |-> d]
  BY DEF Members
<1>2. PICK d \in e.deletes : d.kind = "puffin" /\ m = [file |-> e.path.id, vector |-> d]
  BY <1>1
<1>3. MechanismShape(side, d)
  BY <1>2 DEF SideShape
<1> QED
  BY <1>2, <1>3 DEF MechanismShape

\* A side lists what the writers of its table grant.
LEMMA CallConsistent ==
  ASSUME call \in Calls, NEW s \in Sides
  PROVE  SideShape(Side(s)) /\ SideConsistent(Side(s))
BY ScanCallAssumption DEF Sides, Side

\* The reads of a side are opens, row groups and vectors of what it lists.
LEMMA ReadsOf ==
  ASSUME NEW side, SideShape(side), NEW t \in FirstReads(side) \cup row_group_reads(side)
  PROVE  /\ t.op \in {"open", "group", "vector"} /\ Reading(side, t)
         /\ t \in FirstReads(side) => t.op # "group"
         /\ t \in row_group_reads(side) => t.op = "group" /\ t.group \in Relevant(side, t.path)
         /\ t.op # "vector" => GroupsFor(side, t) \subseteq DOMAIN side.content[t.path.id]
<1>1. ASSUME t \in FirstReads(side) PROVE t.op \in {"open", "vector"} /\ Reading(side, t)
  BY <1>1, OpensSpawn, DeltaSpawn, PuffinSpawn DEF FirstReads, Spawns
<1>2. ASSUME t \in row_group_reads(side)
      PROVE  t.op = "group" /\ Reading(side, t) /\ t.group \in Relevant(side, t.path)
  BY <1>2, GroupsSpawn DEF Spawns
<1>3. ASSUME t.op # "vector" PROVE GroupsFor(side, t) \subseteq DOMAIN side.content[t.path.id]
  <2>1. CASE t.op = "open"
    BY <2>1 DEF GroupsFor, InTail, Relevant
  <2>2. CASE t.op # "open"
    <3>1. t.group \in Relevant(side, t.path)
      BY <1>1, <1>2, <1>3, <2>2
    <3> QED
      BY <2>2, <3>1 DEF GroupsFor, Relevant
  <2> QED
    BY <2>1, <2>2
<1> QED
  BY <1>1, <1>2, <1>3

\* Every vector of a side is decoded by one of its reads.
LEMMA VectorCovered ==
  ASSUME NEW side, SideShape(side), NEW m \in Vectors(side)
  PROVE  \E t \in FirstReads(side) : t.op = "vector" /\ m \in t.members
<1>1. CASE m \in Members(side, "delta")
  <2> DEFINE V == Members(side, "delta")
             p == m.vector.sidecar
             read(path, members) == [Task("vector", path) EXCEPT !.members = members]
  <2>1. \A path, members : read(path, members).op = "vector" /\ read(path, members).members = members
    BY DEF Task
  <2>2. CASE p = Inline
    <3>1. read(Inline, {m}) \in delta_vector_reads(side)
      BY <1>1, <2>2 DEF delta_vector_reads
    <3> HIDE DEF read
    <3> QED
      BY <2>1, <3>1 DEF FirstReads
  <2>3. CASE p # Inline
    <3> DEFINE B == {n \in V : n.vector.sidecar = p}
    <3>1. read(p, B) \in delta_vector_reads(side)
      BY <1>1, <2>3 DEF delta_vector_reads
    <3>2. m \in B
      BY <1>1
    <3> HIDE DEF read, B
    <3> QED
      BY <2>1, <3>1, <3>2 DEF FirstReads
  <2> QED
    BY <2>2, <2>3
<1>2. CASE m \in Members(side, "puffin")
  <2> DEFINE V == Members(side, "puffin")
             B == {n \in V : n.vector.path = m.vector.path}
  <2>1. IsFiniteSet(V) /\ Ranged(V)
    BY MembersFinite, PuffinRanged
  <2>2. IsFiniteSet(B) /\ Ranged(B) /\ m \in B
    BY <1>2, <2>1, FS_Subset DEF Ranged
  <2> HIDE DEF B
  <2>3. PICK t \in merge_blob_ranges(B) : m \in t.members
    BY <2>2, MergedRequests
  <2>4. t.op = "vector"
    BY <2>2, MergedRequests DEF PuffinRequests
  <2>5. t \in iceberg_vector_reads(side)
    BY <1>2, <2>3 DEF iceberg_vector_reads, B
  <2> QED
    BY <2>3, <2>4, <2>5 DEF FirstReads
<1> QED
  BY <1>1, <1>2 DEF Vectors

\* Every row group that deletes a row of the side is decoded by one of its reads.
LEMMA GroupCovered ==
  ASSUME NEW side, SideShape(side), SideConsistent(side), NEW m \in Mechanisms(side), m.kind = "posfile",
         NEW g \in DOMAIN side.content[m.path.id],
         NEW r \in Applying(side, side.content[m.path.id][g])
  PROVE  \E t \in FirstReads(side) \cup row_group_reads(side) :
            t.op # "vector" /\ t.path = m.path /\ g \in GroupsFor(side, t)
<1> DEFINE group == side.content[m.path.id][g]
           o == Task("open", m.path)
<1>1. group.low \in Int /\ group.high \in Int
  <2>1. MechanismShape(side, m)
    BY DEF SideShape, Mechanisms
  <2> QED
    BY <2>1 DEF MechanismShape
<1>2. r \in ToSet(group.rows) /\ ~r.null /\ r.file \in Assigned(side)
  BY DEF Applying
<1>3. group \in ToSet(side.content[m.path.id])
  BY DEF ToSet
<1>4. group.low <= group.high => group.low <= r.file /\ r.file <= group.high
  <2> HIDE DEF group
  <2> QED
    BY <1>2, <1>3 DEF SideConsistent
<1>5. g \in Relevant(side, m.path)
  <2>1. delete_row_group_may_match(group, side)
    <3> HIDE DEF group
    <3> QED
      BY <1>1, <1>2, <1>4 DEF delete_row_group_may_match
  <2> QED
    BY <2>1 DEF Relevant
<1>6. o \in delete_file_opens(side) /\ o.op = "open" /\ o.path = m.path
  BY DEF delete_file_opens, Task
<1>7. CASE g \in InTail(side, m.path)
  <2>1. g \in GroupsFor(side, o)
    BY <1>6, <1>7 DEF GroupsFor
  <2> QED
    BY <1>6, <2>1 DEF FirstReads
<1>8. CASE g \notin InTail(side, m.path)
  <2> DEFINE t == [Task("group", o.path) EXCEPT !.group = g]
  <2>1. t.op = "group" /\ t.path = o.path /\ t.group = g
    BY DEF Task
  <2>2. t \in row_group_reads(side)
    <3> DEFINE T(p) == {[Task("group", p.path) EXCEPT !.group = i] :
                          i \in Relevant(side, p.path) \ InTail(side, p.path)}
    <3>1. row_group_reads(side) = UNION {T(p) : p \in delete_file_opens(side)}
      BY DEF row_group_reads
    <3>2. t \in T(o)
      <4> HIDE DEF o
      <4> QED
        BY <1>5, <1>6, <1>8
    <3> HIDE DEF t, o, T
    <3> QED
      BY <1>6, <3>1, <3>2
  <2> HIDE DEF t, o
  <2>3. g \in GroupsFor(side, t)
    BY <2>1 DEF GroupsFor
  <2> QED
    BY <1>6, <2>1, <2>2, <2>3
<1> QED
  BY <1>7, <1>8

\* A vector is a mechanism of the entry of its file.
LEMMA VectorOf ==
  ASSUME NEW side, SideConsistent(side), NEW e \in EntriesOf(side), NEW m \in Vectors(side), m.file = e.path.id
  PROVE  m.vector \in e.deletes /\ m.vector.kind \in {"delta", "puffin"}
<1>1. PICK d \in EntriesOf(side) : \E v \in d.deletes :
        v.kind \in {"delta", "puffin"} /\ m = [file |-> d.path.id, vector |-> v]
  BY DEF Vectors, Members
<1>2. PICK v \in d.deletes : v.kind \in {"delta", "puffin"} /\ m = [file |-> d.path.id, vector |-> v]
  BY <1>1
<1>3. d = e
  BY <1>2 DEF SideConsistent
<1> QED
  BY <1>2, <1>3

\* The vectors of a side are those of its entries.
LEMMA VectorIs ==
  ASSUME NEW side, NEW e \in EntriesOf(side), NEW m \in e.deletes, m.kind \in {"delta", "puffin"}
  PROVE  [file |-> e.path.id, vector |-> m] \in Vectors(side)
<1> DEFINE S(d, k) == {[file |-> d.path.id, vector |-> v] : v \in {w \in d.deletes : w.kind = k}}
<1>1. [file |-> e.path.id, vector |-> m] \in S(e, m.kind)
  OBVIOUS
<1>2. \A k : Members(side, k) = UNION {S(d, k) : d \in EntriesOf(side)}
  BY DEF Members
<1> HIDE DEF S
<1>3. [file |-> e.path.id, vector |-> m] \in Members(side, m.kind)
  BY <1>1, <1>2
<1> QED
  BY <1>3 DEF Vectors

\* What the reads of a side find of a file is what its mechanisms delete of it.
LEMMA ExpectedIs ==
  ASSUME NEW side, SideShape(side), SideConsistent(side), Applicable(side), NEW e \in EntriesOf(side)
  PROVE  Expected(side, e.path.id) = UNION {DeletedBy(side, e, m) : m \in e.deletes}
<1> DEFINE f == e.path.id
           All == FirstReads(side) \cup row_group_reads(side)
<1>0. \A m \in e.deletes : m \in Mechanisms(side)
  BY DEF Mechanisms
<1>1. ASSUME NEW x, x \in Expected(side, f) PROVE x \in UNION {DeletedBy(side, e, m) : m \in e.deletes}
  <2>1. PICK t \in All : x \in Share(side, t, f)
    BY <1>1 DEF Expected, Shares
  <2>2. Reading(side, t) /\ t.op \in {"open", "group", "vector"}
    BY <2>1, ReadsOf
  <2>3. CASE t.op = "vector"
    <3>1. PICK m \in t.members : m.file = f /\ x \in m.vector.positions
      BY <2>1, <2>3 DEF Share, VectorPositions
    <3>2. m.vector \in e.deletes /\ m.vector.kind \in {"delta", "puffin"}
      BY <2>2, <2>3, <3>1, VectorOf DEF Reading
    <3>3. x \in DeletedBy(side, e, m.vector)
      BY <3>1, <3>2 DEF DeletedBy
    <3> QED
      BY <3>2, <3>3
  <2>4. CASE t.op # "vector"
    <3>1. PICK m \in Mechanisms(side) : m.kind = "posfile" /\ t.path = m.path
      BY <2>2, <2>4 DEF Reading
    <3>2. PICK g \in GroupsFor(side, t) : \E r \in Applying(side, side.content[m.path.id][g]) : r.file = f /\ r.pos = x
      BY <2>1, <2>4, <3>1 DEF Share, PositionsIn
    <3>3. PICK r \in Applying(side, side.content[m.path.id][g]) : r.file = f /\ r.pos = x
      BY <3>2
    <3>4. g \in DOMAIN side.content[m.path.id]
      BY <2>1, <2>4, <3>1, <3>2, ReadsOf
    <3> DEFINE group == side.content[m.path.id][g]
    <3>5. group \in ToSet(side.content[m.path.id]) /\ r \in ToSet(group.rows) /\ ~r.null
      BY <3>3, <3>4 DEF Applying, ToSet
    <3> HIDE DEF group
    <3>6. NamesFile(side, m, f)
      BY <3>3, <3>5 DEF NamesFile
    <3>7. PICK d \in e.deletes : d.kind = "posfile" /\ d.path = m.path
      BY <3>1, <3>6 DEF SideConsistent
    <3>8. x \in DeletedBy(side, e, d)
      BY <3>3, <3>5, <3>7 DEF DeletedBy
    <3> QED
      BY <3>7, <3>8
  <2> QED
    BY <2>3, <2>4
<1>2. ASSUME NEW m \in e.deletes, NEW x \in DeletedBy(side, e, m) PROVE x \in Expected(side, f)
  <2>1. m.kind \in {"delta", "puffin", "posfile"}
    BY <1>0 DEF Applicable, applicable_delete_mechanism
  <2>2. CASE m.kind = "posfile"
    <3>1. PICK group \in ToSet(side.content[m.path.id]) : \E r \in ToSet(group.rows) :
            ~r.null /\ r.file = f /\ r.pos = x
      BY <1>2, <2>2 DEF DeletedBy
    <3>2. PICK r \in ToSet(group.rows) : ~r.null /\ r.file = f /\ r.pos = x
      BY <3>1
    <3>3. PICK g \in DOMAIN side.content[m.path.id] : group = side.content[m.path.id][g]
      BY <3>1 DEF ToSet
    <3>4. r \in Applying(side, side.content[m.path.id][g])
      BY <3>2, <3>3 DEF Applying, Assigned
    <3>5. PICK t \in All : t.op # "vector" /\ t.path = m.path /\ g \in GroupsFor(side, t)
      BY <1>0, <2>2, <3>4, GroupCovered
    <3>6. x \in PositionsIn(side, t.path, GroupsFor(side, t), f)
      BY <3>2, <3>4, <3>5 DEF PositionsIn
    <3> QED
      BY <3>5, <3>6 DEF Expected, Shares, Share
  <2>3. CASE m.kind # "posfile"
    <3> DEFINE v == [file |-> f, vector |-> m]
    <3>1. v \in Vectors(side)
      BY <2>1, <2>3, VectorIs
    <3>2. PICK t \in FirstReads(side) : t.op = "vector" /\ v \in t.members
      <4> HIDE DEF v
      <4> QED
        BY <3>1, VectorCovered
    <3>3. x \in m.positions
      BY <1>2, <2>1, <2>3 DEF DeletedBy
    <3>4. v.file = f /\ v.vector = m
      OBVIOUS
    <3> HIDE DEF v
    <3>5. x \in VectorPositions(t.members, f)
      BY <3>2, <3>3, <3>4 DEF VectorPositions
    <3> QED
      BY <3>2, <3>5 DEF Expected, Shares, Share
  <2> QED
    BY <2>2, <2>3
<1> QED
  BY <1>1, <1>2

\* Reads that met nothing they could not apply leave nothing unappliable.
LEMMA AppliedIs ==
  ASSUME NEW side, SideShape(side), SideConsistent(side), Applied(side)
  PROVE  ~Unappliable(side)
<1> DEFINE All == FirstReads(side) \cup row_group_reads(side)
<1> SUFFICES ASSUME NEW m \in Mechanisms(side),
                    \/ m.kind = "equality"
                    \/ m.kind = "puffin" /\ m.end > m.size
                    \/ m.kind = "delta" /\ ~m.sound
                    \/ m.kind \in {"delta", "puffin"} /\ Cardinality(m.positions) # m.cardinality
                    \/ m.kind = "posfile" /\ \E g \in ToSet(side.content[m.path.id]) : Malformed(side, g)
             PROVE  FALSE
  BY DEF Unappliable
<1>1. applicable_delete_mechanism(m)
  BY DEF Applied, Applicable
<1>2. PICK e \in EntriesOf(side) : m \in e.deletes
  BY DEF Mechanisms
<1>3. MechanismShape(side, m)
  BY <1>2 DEF SideShape
<1>4. m.kind # "equality"
  BY <1>1 DEF applicable_delete_mechanism
<1>5. m.kind = "puffin" => ~(m.end > m.size)
  <2>1. m.kind = "puffin" => m.end \in Nat /\ m.size \in Nat
    BY <1>3 DEF MechanismShape
  <2>2. m.kind = "puffin" => m.end <= m.size
    BY <1>1 DEF applicable_delete_mechanism, resolve_manifest_vector
  <2> QED
    BY <2>1, <2>2
<1>6. m.kind = "delta" => m.sound
  BY <1>1 DEF applicable_delete_mechanism, resolve_descriptor
<1>7. ASSUME m.kind \in {"delta", "puffin"} PROVE Cardinality(m.positions) = m.cardinality
  <2> DEFINE v == [file |-> e.path.id, vector |-> m]
  <2>1. v \in Vectors(side)
    BY <1>2, <1>7, VectorIs
  <2>2. v.vector = m
    OBVIOUS
  <2> HIDE DEF v
  <2>3. PICK t \in FirstReads(side) : t.op = "vector" /\ v \in t.members
    BY <2>1, VectorCovered
  <2>4. Decodes(v)
    BY <2>3 DEF Applied, Accepted
  <2> QED
    BY <2>2, <2>4 DEF Decodes
<1>8. ASSUME m.kind = "posfile", NEW group \in ToSet(side.content[m.path.id]), Malformed(side, group) PROVE FALSE
  <2>1. PICK g \in DOMAIN side.content[m.path.id] : group = side.content[m.path.id][g]
    BY <1>8 DEF ToSet
  <2>2. PICK r \in Applying(side, group) : TRUE
    BY <1>8 DEF Malformed
  <2>3. PICK t \in All : t.op # "vector" /\ t.path = m.path /\ g \in GroupsFor(side, t)
    BY <1>8, <2>1, <2>2, GroupCovered
  <2>4. Wellformed(side, m.path, GroupsFor(side, t))
    BY <2>3 DEF Applied, Accepted
  <2> QED
    BY <1>8, <2>1, <2>3, <2>4 DEF Wellformed
<1> QED
  BY <1>4, <1>5, <1>6, <1>7, <1>8

\* Nothing is expected of a side without mechanisms.
LEMMA NoMechanisms ==
  ASSUME NEW side, SideShape(side), Mechanisms(side) = {}
  PROVE  Applied(side) /\ \A f : Expected(side, f) = {}
<1> DEFINE All == FirstReads(side) \cup row_group_reads(side)
<1>1. Vectors(side) = {}
  BY DEF Vectors, Members, Mechanisms
<1>2. ASSUME NEW t \in All PROVE t.op = "vector" /\ t.members = {}
  BY <1>1, ReadsOf DEF Reading
<1>3. Applied(side)
  BY <1>2 DEF Applied, Applicable, Accepted
<1>4. ASSUME NEW f PROVE Expected(side, f) = {}
  <2>1. \A t \in All : Share(side, t, f) = {}
    BY <1>2 DEF Share, VectorPositions
  <2> QED
    BY <2>1 DEF Expected, Shares
<1> QED
  BY <1>3, <1>4

\* The rows of a decoded batch that name file f.
PositionsOf(side, group, f) == {r.pos : r \in {q \in Applying(side, group) : q.file = f}}

\* A batch adds its positions to those of the files it names.
LEMMA AddedLookup ==
  ASSUME NEW side, NEW found, NEW group, NEW f
  PROVE  Lookup(add_positions(found, side, group), f) = Lookup(found, f) \cup PositionsOf(side, group, f)
<1> DEFINE D == DOMAIN found \cup {r.file : r \in Applying(side, group)}
           new == add_positions(found, side, group)
<1>1. new = [x \in D |-> Lookup(found, x) \cup PositionsOf(side, group, x)]
  BY DEF add_positions, Lookup, PositionsOf
<1>2. f \notin D => Lookup(found, f) = {} /\ PositionsOf(side, group, f) = {}
  BY DEF Lookup, PositionsOf
<1>3. DOMAIN new = D
  BY <1>1
<1>4. f \in D => new[f] = Lookup(found, f) \cup PositionsOf(side, group, f)
  <2> HIDE DEF D, new
  <2> QED
    BY <1>1
<1> HIDE DEF new, D
<1> QED
  BY <1>2, <1>3, <1>4 DEF Lookup, new

\* Decoding finds what the vectors hold.
LEMMA DecodedLookup ==
  ASSUME NEW members, NEW f
  PROVE  Lookup(decode_vectors(members), f) = VectorPositions(members, f)
<1> DEFINE D == {m.file : m \in members}
<1>1. decode_vectors(members) = [x \in D |-> VectorPositions(members, x)]
  BY DEF decode_vectors, VectorPositions
<1>2. f \notin D => VectorPositions(members, f) = {}
  BY DEF VectorPositions
<1> HIDE DEF D
<1> QED
  BY <1>1, <1>2 DEF Lookup

Grows(side, path, G, g, f) ==
    PositionsIn(side, path, G \cup {g}, f)
        = PositionsIn(side, path, G, f) \cup PositionsOf(side, side.content[path.id][g], f)

\* The positions of the groups G grow by those of a group.
LEMMA PositionsGrow ==
  ASSUME NEW side, NEW path, NEW G, NEW g, NEW f
  PROVE  Grows(side, path, G, g, f)
<1> DEFINE A(h) == Applying(side, side.content[path.id][h])
<1>1. UNION {A(h) : h \in G \cup {g}} = (UNION {A(h) : h \in G}) \cup A(g)
  <2> HIDE DEF A
  <2> QED
    OBVIOUS
<1>2. \A H : PositionsIn(side, path, H, f) = {r.pos : r \in {q \in UNION {A(h) : h \in H} : q.file = f}}
  BY DEF PositionsIn
<1>3. PositionsOf(side, side.content[path.id][g], f) = {r.pos : r \in {q \in A(g) : q.file = f}}
  BY DEF PositionsOf
<1> HIDE DEF A
<1> QED
  BY <1>1, <1>2, <1>3 DEF Grows

Together(ss, rr, f) == UnionIn(ss \cup rr, f) = UnionIn(ss, f) \cup UnionIn(rr, f)

\* What a family of sets says of a file is what its parts say.
LEMMA UnionJoin ==
  ASSUME NEW ss, NEW rr, NEW f
  PROVE  Together(ss, rr, f)
BY DEF Together, UnionIn, FoundIn

\* The sets gathered from tasks say what the tasks found.
LEMMA GatheredUnion ==
  ASSUME NEW ts, NEW f
  PROVE  UnionIn(Gathered(ts), f) = UNION {Lookup(ts[t].found, f) : t \in DOMAIN ts}
<1>1. ASSUME NEW x, x \in UnionIn(Gathered(ts), f) PROVE x \in UNION {Lookup(ts[t].found, f) : t \in DOMAIN ts}
  <2>1. PICK r \in Gathered(ts) : f \in DOMAIN r.found /\ x \in r.found[f]
    BY <1>1 DEF UnionIn, FoundIn
  <2>2. PICK t \in DOMAIN ts : r.found = ts[t].found
    BY <2>1 DEF Gathered
  <2> QED
    BY <2>1, <2>2 DEF Lookup
<1>2. ASSUME NEW t \in DOMAIN ts, NEW x \in Lookup(ts[t].found, f) PROVE x \in UnionIn(Gathered(ts), f)
  <2> DEFINE r == [task |-> t, found |-> ts[t].found]
  <2>1. r \in Gathered(ts) /\ r.found = ts[t].found
    BY DEF Gathered
  <2>2. f \in DOMAIN ts[t].found /\ x \in ts[t].found[f]
    BY <1>2 DEF Lookup
  <2> HIDE DEF r
  <2> QED
    BY <2>1, <2>2 DEF UnionIn, FoundIn
<1> QED
  BY <1>1, <1>2

\* Tasks that are done have found their shares.
LEMMA GatheredShares ==
  ASSUME NEW side, NEW ts, \A t \in DOMAIN ts : Progress(side, t, ts[t]) /\ ts[t].at = "done",
         NEW f \in Assigned(side)
  PROVE  UnionIn(Gathered(ts), f) = Shares(side, DOMAIN ts, f)
<1>1. ASSUME NEW t \in DOMAIN ts PROVE Lookup(ts[t].found, f) = Share(side, t, f)
  <2>1. Progress(side, t, ts[t]) /\ ts[t].at = "done"
    OBVIOUS
  <2>2. CASE t.op = "vector"
    BY <2>1, <2>2 DEF Progress
  <2>3. CASE t.op # "vector"
    <3>1. ts[t].left = {}
      BY <2>1, <2>3 DEF Progress
    <3>2. Lookup(ts[t].found, f) = PositionsIn(side, t.path, GroupsFor(side, t) \ ts[t].left, f)
      BY <2>1, <2>3 DEF Progress
    <3>3. GroupsFor(side, t) \ ts[t].left = GroupsFor(side, t)
      BY <3>1
    <3> QED
      BY <2>3, <3>2, <3>3 DEF Share
  <2> QED
    BY <2>2, <2>3
<1>2. UnionIn(Gathered(ts), f) = UNION {Lookup(ts[t].found, f) : t \in DOMAIN ts}
  BY GatheredUnion
<1> QED
  BY <1>1, <1>2 DEF Shares

\* Tasks that are done met nothing they could not apply.
LEMMA DoneAccepted ==
  ASSUME NEW side, NEW ts, \A t \in DOMAIN ts : Progress(side, t, ts[t]) /\ ts[t].at = "done"
  PROVE  Accepted(side, DOMAIN ts)
<1> SUFFICES ASSUME NEW t \in DOMAIN ts
             PROVE  IF t.op = "vector" THEN \A m \in t.members : Decodes(m)
                    ELSE Wellformed(side, t.path, GroupsFor(side, t))
  BY DEF Accepted
<1>1. Progress(side, t, ts[t]) /\ ts[t].at = "done"
  OBVIOUS
<1>2. CASE t.op = "vector"
  BY <1>1, <1>2 DEF Progress
<1>3. CASE t.op # "vector"
  <2>1. ts[t].left = {} /\ Wellformed(side, t.path, GroupsFor(side, t) \ ts[t].left)
    BY <1>1, <1>3 DEF Progress
  <2>2. GroupsFor(side, t) \ ts[t].left = GroupsFor(side, t)
    BY <2>1
  <2> QED
    BY <1>3, <2>1, <2>2
<1> QED
  BY <1>2, <1>3

\* The tasks of two stages share out what both find.
LEMMA SharesJoin ==
  ASSUME NEW side, NEW S, NEW R, NEW f
  PROVE  /\ Shares(side, S \cup R, f) = Shares(side, S, f) \cup Shares(side, R, f)
         /\ Accepted(side, S) /\ Accepted(side, R) => Accepted(side, S \cup R)
BY DEF Shares, Accepted

-----------------------------------------------------------------------------
\* A new task has found nothing and has everything left to find.
LEMMA NewProgress ==
  ASSUME NEW side, NEW t, NEW r, r.at # "done", r.found = NoSets, t.op # "vector" => r.left = GroupsFor(side, t)
  PROVE  Progress(side, t, r)
<1>1. CASE t.op = "vector"
  BY <1>1 DEF Progress
<1>2. CASE t.op # "vector"
  <2>1. GroupsFor(side, t) \ r.left = {} /\ r.left = GroupsFor(side, t)
    BY <1>2
  <2>2. \A f : Lookup(r.found, f) = {}
    BY DEF Lookup, NoSets
  <2>3. Wellformed(side, t.path, {}) /\ \A f : PositionsIn(side, t.path, {}, f) = {}
    BY DEF Wellformed, PositionsIn
  <2> QED
    BY <1>2, <2>1, <2>2, <2>3 DEF Progress
<1> QED
  BY <1>1, <1>2

\* A task that only waits or reads finds nothing.
LEMMA MoveProgress ==
  ASSUME NEW side, NEW t, NEW old, NEW r, Progress(side, t, old), r.left = old.left, r.found = old.found,
         r.at # "done"
  PROVE  Progress(side, t, r)
BY DEF Progress

\* A batch is decoded: its group is no longer left.
LEMMA BatchProgress ==
  ASSUME NEW side, NEW t, t.op # "vector", NEW old, Progress(side, t, old), old.at # "done",
         NEW g \in old.left, ~Malformed(side, side.content[t.path.id][g]),
         NEW r, r.at = old.at, r.left = old.left \ {g},
         r.found = add_positions(old.found, side, side.content[t.path.id][g])
  PROVE  Progress(side, t, r)
<1> DEFINE G == GroupsFor(side, t)
<1>1. /\ old.left \subseteq G /\ Wellformed(side, t.path, G \ old.left)
      /\ \A f \in Assigned(side) : Lookup(old.found, f) = PositionsIn(side, t.path, G \ old.left, f)
  BY DEF Progress
<1> HIDE DEF G
<1>2. G \ r.left = (G \ old.left) \cup {g} /\ r.left \subseteq G
  BY <1>1
<1>3. Wellformed(side, t.path, G \ r.left)
  BY <1>1, <1>2 DEF Wellformed
<1>4. ASSUME NEW f \in Assigned(side)
      PROVE  Lookup(r.found, f) = PositionsIn(side, t.path, G \ r.left, f)
  <2>1. Lookup(r.found, f) = Lookup(old.found, f) \cup PositionsOf(side, side.content[t.path.id][g], f)
    BY AddedLookup
  <2> DEFINE K == G \ old.left
  <2>2. Lookup(old.found, f) = PositionsIn(side, t.path, K, f) /\ G \ r.left = K \cup {g}
    BY <1>1, <1>2
  <2> HIDE DEF K
  <2>3. Grows(side, t.path, K, g, f)
    BY PositionsGrow
  <2> QED
    BY <2>1, <2>2, <2>3 DEF Grows
<1> QED
  BY <1>2, <1>3, <1>4 DEF Progress, G

\* A delete file or row group ends when nothing is left.
LEMMA EndProgress ==
  ASSUME NEW side, NEW t, t.op # "vector", NEW old, Progress(side, t, old), old.left = {},
         NEW r, r.left = {}, r.found = old.found
  PROVE  Progress(side, t, r)
BY DEF Progress

\* The vectors of a task are decoded in one go.
LEMMA VectorProgress ==
  ASSUME NEW side, NEW t, t.op = "vector", \A m \in t.members : Decodes(m),
         NEW r, r.found = decode_vectors(t.members)
  PROVE  Progress(side, t, r)
BY DecodedLookup DEF Progress, Share

-----------------------------------------------------------------------------
\* What a task of a stage has to show for itself.
TaskCollect(side, st, t, r, ss, ps) ==
    /\ st \in {"opening", "grouping"} => Progress(side, t, r)
    /\ st = "uniting" /\ r.at = "done" => r.found = [x \in {t.path.id} |-> UnionIn(ss, t.path.id)]
    /\ st = "building" /\ r.at = "done" => t.path.id \in DOMAIN ps

\* One task changes.
LEMMA TaskCollectOK ==
  ASSUME NEW side, NEW st, NEW ts, NEW ss, NEW ps, CollectOK(side, st, ts, ss, ps),
         NEW t \in DOMAIN ts, NEW r, NEW now, Updated(ts, t, r, now), TaskCollect(side, st, t, r, ss, ps)
  PROVE  CollectOK(side, st, now, ss, ps)
<1>1. DOMAIN now = DOMAIN ts /\ now[t] = r /\ \A u \in DOMAIN ts : u # t => now[u] = ts[u]
  BY DEF Updated
<1>2. ASSUME st \in {"opening", "grouping"}, NEW u \in DOMAIN now PROVE Progress(side, u, now[u])
  <2>1. CASE u = t
    BY <1>1, <1>2, <2>1 DEF TaskCollect
  <2>2. CASE u # t
    <3>1. Progress(side, u, ts[u])
      BY <1>1, <1>2 DEF CollectOK
    <3> QED
      BY <1>1, <2>2, <3>1
  <2> QED
    BY <2>1, <2>2
<1>3. ASSUME st = "uniting", NEW u \in DOMAIN now, now[u].at = "done"
      PROVE  now[u].found = [x \in {u.path.id} |-> UnionIn(ss, u.path.id)]
  <2>1. CASE u = t
    BY <1>1, <1>3, <2>1 DEF TaskCollect
  <2>2. CASE u # t
    <3>1. now[u] = ts[u] /\ u \in DOMAIN ts
      BY <1>1, <2>2
    <3>2. ts[u].found = [x \in {u.path.id} |-> UnionIn(ss, u.path.id)]
      BY <1>3, <3>1 DEF CollectOK
    <3> QED
      BY <3>1, <3>2
  <2> QED
    BY <2>1, <2>2
<1>4. ASSUME st = "building", NEW u \in DOMAIN now, now[u].at = "done" PROVE u.path.id \in DOMAIN ps
  <2>1. CASE u = t
    BY <1>1, <1>4, <2>1 DEF TaskCollect
  <2>2. CASE u # t
    BY <1>1, <1>4, <2>2 DEF CollectOK
  <2> QED
    BY <2>1, <2>2
<1>5. CASE st = "opening"
  BY <1>1, <1>2, <1>5 DEF CollectOK
<1>6. CASE st = "grouping"
  BY <1>1, <1>2, <1>6 DEF CollectOK
<1>7. CASE st = "uniting"
  <2>1. {u.path.id : u \in DOMAIN now} = FilesIn(ss)
    BY <1>1, <1>7 DEF CollectOK
  <2> QED
    BY <1>3, <1>7, <2>1 DEF CollectOK
<1>8. CASE st = "building"
  <2>1. \A f \in Assigned(side) : Expected(side, f) # {} => \E u \in DOMAIN now : u.path.id = f
    BY <1>1, <1>8 DEF CollectOK
  <2> QED
    BY <1>4, <1>8, <2>1 DEF CollectOK
<1>9. CASE st \notin {"opening", "grouping", "uniting", "building"}
  BY <1>9 DEF CollectOK
<1> QED
  BY <1>5, <1>6, <1>7, <1>8, <1>9

\* One side changes.
OthersKept(s) ==
    /\ call' = call
    /\ \A o \in Sides \ {s} :
         stage'[o] = stage[o] /\ tasks'[o] = tasks[o] /\ sets'[o] = sets[o] /\ plans'[o] = plans[o]

\* A step of one side leaves what the other has collected alone.
LEMMA SideCollected ==
  ASSUME Collected, outcome # "failed", NEW s \in Sides, OthersKept(s),
         CollectOK(Side(s), stage'[s], tasks'[s], sets'[s], plans'[s])
  PROVE  Collected'
<1>1. Sides' = Sides /\ \A o \in Sides : Side(o)' = Side(o)
  BY DEF Sides, Side, OthersKept
<1>2. ASSUME NEW o \in Sides PROVE CollectOK(Side(o), stage'[o], tasks'[o], sets'[o], plans'[o])
  <2>1. CASE o = s
    BY <2>1
  <2>2. CASE o # s
    <3>1. CollectOK(Side(o), stage[o], tasks[o], sets[o], plans[o])
      BY DEF Collected
    <3>2. stage'[o] = stage[o] /\ tasks'[o] = tasks[o] /\ sets'[o] = sets[o] /\ plans'[o] = plans[o]
      BY <2>2 DEF OthersKept
    <3> QED
      BY <3>1, <3>2
  <2> QED
    BY <2>1, <2>2
<1>3. ASSUME NEW o \in Sides PROVE CollectOK(Side(o), stage[o], tasks[o], sets[o], plans[o])'
  <2>1. CollectOK(Side(o)', stage'[o], tasks'[o], sets'[o], plans'[o])
    BY <1>1, <1>2
  <2> QED
    BY <2>1
<1> QED
  BY <1>1, <1>3 DEF Collected

\* A task of side s changes to r, nothing else that collecting reads does.
TaskMoves(s, t, r) ==
    /\ Updated(tasks[s], t, r, tasks'[s]) /\ \A o \in Sides \ {s} : tasks'[o] = tasks[o]
    /\ UNCHANGED <<call, outcome, stage, sets, plans>>

\* A task's step keeps what its side has collected.
LEMMA TaskCollected ==
  ASSUME Collected, outcome # "failed", NEW s \in Sides, NEW t \in DOMAIN tasks[s], NEW r, TaskMoves(s, t, r),
         TaskCollect(Side(s), stage[s], t, r, sets[s], plans[s])
  PROVE  Collected'
<1>1. CollectOK(Side(s), stage[s], tasks[s], sets[s], plans[s])
  BY DEF Collected
<1>2. CollectOK(Side(s), stage[s], tasks'[s], sets[s], plans[s])
  <2> DEFINE ts == tasks[s]  now == tasks'[s]
  <2>1. Updated(ts, t, r, now) /\ t \in DOMAIN ts
    BY DEF TaskMoves
  <2>2. CollectOK(Side(s), stage[s], ts, sets[s], plans[s])
    BY <1>1
  <2> HIDE DEF ts, now
  <2>3. CollectOK(Side(s), stage[s], now, sets[s], plans[s])
    BY <2>1, <2>2, TaskCollectOK
  <2> QED
    BY <2>3 DEF now
<1>3. stage'[s] = stage[s] /\ sets'[s] = sets[s] /\ plans'[s] = plans[s]
  BY DEF TaskMoves
<1>4. CollectOK(Side(s), stage'[s], tasks'[s], sets'[s], plans'[s])
  BY <1>2, <1>3
<1>5. OthersKept(s)
  BY DEF OthersKept, TaskMoves
<1> QED
  BY <1>4, <1>5, SideCollected

\* A task moves on from waiting or reading.
LEMMA MoveCollected ==
  ASSUME IInv, Collected, outcome = "running", NEW s \in Sides, NEW t \in DOMAIN tasks[s],
         NEW at \in {"reading", "decoding"}, tasks[s][t].at # "done",
         tasks' = [tasks EXCEPT ![s][t].at = at], UNCHANGED <<call, outcome, stage, sets, plans>>
  PROVE  Collected'
<1> DEFINE old == tasks[s][t]
           r == [at |-> at, left |-> old.left, found |-> old.found]
<1>1. call \in Calls /\ DOMAIN tasks = Sides
  BY DEF IInv, Shape
<1>2. old = [at |-> old.at, left |-> old.left, found |-> old.found]
  BY <1>1, TaskFacts DEF TaskOK, IInv
<1>3. tasks'[s] = [tasks[s] EXCEPT ![t] = [old EXCEPT !.at = at]]
  BY <1>1
<1>4. [old EXCEPT !.at = at] = r
  <2> HIDE DEF old
  <2> QED
    BY <1>2
<1>5. Updated(tasks[s], t, r, tasks'[s])
  <2> HIDE DEF r, old
  <2> QED
    BY <1>3, <1>4 DEF Updated
<1>6. \A o \in Sides \ {s} : tasks'[o] = tasks[o]
  BY <1>1
<1>7. TaskMoves(s, t, r)
  <2> HIDE DEF r
  <2> QED
    BY <1>5, <1>6 DEF TaskMoves
<1>8. r.at # "done" /\ r.left = old.left /\ r.found = old.found
  OBVIOUS
<1>9. TaskCollect(Side(s), stage[s], t, r, sets[s], plans[s])
  <2>1. stage[s] \in {"opening", "grouping"} => Progress(Side(s), t, old)
    BY DEF Collected, CollectOK
  <2> HIDE DEF r, old
  <2> QED
    BY <1>8, <2>1, MoveProgress DEF TaskCollect
<1> HIDE DEF r
<1> QED
  BY <1>7, <1>9, TaskCollected

\* A task ends with the sets it found.
LEMMA FinishCollected ==
  ASSUME IInv, Collected, outcome = "running", NEW s \in Sides, NEW t \in DOMAIN tasks[s], NEW found,
         NEW r, r = [at |-> "done", left |-> {}, found |-> found], NEW bytes, Finish(s, t, found, bytes), ~Fail,
         TaskCollect(Side(s), stage[s], t, r, sets[s], plans[s])
  PROVE  Collected'
<1>1. DOMAIN tasks = Sides
  BY DEF IInv, Shape
<1>2. tasks' = [tasks EXCEPT ![s][t] = r] /\ UNCHANGED <<call, outcome, stage, sets, plans>>
  BY DEF Finish
<1>3. tasks'[s] = [tasks[s] EXCEPT ![t] = r] /\ \A o \in Sides \ {s} : tasks'[o] = tasks[o]
  BY <1>1, <1>2
<1>4. TaskMoves(s, t, r)
  BY <1>2, <1>3 DEF TaskMoves, Updated
<1> QED
  BY <1>4, TaskCollected

\* The stage of a task follows from what it does.
LEMMA StageOf ==
  ASSUME IInv, NEW s \in Sides, NEW t \in DOMAIN tasks[s]
  PROVE  /\ t.op \in {"open", "group", "vector"} => stage[s] \in {"opening", "grouping"}
         /\ t.op = "union" => stage[s] = "uniting"
         /\ t.op = "plan" => stage[s] = "building"
         /\ TaskOK(Side(s), stage[s], t, tasks[s][t], plans[s]) /\ SideShape(Side(s))
<1>1. call \in Calls
  BY DEF IInv, Shape
<1>2. TaskOK(Side(s), stage[s], t, tasks[s][t], plans[s]) /\ SideShape(Side(s))
  BY <1>1, TaskFacts, CallFacts DEF IInv
<1>3. t.op \in OpsAt(stage[s])
  BY <1>2 DEF TaskOK
<1> QED
  BY <1>2, <1>3 DEF OpsAt

\* DecodeBatch: the batch's positions join the sets.
LEMMA DecodeBatchCollected ==
  ASSUME IInv, Collected, NEW s \in Sides, NEW t \in DOMAIN tasks[s], DecodeBatch(s, t), ~Fail
  PROVE  Collected'
<1> DEFINE side == Side(s)
           old == tasks[s][t]
           g == Min(old.left)
           group == side.content[t.path.id][g]
           found == add_positions(old.found, side, group)
           r == [at |-> "decoding", left |-> old.left \ {g}, found |-> found]
<1>1. DOMAIN tasks = Sides
  BY DEF IInv, Shape
<1>2. /\ t.op \in {"open", "group"} /\ outcome = "running" /\ old.at = "decoding"
      /\ old.left # {} /\ ~Malformed(side, group)
      /\ tasks' = [tasks EXCEPT ![s][t].left = @ \ {g}, ![s][t].found = found]
      /\ UNCHANGED <<call, outcome, stage, sets, plans>>
  BY DEF DecodeBatch
<1>3. TaskOK(side, stage[s], t, old, plans[s]) /\ stage[s] \in {"opening", "grouping"} /\ SideShape(side)
  BY <1>2, StageOf
<1>4. Progress(side, t, old)
  BY <1>2, <1>3 DEF Collected, CollectOK
<1>5. g \in old.left
  <2>1. old.left \subseteq DOMAIN side.content[t.path.id]
    <3> HIDE DEF old, side
    <3> QED
      BY <1>2, <1>3 DEF TaskOK
  <2>2. PICK m \in Mechanisms(side) : m.kind = "posfile" /\ t.path = m.path
    BY <1>2, <1>3 DEF TaskOK, Reading
  <2>3. MechanismShape(side, m)
    BY <1>3 DEF SideShape, Mechanisms
  <2> DEFINE groups == side.content[t.path.id]
  <2>4. groups \in Seq(Range(groups))
    BY <2>2, <2>3 DEF MechanismShape
  <2>5. DOMAIN groups \subseteq Nat
    <3> HIDE DEF groups
    <3> QED
      BY <2>4
  <2>6. old.left \in SUBSET Nat
    BY <2>1, <2>5
  <2>7. \E x \in old.left : \A y \in old.left : x <= y
    <3> HIDE DEF old
    <3> QED
      BY <1>2, <2>6, LeastNumber
  <2> QED
    BY <2>7 DEF Min
<1>6. tasks'[s] = [tasks[s] EXCEPT ![t] = [old EXCEPT !.left = old.left \ {g}, !.found = found]]
  <2> HIDE DEF g, found
  <2> QED
    BY <1>1, <1>2
<1>7. [old EXCEPT !.left = old.left \ {g}, !.found = found] = r
  <2>1. old = [at |-> "decoding", left |-> old.left, found |-> old.found]
    <3> HIDE DEF old, side
    <3> QED
      BY <1>2, <1>3 DEF TaskOK
  <2> DEFINE rest == old.left \ {g}  have == old.found
             mid == [at |-> "decoding", left |-> rest, found |-> have]
  <2>2. [old EXCEPT !.left = rest] = mid
    <3> HIDE DEF rest, old
    <3> QED
      BY <2>1
  <2>3. [mid EXCEPT !.found = found] = [at |-> "decoding", left |-> rest, found |-> found]
    <3> HIDE DEF rest, have, found
    <3> QED
      OBVIOUS
  <2> HIDE DEF g, found, old
  <2> QED
    BY <2>2, <2>3
<1>8. r.at = old.at /\ r.left = old.left \ {g} /\ r.found = found /\ r.at = "decoding"
  <2> HIDE DEF old, g, found
  <2> QED
    BY <1>2
<1> HIDE DEF r
<1>9. TaskMoves(s, t, r)
  <2>1. \A o \in Sides \ {s} : tasks'[o] = tasks[o]
    BY <1>1, <1>2
  <2> HIDE DEF g, found, old
  <2>2. Updated(tasks[s], t, r, tasks'[s])
    BY <1>6, <1>7 DEF Updated
  <2> QED
    BY <1>2, <2>1, <2>2 DEF TaskMoves
<1>10. Progress(side, t, r)
  <2>1. t.op # "vector" /\ old.at # "done"
    BY <1>2
  <2> HIDE DEF g, old, side
  <2> QED
    BY <1>2, <1>4, <1>5, <1>8, <2>1, BatchProgress
<1>11. TaskCollect(Side(s), stage[s], t, r, sets[s], plans[s])
  BY <1>3, <1>10 DEF TaskCollect
<1> QED
  BY <1>2, <1>9, <1>11, TaskCollected

\* EndDecode: a read that has decoded its row groups has found its share.
LEMMA EndDecodeCollected ==
  ASSUME IInv, Collected, NEW s \in Sides, NEW t \in DOMAIN tasks[s], EndDecode(s, t), ~Fail
  PROVE  Collected'
<1> DEFINE old == tasks[s][t]
           r == [at |-> "done", left |-> {}, found |-> old.found]
<1>1. /\ t.op \in {"open", "group"} /\ outcome = "running" /\ old.left = {}
      /\ Finish(s, t, old.found, 0)
  BY DEF EndDecode
<1>2. stage[s] \in {"opening", "grouping"}
  BY <1>1, StageOf
<1>3. Progress(Side(s), t, old)
  BY <1>1, <1>2 DEF Collected, CollectOK
<1>4. Progress(Side(s), t, r)
  <2>1. r.left = {} /\ r.found = old.found /\ t.op # "vector"
    BY <1>1
  <2> HIDE DEF r, old
  <2> QED
    BY <1>1, <1>3, <2>1, EndProgress
<1>5. TaskCollect(Side(s), stage[s], t, r, sets[s], plans[s])
  <2> HIDE DEF r
  <2> QED
    BY <1>2, <1>4 DEF TaskCollect
<1> HIDE DEF old
<1> QED
  BY <1>1, <1>5, FinishCollected

\* DecodeVectors: a read of vectors ends with what they hold.
LEMMA DecodeVectorsCollected ==
  ASSUME IInv, Collected, NEW s \in Sides, NEW t \in DOMAIN tasks[s], DecodeVectors(s, t), ~Fail
  PROVE  Collected'
<1> DEFINE found == decode_vectors(t.members)
           r == [at |-> "done", left |-> {}, found |-> found]
<1>1. /\ t.op = "vector" /\ outcome = "running" /\ \A m \in t.members : Decodes(m)
      /\ Finish(s, t, found, Sizes(found))
  BY DEF DecodeVectors
<1>2. stage[s] \in {"opening", "grouping"}
  BY <1>1, StageOf
<1>3. r.found = found
  OBVIOUS
<1> HIDE DEF r
<1>4. Progress(Side(s), t, r)
  BY <1>1, <1>3, VectorProgress
<1>5. TaskCollect(Side(s), stage[s], t, r, sets[s], plans[s])
  BY <1>2, <1>4 DEF TaskCollect
<1> HIDE DEF found
<1> QED
  BY <1>1, <1>5, FinishCollected DEF r

\* Unite: a file's union is what the sets say of it.
LEMMA UniteCollected ==
  ASSUME IInv, Collected, NEW s \in Sides, NEW t \in DOMAIN tasks[s], Unite(s, t), ~Fail
  PROVE  Collected'
<1> DEFINE f == t.path.id
           found == [x \in {f} |-> Union(s, f)]
           bytes == Size(Union(s, f)) - BytesOf(s, f)
           r == [at |-> "done", left |-> {}, found |-> found]
<1>1. t.op = "union" /\ outcome = "running"
  BY DEF Unite
<1>2. Finish(s, t, found, bytes)
  BY Zenon DEF Unite
<1>3. stage[s] = "uniting"
  BY <1>1, StageOf
<1>4. Union(s, f) = UnionIn(sets[s], f)
  BY DEF Union, UnionIn, SetsOf, FoundIn
<1>5. r.found = found
  OBVIOUS
<1> HIDE DEF r
<1>6. TaskCollect(Side(s), stage[s], t, r, sets[s], plans[s])
  <2>1. found = [x \in {t.path.id} |-> UnionIn(sets[s], t.path.id)]
    BY <1>4
  <2> HIDE DEF found
  <2> QED
    BY <1>3, <1>5, <2>1 DEF TaskCollect
<1> HIDE DEF found, bytes
<1> QED
  BY <1>1, <1>2, <1>6, FinishCollected DEF r

\* One more access plan of a side, for what its mechanisms delete.
LEMMA PlanCollectOK ==
  ASSUME NEW side, NEW ts, NEW ss, NEW ps, CollectOK(side, "building", ts, ss, ps),
         NEW f, NEW plan, plan = build_access_plan(EntryFor(side, f).groups, Expected(side, f))
  PROVE  CollectOK(side, "building", ts, ss, WithPlan(ps, f, plan))
<1> DEFINE now == WithPlan(ps, f, plan)
<1>1. DOMAIN now = DOMAIN ps \cup {f} /\ now[f] = plan /\ \A x \in DOMAIN ps : x # f => now[x] = ps[x]
  BY DEF WithPlan
<1> HIDE DEF now
<1>2. ASSUME NEW x \in DOMAIN now PROVE now[x] = build_access_plan(EntryFor(side, x).groups, Expected(side, x))
  <2>1. CASE x = f
    BY <1>1, <2>1
  <2>2. CASE x # f
    <3>1. x \in DOMAIN ps /\ now[x] = ps[x]
      BY <1>1, <2>2
    <3> QED
      BY <3>1 DEF CollectOK
  <2> QED
    BY <2>1, <2>2
<1>3. \A t \in DOMAIN ts : ts[t].at = "done" => t.path.id \in DOMAIN now
  BY <1>1 DEF CollectOK
<1>4. CollectOK(side, "building", ts, ss, now)
  BY <1>2, <1>3 DEF CollectOK
<1> QED
  BY <1>4 DEF now

\* BuildPlan: the plan of a file is built from its union.
LEMMA BuildPlanCollected ==
  ASSUME IInv, Collected, NEW s \in Sides, NEW t \in DOMAIN tasks[s], BuildPlan(s, t), ~Fail
  PROVE  Collected'
<1> DEFINE side == Side(s)
           f == t.path.id
           plan == build_access_plan(Entry(s, f).groups, Union(s, f))
           old == tasks[s][t]
           r == [at |-> "done", left |-> old.left, found |-> old.found]
           ps == WithPlan(plans[s], f, plan)
<1>0. DOMAIN tasks = Sides /\ DOMAIN plans = Sides
  BY DEF IInv, Shape
<1>1. /\ t.op = "plan" /\ outcome = "running"
      /\ tasks' = [tasks EXCEPT ![s][t].at = "done"]
      /\ plans' = [plans EXCEPT ![s] = [x \in DOMAIN @ \cup {f} |-> IF x = f THEN plan ELSE @[x]]]
      /\ UNCHANGED <<call, outcome, stage, sets>>
  BY DEF BuildPlan
<1>2. stage[s] = "building" /\ TaskOK(side, stage[s], t, old, plans[s])
  BY <1>1, StageOf
<1>3. f \in Assigned(side)
  BY <1>1, <1>2 DEF TaskOK
<1>4. CollectOK(side, "building", tasks[s], sets[s], plans[s])
  BY <1>1, <1>2 DEF Collected
<1>5. Union(s, f) = Expected(side, f)
  <2>1. Union(s, f) = UnionIn(sets[s], f)
    BY DEF Union, UnionIn, SetsOf, FoundIn
  <2>2. UnionIn(sets[s], f) = Expected(side, f)
    BY <1>3, <1>4 DEF CollectOK
  <2> QED
    BY <2>1, <2>2
<1>6. Entry(s, f) = EntryFor(side, f)
  BY DEF Entry, EntryFor
<1>7. plan = build_access_plan(EntryFor(side, f).groups, Expected(side, f))
  BY <1>5, <1>6
<1>8. plans'[s] = ps /\ \A o \in Sides \ {s} : plans'[o] = plans[o]
  <2> HIDE DEF plan, f
  <2> QED
    BY <1>0, <1>1 DEF WithPlan
<1>9. CollectOK(side, "building", tasks[s], sets[s], ps)
  <2> DEFINE ts == tasks[s]  ss == sets[s]  qs == plans[s]
  <2> HIDE DEF plan, side, f, ts, ss, qs
  <2>1. CollectOK(side, "building", ts, ss, qs)
    BY <1>4 DEF ts, ss, qs
  <2>2. CollectOK(side, "building", ts, ss, WithPlan(qs, f, plan))
    BY <1>7, <2>1, PlanCollectOK
  <2> QED
    BY <2>2 DEF ts, ss, qs
<1>10. f \in DOMAIN ps
  BY DEF WithPlan
<1>11. Updated(tasks[s], t, r, tasks'[s]) /\ \A o \in Sides \ {s} : tasks'[o] = tasks[o]
  <2>1. old = [at |-> old.at, left |-> old.left, found |-> old.found]
    BY <1>2 DEF TaskOK
  <2>2. tasks'[s] = [tasks[s] EXCEPT ![t] = [old EXCEPT !.at = "done"]]
    BY <1>0, <1>1
  <2>3. [old EXCEPT !.at = "done"] = r
    <3> HIDE DEF old
    <3> QED
      BY <2>1
  <2>4. \A o \in Sides \ {s} : tasks'[o] = tasks[o]
    BY <1>0, <1>1
  <2> HIDE DEF r, old
  <2> QED
    BY <2>2, <2>3, <2>4 DEF Updated
<1> HIDE DEF r, ps, plan
<1>12. CollectOK(side, "building", tasks'[s], sets[s], ps)
  <2> DEFINE ts == tasks[s]  ss == sets[s]  now == tasks'[s]
  <2>1. TaskCollect(side, "building", t, r, ss, ps)
    BY <1>10 DEF TaskCollect
  <2>2. Updated(ts, t, r, now) /\ t \in DOMAIN ts /\ CollectOK(side, "building", ts, ss, ps)
    BY <1>9, <1>11
  <2> HIDE DEF ts, ss, now, side
  <2>3. CollectOK(side, "building", now, ss, ps)
    BY <2>1, <2>2, TaskCollectOK
  <2> QED
    BY <2>3 DEF now, ss
<1>13. stage'[s] = "building" /\ sets'[s] = sets[s]
  BY <1>1, <1>2
<1>14. CollectOK(Side(s), stage'[s], tasks'[s], sets'[s], plans'[s])
  BY <1>8, <1>12, <1>13
<1>15. OthersKept(s)
  BY <1>1, <1>8, <1>11 DEF OthersKept
<1> QED
  BY <1>1, <1>14, <1>15, SideCollected

-----------------------------------------------------------------------------
\* A new task has found nothing.
LEMMA NewTaskIs ==
  ASSUME NEW new, NEW left, NEW t \in new
  PROVE  /\ NewTasks(new, left)[t].at # "done" /\ NewTasks(new, left)[t].left = left[t]
         /\ NewTasks(new, left)[t].found = NoSets
         /\ DOMAIN NewTasks(new, left) = new
BY DEF NewTasks

\* The first stage spawns the opens and the vector reads.
LEMMA StartCollectOK ==
  ASSUME NEW side, SideShape(side), Applicable(side), NEW ps, DOMAIN ps = {}, NEW ss, NEW left,
         \A t \in FirstReads(side) : left[t] = IF t.op = "open" THEN InTail(side, t.path) ELSE {}
  PROVE  CollectOK(side, "opening", NewTasks(FirstReads(side), left), ss, ps)
<1> DEFINE new == FirstReads(side)
           ts == NewTasks(new, left)
<1>1. ASSUME NEW t \in new PROVE Progress(side, t, ts[t])
  <2>1. ts[t].at # "done" /\ ts[t].left = left[t] /\ ts[t].found = NoSets
    <3> HIDE DEF new
    <3> QED
      BY NewTaskIs
  <2>2. t.op # "vector" => t.op = "open"
    BY ReadsOf
  <2>3. t.op # "vector" => left[t] = GroupsFor(side, t)
    BY <2>2 DEF GroupsFor
  <2> HIDE DEF ts
  <2> QED
    BY <2>1, <2>3, NewProgress
<1>2. DOMAIN ts = new
  BY DEF NewTasks
<1> HIDE DEF ts
<1>3. CollectOK(side, "opening", ts, ss, ps)
  BY <1>1, <1>2 DEF CollectOK
<1> QED
  BY <1>3 DEF ts

\* The second stage reads the row groups that are left, knowing what the first found.
LEMMA RowGroupsCollectOK ==
  ASSUME NEW side, SideShape(side), NEW ts, NEW old, NEW ps, CollectOK(side, "opening", ts, old, ps),
         \A t \in DOMAIN ts : ts[t].at = "done",
         NEW left, \A t \in row_group_reads(side) : left[t] = {t.group}
  PROVE  CollectOK(side, "grouping", NewTasks(row_group_reads(side), left), Gathered(ts), ps)
<1> DEFINE new == row_group_reads(side)
           now == NewTasks(new, left)
<1>1. /\ Applicable(side) /\ DOMAIN ts = FirstReads(side)
      /\ \A t \in DOMAIN ts : Progress(side, t, ts[t]) /\ ts[t].at = "done"
      /\ \A f \in DOMAIN ps : ps[f] = build_access_plan(EntryFor(side, f).groups, Expected(side, f))
  BY DEF CollectOK
<1>2. Accepted(side, FirstReads(side))
  BY <1>1, DoneAccepted
<1>3. \A f \in Assigned(side) : UnionIn(Gathered(ts), f) = Shares(side, FirstReads(side), f)
  BY <1>1, GatheredShares
<1>4. ASSUME NEW t \in new PROVE Progress(side, t, now[t])
  <2>1. now[t].at # "done" /\ now[t].left = left[t] /\ now[t].found = NoSets
    <3> HIDE DEF new
    <3> QED
      BY NewTaskIs
  <2>2. t.op = "group"
    BY ReadsOf
  <2>3. left[t] = GroupsFor(side, t)
    BY <2>2 DEF GroupsFor
  <2> HIDE DEF now
  <2> QED
    BY <2>1, <2>3, NewProgress
<1>5. DOMAIN now = new
  BY DEF NewTasks
<1> HIDE DEF now
<1>6. CollectOK(side, "grouping", now, Gathered(ts), ps)
  BY <1>1, <1>2, <1>3, <1>4, <1>5 DEF CollectOK
<1> QED
  BY <1>6 DEF now

\* All reads are in: together they found what the mechanisms delete.
LEMMA UnionsCollectOK ==
  ASSUME NEW side, SideShape(side), NEW ts, NEW ss, NEW ps, CollectOK(side, "grouping", ts, ss, ps),
         \A t \in DOMAIN ts : ts[t].at = "done",
         NEW all, all = ss \cup Gathered(ts), NEW p, Names(all, p), NEW left
  PROVE  /\ CollectOK(side, "uniting", NewTasks(UnionTasks(all, p), left), all, ps)
         /\ Applied(side)
<1> DEFINE new == UnionTasks(all, p)
           now == NewTasks(new, left)
<1>1. /\ Applicable(side) /\ Accepted(side, FirstReads(side)) /\ DOMAIN ts = row_group_reads(side)
      /\ \A t \in DOMAIN ts : Progress(side, t, ts[t]) /\ ts[t].at = "done"
      /\ \A f \in DOMAIN ps : ps[f] = build_access_plan(EntryFor(side, f).groups, Expected(side, f))
      /\ \A f \in Assigned(side) : UnionIn(ss, f) = Shares(side, FirstReads(side), f)
  BY DEF CollectOK
<1>2. Applied(side)
  <2>1. Accepted(side, row_group_reads(side))
    BY <1>1, DoneAccepted
  <2> QED
    BY <1>1, <2>1, SharesJoin DEF Applied
<1>3. ASSUME NEW f \in Assigned(side) PROVE UnionIn(all, f) = Expected(side, f)
  <2>1. UnionIn(Gathered(ts), f) = Shares(side, row_group_reads(side), f)
    BY <1>1, GatheredShares
  <2>2. UnionIn(all, f) = UnionIn(ss, f) \cup UnionIn(Gathered(ts), f)
    <3> DEFINE G == Gathered(ts)
    <3> HIDE DEF G
    <3>1. Together(ss, G, f)
      BY UnionJoin
    <3>2. all = ss \cup G
      BY DEF G
    <3> QED
      BY <3>1, <3>2 DEF Together, G
  <2>3. Expected(side, f) = Shares(side, FirstReads(side), f) \cup Shares(side, row_group_reads(side), f)
    <3> DEFINE A == FirstReads(side)
               B == row_group_reads(side)
    <3> HIDE DEF A, B
    <3>1. Shares(side, A \cup B, f) = Shares(side, A, f) \cup Shares(side, B, f)
      BY DEF Shares
    <3> QED
      BY <3>1 DEF Expected, A, B
  <2>4. UnionIn(ss, f) = Shares(side, FirstReads(side), f)
    BY <1>1
  <2> QED
    BY <2>1, <2>2, <2>3, <2>4
<1>4. DOMAIN now = new /\ \A t \in new : now[t].at # "done"
  <2> HIDE DEF new
  <2> QED
    BY NewTaskIs DEF NewTasks
<1>5. {t.path.id : t \in new} = FilesIn(all)
  <2>1. ASSUME NEW f \in FilesIn(all) PROVE Task("union", p[f]) \in new /\ Task("union", p[f]).path.id = f
    BY DEF UnionTasks, Task, Names
  <2>2. ASSUME NEW t \in new PROVE t.path.id \in FilesIn(all)
    <3>1. PICK f \in FilesIn(all) : t = Task("union", p[f])
      BY DEF UnionTasks
    <3>2. t.path = p[f] /\ p[f].id = f
      BY <3>1 DEF Task, Names
    <3> QED
      BY <3>2
  <2> HIDE DEF new
  <2>3. \A f \in FilesIn(all) : \E t \in new : f = t.path.id
    BY <2>1
  <2> QED
    BY <2>2, <2>3
<1> HIDE DEF new, now
<1>6. CollectOK(side, "uniting", now, all, ps)
  BY <1>1, <1>3, <1>4, <1>5 DEF CollectOK
<1> QED
  BY <1>2, <1>6 DEF now, new

\* The unions are in: a file with deletes gets a plan.
LEMMA PlansCollectOK ==
  ASSUME NEW side, NEW ts, NEW ss, NEW ps, CollectOK(side, "uniting", ts, ss, ps),
         \A t \in DOMAIN ts : ts[t].at = "done", NEW left,
         NEW T, T = {u \in DOMAIN ts : ts[u].found[u.path.id] # {}}
  PROVE  /\ CollectOK(side, "building", NewTasks({Task("plan", t.path) : t \in T}, left), Gathered(ts), ps)
         /\ Gathered(ts) = {} => \A f \in Assigned(side) : Expected(side, f) = {}
<1> DEFINE new == {Task("plan", t.path) : t \in T}
           now == NewTasks(new, left)
<1>1. /\ \A f \in DOMAIN ps : ps[f] = build_access_plan(EntryFor(side, f).groups, Expected(side, f))
      /\ \A f \in Assigned(side) : UnionIn(ss, f) = Expected(side, f)
      /\ {t.path.id : t \in DOMAIN ts} = FilesIn(ss)
      /\ \A t \in DOMAIN ts : ts[t].found = [x \in {t.path.id} |-> UnionIn(ss, t.path.id)]
  BY DEF CollectOK
<1>2. ASSUME NEW f, UnionIn(ss, f) # {} PROVE \E t \in DOMAIN ts : t.path.id = f
  <2>1. PICK r \in FoundIn(ss, f) : TRUE
    BY <1>2 DEF UnionIn
  <2>2. f \in FilesIn(ss)
    BY <2>1 DEF FoundIn, FilesIn
  <2> QED
    BY <1>1, <2>2
<1>3. ASSUME NEW t \in DOMAIN ts, NEW f
      PROVE  Lookup(ts[t].found, f) = IF f = t.path.id THEN UnionIn(ss, f) ELSE {}
  <2>1. ts[t].found = [x \in {t.path.id} |-> UnionIn(ss, t.path.id)]
    BY <1>1
  <2> QED
    BY <2>1 DEF Lookup
<1>4. ASSUME NEW f PROVE UnionIn(Gathered(ts), f) = UnionIn(ss, f)
  <2>1. UnionIn(Gathered(ts), f) = UNION {Lookup(ts[t].found, f) : t \in DOMAIN ts}
    BY GatheredUnion
  <2> DEFINE L == [t \in DOMAIN ts |-> Lookup(ts[t].found, f)]
             U == UnionIn(ss, f)
  <2>2. \A t \in DOMAIN ts : L[t] = IF f = t.path.id THEN U ELSE {}
    BY <1>3
  <2>3. U # {} => \E t \in DOMAIN ts : t.path.id = f
    BY <1>2
  <2>4. UNION {Lookup(ts[t].found, f) : t \in DOMAIN ts} = UNION {L[t] : t \in DOMAIN ts}
    OBVIOUS
  <2> HIDE DEF L, U
  <2>5. UNION {L[t] : t \in DOMAIN ts} = U
    BY <2>2, <2>3
  <2> QED
    BY <2>1, <2>4, <2>5 DEF U
<1>5. ASSUME NEW f \in Assigned(side), Expected(side, f) # {} PROVE \E u \in new : u.path.id = f
  <2>1. UnionIn(ss, f) # {}
    BY <1>1, <1>5
  <2>2. PICK t \in DOMAIN ts : t.path.id = f
    BY <1>2, <2>1
  <2>3. ts[t].found = [x \in {t.path.id} |-> UnionIn(ss, t.path.id)]
    BY <1>1
  <2>4. ts[t].found[t.path.id] # {}
    BY <2>1, <2>2, <2>3
  <2>5. Task("plan", t.path) \in new /\ Task("plan", t.path).path = t.path
    BY <2>4 DEF Task
  <2> HIDE DEF new
  <2> QED
    BY <2>2, <2>5
<1>6. DOMAIN now = new /\ \A t \in new : now[t].at # "done"
  <2> HIDE DEF new
  <2> QED
    BY NewTaskIs DEF NewTasks
<1>7. ASSUME Gathered(ts) = {}, NEW f \in Assigned(side) PROVE Expected(side, f) = {}
  <2>1. UnionIn({}, f) = {}
    BY DEF UnionIn, FoundIn
  <2>2. UnionIn(ss, f) = {}
    BY <1>4, <1>7, <2>1
  <2> QED
    BY <1>1, <2>2
<1> HIDE DEF now, new
<1>8. CollectOK(side, "building", now, Gathered(ts), ps)
  BY <1>1, <1>4, <1>5, <1>6 DEF CollectOK
<1> QED
  BY <1>7, <1>8 DEF now, new

\* The plans are in.
LEMMA ReadyCollectOK ==
  ASSUME NEW side, NEW ts, NEW ss, NEW ps, CollectOK(side, "building", ts, ss, ps),
         \A t \in DOMAIN ts : ts[t].at = "done", NEW now, NEW rest
  PROVE  CollectOK(side, "ready", now, rest, ps)
<1>1. ASSUME NEW f \in Assigned(side), Expected(side, f) # {} PROVE f \in DOMAIN ps
  BY <1>1 DEF CollectOK
<1> QED
  BY <1>1 DEF CollectOK

-----------------------------------------------------------------------------
\* The stream is where it was.
LEMMA StreamedSame ==
  ASSUME Streamed, UNCHANGED <<call, stage, emitted, todo>>, outcome' = "done" => outcome = "done"
  PROVE  Streamed'
<1>1. Sides' = Sides /\ \A s : Side(s)' = Side(s)
  BY DEF Sides, Side
<1>2. \A s \in Sides : stage'[s] \in Planned => Applied(Side(s)')
  BY <1>1 DEF Streamed
<1>3. \A s \in Sides : stage'[s] = "streaming" => StreamOK(Side(s)', emitted'[s], todo'[s])
  BY <1>1 DEF Streamed
<1> QED
  BY <1>1, <1>2, <1>3 DEF Streamed

\* Nothing is collected.
LEMMA CollectedSame ==
  ASSUME Collected, UNCHANGED <<call, stage, tasks, sets, plans>>, outcome' # "failed" => outcome # "failed"
  PROVE  Collected'
<1>1. Sides' = Sides /\ \A s : Side(s)' = Side(s)
  BY DEF Sides, Side
<1>2. ASSUME outcome' # "failed", NEW s \in Sides
      PROVE  CollectOK(Side(s)', stage'[s], tasks'[s], sets'[s], plans'[s])
  <2>1. CollectOK(Side(s), stage[s], tasks[s], sets[s], plans[s])
    BY <1>2 DEF Collected
  <2> QED
    BY <1>1, <2>1
<1> QED
  BY <1>1, <1>2 DEF Collected

\* A call that fails, or has failed.
LEMMA FailedLive ==
  ASSUME LInv, UNCHANGED <<call, stage, emitted, todo>>, outcome' = "failed"
  PROVE  LInv'
<1>1. Collected'
  BY DEF Collected
<1>2. Streamed'
  BY StreamedSame DEF LInv
<1> QED
  BY <1>1, <1>2 DEF LInv

\* A step that fails the call.
LEMMA FailLive ==
  ASSUME LInv, Fail
  PROVE  LInv'
BY FailedLive DEF Fail

\* A side that enters a stage before the stream.
LEMMA StageLive ==
  ASSUME IInv, LInv, outcome = "running", NEW s \in Sides, stage[s] # "streaming",
         NEW next, next # "streaming", NEW ts, NEW ss, StageChange(s, next, ts, ss),
         CollectOK(Side(s), next, ts, ss, plans[s]), next \in Planned => Applied(Side(s)),
         UNCHANGED <<emitted, todo>>
  PROVE  LInv'
<1>1. DOMAIN stage = Sides
  BY SideFacts
<1>2. /\ stage'[s] = next /\ tasks'[s] = ts /\ sets'[s] = ss /\ plans'[s] = plans[s]
      /\ call' = call /\ outcome' = outcome
      /\ \A o \in Sides \ {s} : stage'[o] = stage[o] /\ tasks'[o] = tasks[o] /\ sets'[o] = sets[o]
                                /\ plans'[o] = plans[o]
  BY <1>1 DEF StageChange
<1>3. Collected'
  <2>1. CollectOK(Side(s), stage'[s], tasks'[s], sets'[s], plans'[s])
    BY <1>2
  <2>2. OthersKept(s)
    BY <1>2 DEF OthersKept
  <2> QED
    BY <2>1, <2>2, SideCollected DEF LInv
<1>4. Sides' = Sides /\ \A o : Side(o)' = Side(o)
  BY <1>2 DEF Sides, Side
<1>5. \A o \in Sides : emitted'[o] = {}
  BY DEF LInv, Streamed
<1>6. \A o \in Sides : stage'[o] \in Planned => Applied(Side(o)')
  BY <1>2, <1>4 DEF LInv, Streamed
<1>7. \A o \in Sides : stage'[o] = "streaming" => StreamOK(Side(o)', emitted'[o], todo'[o])
  <2>1. ASSUME NEW o \in Sides, stage'[o] = "streaming" PROVE StreamOK(Side(o)', emitted'[o], todo'[o])
    <3>1. stage[o] = "streaming"
      BY <1>2, <2>1
    <3>2. StreamOK(Side(o), emitted[o], todo[o])
      BY <3>1 DEF LInv, Streamed
    <3> QED
      BY <1>4, <3>2
  <2> QED
    BY <2>1
<1>8. outcome' # "done" /\ \A o \in Sides : stage'[o] # "streaming"
  BY <1>2 DEF LInv, Streamed
<1>9. Streamed'
  BY <1>4, <1>5, <1>6, <1>7, <1>8 DEF Streamed
<1> QED
  BY <1>3, <1>9 DEF LInv

\* RegisterFileList collects nothing.
LEMMA RegisterFileListLive ==
  ASSUME IInv, LInv, NEW s \in Sides, RegisterFileList(s)
  PROVE  LInv'
<1>1. CASE Fail
  BY <1>1, FailLive
<1>2. CASE ~Fail
  <2>1. /\ outcome = "running" /\ stage[s] = "registering"
        /\ stage' = [stage EXCEPT ![s] = "registered"]
        /\ UNCHANGED <<call, outcome, tasks, sets, plans, reserved, asked, emitted, todo, faults>>
    BY <1>2 DEF RegisterFileList, Enter
  <2> DEFINE ts == tasks[s]  ss == sets[s]
  <2>2. StageChange(s, "registered", ts, ss)
    BY <2>1, SideFacts DEF StageChange
  <2>3. CollectOK(Side(s), "registered", ts, ss, plans[s])
    <3>1. CollectOK(Side(s), "registering", ts, ss, plans[s])
      BY <2>1 DEF LInv, Collected
    <3> HIDE DEF ts, ss
    <3> QED
      BY <3>1 DEF CollectOK
  <2>4. "registered" \notin Planned
    BY DEF Planned
  <2> HIDE DEF ts, ss
  <2> QED
    BY <2>1, <2>2, <2>3, <2>4, StageLive
<1> QED
  BY <1>1, <1>2

\* StartPartitionedFiles: the first reads have everything to find, or there is nothing to.
LEMMA StartPartitionedFilesLive ==
  ASSUME IInv, LInv, NEW s \in Sides, StartPartitionedFiles(s)
  PROVE  LInv'
<1> DEFINE side == Side(s)
           reads == FirstReads(side)
           left == [t \in reads |-> IF t.op = "open" THEN InTail(side, t.path) ELSE {}]
           ps == plans[s]
<1>0. outcome = "running" /\ stage[s] = "registered" /\ stage[s] # "streaming"
  BY DEF StartPartitionedFiles
<1>1. /\ SideShape(side) /\ SideInv(side, "registered", tasks[s], sets[s], ps)
      /\ DOMAIN tasks = Sides /\ DOMAIN sets = Sides /\ DOMAIN reserved = Sides
  BY <1>0, SideFacts
<1>2. DOMAIN ps = {}
  <2> HIDE DEF ps, side
  <2> QED
    BY <1>1 DEF SideInv
<1>3. CASE Fail
  BY <1>3, FailLive
<1>4. CASE /\ Mechanisms(side) = {}
           /\ Enter(s, "ready")
           /\ UNCHANGED <<call, outcome, tasks, sets, plans, reserved, asked, emitted, todo, faults>>
  <2> DEFINE ts == tasks[s]  ss == sets[s]
  <2>1. StageChange(s, "ready", ts, ss)
    BY <1>1, <1>4 DEF StageChange, Enter
  <2>2. Applied(side) /\ \A f : Expected(side, f) = {}
    BY <1>1, <1>4, NoMechanisms
  <2>3. CollectOK(side, "ready", ts, ss, ps)
    <3> HIDE DEF ts, ss, ps, side
    <3> QED
      BY <1>2, <2>2 DEF CollectOK
  <2> HIDE DEF ts, ss
  <2> QED
    BY <1>0, <1>4, <2>1, <2>2, <2>3, StageLive
<1>5. CASE /\ Applicable(side)
           /\ Spawn(s, reads, left)
           /\ Enter(s, "opening")
           /\ UNCHANGED <<call, outcome, sets, plans, reserved, asked, emitted, todo, faults>>
  <2> DEFINE ts == NewTasks(reads, left)  ss == sets[s]
  <2>1. tasks'[s] = ts /\ DOMAIN tasks' = Sides /\ \A o \in Sides \ {s} : tasks'[o] = tasks[o]
    <3> HIDE DEF reads, left
    <3> QED
      BY <1>1, <1>5, SpawnIs
  <2>2. CollectOK(side, "opening", ts, ss, ps)
    <3>1. \A t \in FirstReads(side) : left[t] = IF t.op = "open" THEN InTail(side, t.path) ELSE {}
      OBVIOUS
    <3> HIDE DEF left, side, ps, ss
    <3> QED
      BY <1>1, <1>2, <1>5, <3>1, StartCollectOK
  <2>3. "opening" \notin Planned
    BY DEF Planned
  <2> HIDE DEF ts
  <2>4. StageChange(s, "opening", ts, ss)
    BY <1>1, <1>5, <2>1 DEF StageChange, Enter
  <2> HIDE DEF ss
  <2> QED
    BY <1>0, <1>5, <2>2, <2>3, <2>4, StageLive
<1> QED
  BY <1>3, <1>4, <1>5, Zenon DEF StartPartitionedFiles, FirstReads, Applicable

-----------------------------------------------------------------------------
\* SpawnRowGroups: the first reads have found their shares.
LEMMA SpawnRowGroupsLive ==
  ASSUME IInv, LInv, NEW s \in Sides, SpawnRowGroups(s)
  PROVE  LInv'
<1> DEFINE side == Side(s)
           new == row_group_reads(side)
           left == [t \in new |-> {t.group}]
           ts == NewTasks(new, left)
           old == tasks[s]
           ss == Gathered(old)
           ps == plans[s]
<1>1. /\ outcome = "running" /\ stage[s] = "opening" /\ AllDone(s)
      /\ sets' = [sets EXCEPT ![s] = ss]
      /\ Spawn(s, new, left)
      /\ stage' = [stage EXCEPT ![s] = "grouping"]
      /\ UNCHANGED <<call, outcome, plans, reserved, asked, emitted, todo, faults>>
  BY DEF SpawnRowGroups, Gathered, Enter
<1>2. /\ SideShape(side) /\ DOMAIN tasks = Sides /\ DOMAIN sets = Sides /\ DOMAIN reserved = Sides
      /\ DOMAIN stage = Sides
  BY <1>1, SideFacts
<1>3. CollectOK(side, "opening", old, sets[s], ps) /\ \A t \in DOMAIN old : old[t].at = "done"
  BY <1>1 DEF LInv, Collected, AllDone
<1>4. CollectOK(side, "grouping", ts, ss, ps)
  <2>1. \A t \in row_group_reads(side) : left[t] = {t.group}
    OBVIOUS
  <2> HIDE DEF left, side, ps, old
  <2> QED
    BY <1>2, <1>3, <2>1, RowGroupsCollectOK
<1>5. StageChange(s, "grouping", ts, ss)
  <2>1. tasks'[s] = ts /\ DOMAIN tasks' = Sides /\ \A o \in Sides \ {s} : tasks'[o] = tasks[o]
    <3> HIDE DEF new, left
    <3> QED
      BY <1>1, <1>2, SpawnIs
  <2> HIDE DEF ts, ss
  <2> QED
    BY <1>1, <1>2, <2>1 DEF StageChange
<1>6. "grouping" \notin Planned
  BY DEF Planned
<1> HIDE DEF ts, ss
<1> QED
  BY <1>1, <1>4, <1>5, <1>6, StageLive

\* SpawnUnions: every read has found its share, and nothing was left unapplied.
LEMMA SpawnUnionsLive ==
  ASSUME IInv, LInv, NEW s \in Sides, SpawnUnions(s)
  PROVE  LInv'
<1> DEFINE side == Side(s)
           old == tasks[s]
           ss == sets[s]
           all == ss \cup Gathered(old)
           p == [f \in FilesIn(all) |-> Entry(s, f).path]
           new == UnionTasks(all, p)
           left == Nothing(new)
           ts == NewTasks(new, left)
           ps == plans[s]
           unions == {Task("union", Entry(s, f).path) : f \in FilesIn(all)}
<1>0. new = unions
  BY DEF UnionTasks
<1>1. /\ outcome = "running" /\ stage[s] = "grouping" /\ AllDone(s)
      /\ sets' = [sets EXCEPT ![s] = all]
      /\ Spawn(s, unions, Nothing(unions))
      /\ stage' = [stage EXCEPT ![s] = "uniting"]
      /\ UNCHANGED <<call, outcome, plans, reserved, asked, emitted, todo, faults>>
  BY DEF SpawnUnions, Gathered, Enter, FilesIn
<1>2. /\ SideShape(side) /\ SideInv(side, "grouping", old, ss, ps)
      /\ DOMAIN tasks = Sides /\ DOMAIN sets = Sides /\ DOMAIN reserved = Sides /\ DOMAIN stage = Sides
  BY <1>1, SideFacts
<1>3. CollectOK(side, "grouping", old, ss, ps) /\ \A t \in DOMAIN old : old[t].at = "done"
  BY <1>1 DEF LInv, Collected, AllDone
<1>4. FilesIn(all) \subseteq Assigned(side)
  <2> DEFINE G == Gathered(old)
  <2>1. \A r \in ss : FoundOK(side, r.found)
    BY <1>2 DEF SideInv, SetOK
  <2>2. \A r \in G : FoundOK(side, r.found)
    <3>1. IsFiniteSet(DOMAIN old) /\ \A t \in DOMAIN old : FoundOK(side, old[t].found)
      BY <1>2 DEF SideInv, TaskOK
    <3> HIDE DEF old, side
    <3> QED
      BY <1>2, <3>1, GatheredInv
  <2> HIDE DEF G, side, ss, old
  <2>3. all = ss \cup G
    BY DEF G
  <2> QED
    BY <2>1, <2>2, <2>3 DEF FilesIn, FoundOK
<1>5. Names(all, p)
  <2>1. ASSUME NEW f \in FilesIn(all) PROVE p[f].id = f
    <3>1. Entry(s, f).path.id = f
      BY <1>4, EntryOf
    <3> HIDE DEF all
    <3> QED
      BY <3>1
  <2> HIDE DEF all, p
  <2> QED
    BY <2>1 DEF Names
<1>6. CollectOK(side, "uniting", ts, all, ps) /\ Applied(side)
  <2>1. all = ss \cup Gathered(old)
    OBVIOUS
  <2> HIDE DEF side, p, left, ps, old, ss, all
  <2> QED
    BY <1>2, <1>3, <1>5, <2>1, UnionsCollectOK
<1>7. StageChange(s, "uniting", ts, all)
  <2>1. tasks'[s] = ts /\ DOMAIN tasks' = Sides /\ \A o \in Sides \ {s} : tasks'[o] = tasks[o]
    <3>1. Spawn(s, new, left)
      <4> HIDE DEF new, unions
      <4> QED
        BY <1>0, <1>1
    <3> HIDE DEF new, left
    <3> QED
      BY <1>2, <3>1, SpawnIs
  <2> HIDE DEF ts, all
  <2> QED
    BY <1>1, <1>2, <2>1 DEF StageChange
<1> HIDE DEF ts, all
<1> QED
  BY <1>1, <1>6, <1>7, StageLive

\* SpawnPlans: the files with deletes get a plan.
LEMMA SpawnPlansLive ==
  ASSUME IInv, LInv, NEW s \in Sides, SpawnPlans(s)
  PROVE  LInv'
<1> DEFINE side == Side(s)
           old == tasks[s]
           G == Gathered(old)
           T == {u \in DOMAIN old : old[u].found[u.path.id] # {}}
           new == {Task("plan", t.path) : t \in T}
           left == Nothing(new)
           ts == NewTasks(new, left)
           ps == plans[s]
<1>1. /\ outcome = "running" /\ stage[s] = "uniting" /\ AllDone(s)
      /\ sets' = [sets EXCEPT ![s] = G]
      /\ IF G = {}
         THEN /\ tasks' = [tasks EXCEPT ![s] = <<>>]
              /\ reserved' = [reserved EXCEPT ![s] = 0]
              /\ Enter(s, "ready")
         ELSE /\ Spawn(s, new, left)
              /\ Enter(s, "building")
              /\ UNCHANGED reserved
      /\ UNCHANGED <<call, outcome, plans, asked, emitted, todo, faults>>
  BY Zenon DEF SpawnPlans, Gathered
<1>2. DOMAIN tasks = Sides /\ DOMAIN sets = Sides /\ DOMAIN reserved = Sides /\ DOMAIN stage = Sides
  BY <1>1, SideFacts
<1>3. CollectOK(side, "uniting", old, sets[s], ps) /\ \A t \in DOMAIN old : old[t].at = "done"
  BY <1>1 DEF LInv, Collected, AllDone
<1>4. /\ CollectOK(side, "building", ts, G, ps)
      /\ G = {} => \A f \in Assigned(side) : Expected(side, f) = {}
  <2>1. T = {u \in DOMAIN old : old[u].found[u.path.id] # {}}
    OBVIOUS
  <2> HIDE DEF side, T, ps, left, old
  <2> QED
    BY <1>3, <2>1, PlansCollectOK
<1>5. Applied(side) /\ outcome = "running" /\ stage[s] # "streaming" /\ UNCHANGED <<emitted, todo>>
  BY <1>1 DEF LInv, Streamed, Planned
<1>6. CASE G = {}
  <2> DEFINE none == <<>>
  <2>1. CollectOK(side, "ready", none, {}, ps)
    <3> HIDE DEF none, side, ps, G, ts
    <3> QED
      BY <1>4, <1>6 DEF CollectOK
  <2>2. tasks' = [tasks EXCEPT ![s] = none] /\ reserved' = [reserved EXCEPT ![s] = 0]
        /\ stage' = [stage EXCEPT ![s] = "ready"] /\ sets' = [sets EXCEPT ![s] = {}]
    BY <1>1, <1>6 DEF Enter
  <2> HIDE DEF none
  <2>3. StageChange(s, "ready", none, {})
    BY <1>1, <1>2, <2>2 DEF StageChange
  <2> QED
    BY <1>5, <2>1, <2>3, StageLive
<1>7. CASE G # {}
  <2>1. Spawn(s, new, left) /\ stage' = [stage EXCEPT ![s] = "building"] /\ reserved' = reserved
    <3> HIDE DEF new, left, G
    <3> QED
      BY <1>1, <1>7 DEF Enter
  <2>2. StageChange(s, "building", ts, G)
    <3>1. tasks'[s] = ts /\ DOMAIN tasks' = Sides /\ \A o \in Sides \ {s} : tasks'[o] = tasks[o]
      <4> HIDE DEF new, left
      <4> QED
        BY <1>2, <2>1, SpawnIs
    <3>2. sets' = [sets EXCEPT ![s] = G] /\ call' = call /\ outcome' = outcome /\ plans' = plans
      BY <1>1
    <3> HIDE DEF ts, G
    <3> QED
      BY <1>2, <2>1, <3>1, <3>2 DEF StageChange
  <2> HIDE DEF ts, G
  <2> QED
    BY <1>4, <1>5, <2>2, StageLive
<1> QED
  BY <1>6, <1>7

\* EndPlans: every file with deletes has its plan.
LEMMA EndPlansLive ==
  ASSUME IInv, LInv, NEW s \in Sides, EndPlans(s)
  PROVE  LInv'
<1> DEFINE side == Side(s)  old == tasks[s]  ps == plans[s]  none == <<>>
<1>1. /\ outcome = "running" /\ stage[s] = "building" /\ AllDone(s)
      /\ DOMAIN reserved' = DOMAIN reserved /\ \A o \in DOMAIN reserved \ {s} : reserved'[o] = reserved[o]
      /\ sets' = [sets EXCEPT ![s] = {}]
      /\ tasks' = [tasks EXCEPT ![s] = none]
      /\ stage' = [stage EXCEPT ![s] = "ready"]
      /\ UNCHANGED <<call, outcome, plans, asked, emitted, todo, faults>>
  BY DEF EndPlans, Enter
<1>2. DOMAIN tasks = Sides /\ DOMAIN sets = Sides /\ DOMAIN reserved = Sides /\ DOMAIN stage = Sides
  BY <1>1, SideFacts
<1>3. CollectOK(side, "building", old, sets[s], ps) /\ \A t \in DOMAIN old : old[t].at = "done"
  BY <1>1 DEF LInv, Collected, AllDone
<1>4. Applied(side)
  BY <1>1 DEF LInv, Streamed, Planned
<1> HIDE DEF none
<1>5. CollectOK(side, "ready", none, {}, ps)
  <2> HIDE DEF side, old, ps
  <2> QED
    BY <1>3, ReadyCollectOK
<1>6. StageChange(s, "ready", none, {})
  BY <1>1, <1>2 DEF StageChange
<1> QED
  BY <1>1, <1>4, <1>5, <1>6, StageLive

-----------------------------------------------------------------------------
\* The steps of a task before the stream.
LEMMA TaskLive ==
  ASSUME IInv, LInv, NEW s \in Sides, NEW t \in DOMAIN tasks[s], TaskStep(s, t)
  PROVE  LInv'
<1>1. CASE Fail
  BY <1>1, FailLive
<1>2. CASE Abort(s, t)
  <2>1. outcome' = "failed" /\ UNCHANGED <<call, stage, emitted, todo>>
    BY <1>2 DEF Abort
  <2> QED
    BY <2>1, FailedLive
<1>3. CASE ~Fail /\ Acquire(s, t)
  <2>1. /\ outcome = "running" /\ tasks[s][t].at # "done" /\ "reading" \in {"reading", "decoding"}
        /\ tasks' = [tasks EXCEPT ![s][t].at = "reading"]
        /\ UNCHANGED <<call, outcome, stage, sets, plans>> /\ UNCHANGED <<call, stage, emitted, todo>>
    BY <1>3 DEF Acquire
  <2>2. Collected'
    BY <2>1, MoveCollected DEF LInv
  <2>3. Streamed'
    BY <2>1, StreamedSame DEF LInv
  <2> QED
    BY <2>2, <2>3 DEF LInv
<1>4. CASE ~Fail /\ Arrive(s, t)
  <2>1. /\ outcome = "running" /\ tasks[s][t].at # "done" /\ "decoding" \in {"reading", "decoding"}
        /\ tasks' = [tasks EXCEPT ![s][t].at = "decoding"]
        /\ UNCHANGED <<call, outcome, stage, sets, plans>> /\ UNCHANGED <<call, stage, emitted, todo>>
    BY <1>4 DEF Arrive
  <2>2. Collected'
    BY <2>1, MoveCollected DEF LInv
  <2>3. Streamed'
    BY <2>1, StreamedSame DEF LInv
  <2> QED
    BY <2>2, <2>3 DEF LInv
<1>5. CASE ~Fail /\ (DecodeBatch(s, t) \/ EndDecode(s, t) \/ DecodeVectors(s, t) \/ Unite(s, t) \/ BuildPlan(s, t))
  <2>1. UNCHANGED <<call, outcome, stage, sets, asked, emitted, todo, faults>>
    BY <1>5 DEF DecodeBatch, EndDecode, DecodeVectors, Unite, BuildPlan, Finish
  <2>2. Collected'
    BY <1>5, DecodeBatchCollected, EndDecodeCollected, DecodeVectorsCollected, UniteCollected,
       BuildPlanCollected DEF LInv
  <2>3. Streamed'
    BY <2>1, StreamedSame DEF LInv
  <2> QED
    BY <2>2, <2>3 DEF LInv
<1> QED
  BY <1>1, <1>2, <1>3, <1>4, <1>5 DEF TaskStep

\* DropProviders: the call has failed.
LEMMA DropProvidersLive ==
  ASSUME LInv, NEW s \in Sides, DropProviders(s)
  PROVE  LInv'
<1>1. outcome' = "failed" /\ UNCHANGED <<call, stage, emitted, todo>>
  BY DEF DropProviders
<1> QED
  BY <1>1, FailedLive

\* Every side enters a stage; what it has collected is what that stage asks for.
LEMMA AllCollected ==
  ASSUME Collected, outcome = "running", NEW st, NEW next, stage' = [s \in Sides |-> next],
         \A s \in Sides : stage[s] = st,
         \A s \in Sides : CollectOK(Side(s), st, tasks[s], sets[s], plans[s]) =>
                          CollectOK(Side(s), next, tasks[s], sets[s], plans[s]),
         UNCHANGED <<call, outcome, tasks, sets, plans>>
  PROVE  Collected'
<1>1. Sides' = Sides /\ \A s : Side(s)' = Side(s)
  BY DEF Sides, Side
<1>2. ASSUME NEW s \in Sides PROVE CollectOK(Side(s)', stage'[s], tasks'[s], sets'[s], plans'[s])
  <2>1. CollectOK(Side(s), st, tasks[s], sets[s], plans[s])
    BY DEF Collected
  <2>2. stage'[s] = next
    OBVIOUS
  <2>3. CollectOK(Side(s), next, tasks[s], sets[s], plans[s])
    BY <2>1
  <2> QED
    BY <1>1, <2>2, <2>3
<1> QED
  BY <1>1, <1>2 DEF Collected

\* BuildSessionContext collects nothing.
LEMMA BuildSessionContextLive ==
  ASSUME IInv, LInv, BuildSessionContext
  PROVE  LInv'
<1>1. CASE Fail
  BY <1>1, FailLive
<1>2. CASE ~Fail
  <2>1. /\ outcome = "running" /\ \A s \in Sides : stage[s] = "unbuilt"
        /\ stage' = [s \in Sides |-> "registering"]
        /\ UNCHANGED <<call, outcome, tasks, sets, plans, reserved, asked, emitted, todo, faults>>
    BY <1>2 DEF BuildSessionContext
  <2>2. Collected'
    <3>1. ASSUME NEW s \in Sides, CollectOK(Side(s), "unbuilt", tasks[s], sets[s], plans[s])
          PROVE  CollectOK(Side(s), "registering", tasks[s], sets[s], plans[s])
      BY <3>1 DEF CollectOK
    <3> QED
      BY <2>1, <3>1, AllCollected DEF LInv
  <2>3. Sides' = Sides /\ 1 \in Sides /\ \A s \in Sides : stage'[s] = "registering"
    BY <2>1, CallFacts DEF Sides, IInv, Shape
  <2>4. \A s \in Sides : emitted'[s] = {}
    BY <2>1, <2>3 DEF LInv, Streamed
  <2>5. Streamed'
    BY <2>1, <2>3, <2>4 DEF Streamed, Planned
  <2> QED
    BY <2>2, <2>5 DEF LInv
<1> QED
  BY <1>1, <1>2

\* StartStream: nothing is emitted yet.
LEMMA StartStreamLive ==
  ASSUME IInv, LInv, StartStream
  PROVE  LInv'
<1>1. /\ outcome = "running" /\ \A s \in Sides : stage[s] = "ready"
      /\ stage' = [s \in Sides |-> "streaming"]
      /\ todo' = [s \in Sides |-> GroupsOf(s)]
      /\ UNCHANGED <<call, outcome, tasks, sets, plans, reserved, asked, emitted, faults>>
  BY DEF StartStream
<1>2. Collected'
  <2>1. ASSUME NEW s \in Sides, CollectOK(Side(s), "ready", tasks[s], sets[s], plans[s])
        PROVE  CollectOK(Side(s), "streaming", tasks[s], sets[s], plans[s])
    BY <2>1 DEF CollectOK
  <2> QED
    BY <1>1, <2>1, AllCollected DEF LInv
<1>3. Sides' = Sides /\ 1 \in Sides /\ \A s \in Sides : stage'[s] = "streaming" /\ Side(s)' = Side(s)
  BY <1>1, CallFacts DEF Sides, Side, IInv, Shape
<1>4. \A s \in Sides : emitted'[s] = {}
  BY <1>1, <1>3 DEF LInv, Streamed
<1>5. \A s \in Sides : Applied(Side(s)')
  BY <1>1, <1>3 DEF LInv, Streamed, Planned
<1>6. ASSUME NEW s \in Sides PROVE StreamOK(Side(s)', emitted'[s], todo'[s])
  <2>1. todo'[s] = GroupsIn(Side(s))
    BY <1>1 DEF GroupsOf, GroupsIn
  <2>2. StreamOK(Side(s), {}, GroupsIn(Side(s)))
    BY DEF StreamOK
  <2> QED
    BY <1>3, <1>4, <2>1, <2>2
<1>7. Streamed'
  BY <1>1, <1>3, <1>4, <1>5, <1>6 DEF Streamed
<1> QED
  BY <1>2, <1>7 DEF LInv

\* EndStream: nothing is left to read.
LEMMA EndStreamLive ==
  ASSUME LInv, EndStream
  PROVE  LInv'
<1>1. /\ outcome = "running" /\ \A s \in Sides : stage[s] = "streaming" /\ todo[s] = {}
      /\ UNCHANGED <<call, stage, tasks, sets, plans, emitted, todo>>
  BY DEF EndStream
<1>2. Collected'
  BY <1>1, CollectedSame DEF LInv
<1>3. Sides' = Sides /\ \A s : Side(s)' = Side(s)
  BY <1>1 DEF Sides, Side
<1>4. \A s \in Sides : stage'[s] \in Planned => Applied(Side(s)')
  BY <1>1, <1>3 DEF LInv, Streamed
<1>5. \A s \in Sides : stage'[s] = "streaming" => StreamOK(Side(s)', emitted'[s], todo'[s])
  BY <1>1, <1>3 DEF LInv, Streamed
<1>6. Streamed'
  BY <1>1, <1>3, <1>4, <1>5 DEF Streamed
<1> QED
  BY <1>2, <1>6 DEF LInv

-----------------------------------------------------------------------------
\* The rows of a batch of row group b, and the stream once they have left.
BatchRows(b, rows, v) == {[file |-> b[1], row |-> r, values |-> v] : r \in rows}
StreamNext(side, em, td, b, new) == StreamOK(side, em \cup new, td \ {b})

\* One more row group is emitted.
LEMMA StreamAdd ==
  ASSUME NEW side, NEW em, NEW td, StreamOK(side, em, td), NEW b \in td, b \in GroupsIn(side),
         NEW rows, rows = LiveIn(side, b[1], b[2]), NEW v
  PROVE  StreamNext(side, em, td, b, BatchRows(b, rows, v))
<1> DEFINE new == BatchRows(b, rows, v)
           L(c) == LiveOf(side, c)
           G == GroupsIn(side)
<1>1. {<<r.file, r.row>> : r \in new} = L(b)
  <2>1. \A r \in new : r.file = b[1] /\ r.row \in rows
    BY DEF BatchRows
  <2>2. ASSUME NEW x \in rows PROVE \E r \in new : r.file = b[1] /\ r.row = x
    <3>1. [file |-> b[1], row |-> x, values |-> v] \in new
      BY <2>2 DEF BatchRows
    <3> QED
      BY <3>1
  <2>3. L(b) = {<<b[1], x>> : x \in rows}
    BY DEF LiveOf
  <2> HIDE DEF L, new
  <2>4. {<<r.file, r.row>> : r \in new} = {<<b[1], x>> : x \in rows}
    BY <2>1, <2>2
  <2> QED
    BY <2>3, <2>4
<1>2. {<<r.file, r.row>> : r \in em \cup new} = {<<r.file, r.row>> : r \in em} \cup {<<r.file, r.row>> : r \in new}
  <2> HIDE DEF new
  <2> QED
    OBVIOUS
<1>3. {<<r.file, r.row>> : r \in em} = UNION {L(c) : c \in G \ td}
  BY DEF StreamOK
<1>4. G \ (td \ {b}) = (G \ td) \cup {b}
  OBVIOUS
<1>5. UNION {L(c) : c \in (G \ td) \cup {b}} = (UNION {L(c) : c \in G \ td}) \cup L(b)
  <2> HIDE DEF L, G
  <2> QED
    OBVIOUS
<1>6. {<<r.file, r.row>> : r \in em \cup new} = UNION {L(c) : c \in G \ (td \ {b})}
  <2> HIDE DEF L, G, new
  <2> QED
    BY <1>1, <1>2, <1>3, <1>4, <1>5
<1> QED
  BY <1>6 DEF StreamNext, StreamOK

\* The rows a row group emits are its live rows.
LEMMA EmitsLive ==
  ASSUME IInv, LInv, outcome # "failed", NEW s \in Sides, NEW b \in todo[s]
  PROVE  SelectedRows(Entry(s, b[1]).groups, b[2], Access(s, b[1], b[2])) = LiveIn(Side(s), b[1], b[2])
<1> DEFINE side == Side(s)
           f == b[1]
           g == b[2]
           e == Entry(s, f)
           ps == plans[s]
<1>1. call \in Calls /\ stage[s] = "streaming" /\ b \in GroupsOf(s)
  BY DEF IInv, Shape, Registered
<1>2. SideShape(side) /\ SideConsistent(side)
  BY <1>1, CallConsistent
<1>3. PICK d \in EntriesOf(side) : \E h \in DOMAIN d.groups : b = <<d.path.id, h>>
  BY <1>1 DEF GroupsOf
<1>4. f = d.path.id /\ g \in DOMAIN d.groups /\ f \in Assigned(side)
  BY <1>3 DEF Assigned
<1>5. e = d
  <2>1. e \in EntriesOf(side) /\ e.path.id = f
    BY <1>4, EntryOf
  <2> QED
    BY <1>2, <1>4, <2>1 DEF SideConsistent
<1>6. e = EntryFor(side, f)
  BY DEF Entry, EntryFor
<1>7. d.groups \in Seq(Nat)
  BY <1>2 DEF SideShape
<1>8. /\ f \in DOMAIN ps => ps[f] = build_access_plan(EntryFor(side, f).groups, Expected(side, f))
      /\ Expected(side, f) # {} => f \in DOMAIN ps
  <2>1. CollectOK(side, "streaming", tasks[s], sets[s], ps)
    BY <1>1 DEF LInv, Collected
  <2> HIDE DEF side, f, ps
  <2> QED
    BY <1>4, <2>1 DEF CollectOK
<1> DEFINE groups == d.groups
           X == Expected(side, f)
<1>9. /\ SelectedRows(groups, g, build_access_plan(groups, X)[g]) = GroupRows(groups, g) \ X
      /\ SelectedRows(groups, g, [access |-> "scan", selectors |-> <<>>]) = GroupRows(groups, g)
  <2> HIDE DEF groups, X, g
  <2>1. groups \in Seq(Nat) /\ g \in DOMAIN groups
    BY <1>4, <1>7 DEF groups, g
  <2> QED
    BY <2>1, PlanSelects
<1>10. CASE f \in DOMAIN ps
  <2>1. Access(s, f, g) = build_access_plan(groups, X)[g]
    BY <1>5, <1>6, <1>8, <1>10 DEF Access
  <2> QED
    BY <1>5, <1>6, <1>9, <2>1 DEF LiveIn
<1>11. CASE f \notin DOMAIN ps
  <2>1. Access(s, f, g) = [access |-> "scan", selectors |-> <<>>] /\ X = {}
    BY <1>8, <1>11 DEF Access
  <2>2. GroupRows(groups, g) \ X = GroupRows(groups, g)
    BY <2>1
  <2> QED
    BY <1>5, <1>6, <1>9, <2>1, <2>2 DEF LiveIn
<1> QED
  BY <1>10, <1>11

\* EmitBatch: the batch is the live rows of its row group.
LEMMA EmitBatchLive ==
  ASSUME IInv, LInv, NEW s \in Sides, NEW b \in todo[s], EmitBatch(s, b[1], b[2])
  PROVE  LInv'
<1>1. CASE Fail
  BY <1>1, FailLive
<1>2. CASE ~Fail
  <2> DEFINE e == Entry(s, b[1])
             rows == SelectedRows(e.groups, b[2], Access(s, b[1], b[2]))
             v == ReadRow(Side(s), e)
             new == BatchRows(b, rows, v)
  <2>1. /\ outcome = "running"
        /\ todo' = [todo EXCEPT ![s] = @ \ {<<b[1], b[2]>>}]
        /\ emitted' = [emitted EXCEPT ![s] = @ \cup new]
        /\ UNCHANGED <<call, outcome, stage, tasks, sets, plans>>
    BY <1>2 DEF EmitBatch, BatchRows
  <2>2. stage[s] = "streaming" /\ b \in GroupsOf(s) /\ DOMAIN todo = Sides /\ DOMAIN emitted = Sides
    BY DEF IInv, Shape, Registered
  <2>3. b = <<b[1], b[2]>> /\ b \in GroupsIn(Side(s))
    BY <2>2 DEF GroupsOf, GroupsIn
  <2>4. rows = LiveIn(Side(s), b[1], b[2])
    BY <2>1, EmitsLive
  <2> HIDE DEF rows, v
  <2>5. StreamOK(Side(s), emitted[s] \cup new, todo[s] \ {b})
    <3>1. StreamOK(Side(s), emitted[s], todo[s])
      BY <2>2 DEF LInv, Streamed
    <3>2. StreamNext(Side(s), emitted[s], todo[s], b, new)
      BY <2>3, <2>4, <3>1, StreamAdd
    <3> QED
      BY <3>2 DEF StreamNext
  <2> HIDE DEF new
  <2>6. /\ todo'[s] = todo[s] \ {b} /\ emitted'[s] = emitted[s] \cup new
        /\ \A o \in Sides \ {s} : todo'[o] = todo[o] /\ emitted'[o] = emitted[o]
    BY <2>1, <2>2, <2>3
  <2>7. Sides' = Sides /\ \A o : Side(o)' = Side(o)
    BY <2>1 DEF Sides, Side
  <2>8. \A r \in Sides : stage'[r] = "streaming"
    BY <2>1, <2>2 DEF LInv, Streamed
  <2>9. \A o \in Sides : Applied(Side(o)')
    BY <2>1, <2>7, <2>8 DEF LInv, Streamed, Planned
  <2>10. ASSUME NEW o \in Sides PROVE StreamOK(Side(o)', emitted'[o], todo'[o])
    <3>1. CASE o = s
      BY <2>5, <2>6, <2>7, <3>1
    <3>2. CASE o # s
      <4>1. StreamOK(Side(o), emitted[o], todo[o])
        BY <2>1, <2>8 DEF LInv, Streamed
      <4> QED
        BY <2>6, <2>7, <3>2, <4>1
    <3> QED
      BY <3>1, <3>2
  <2>11. Streamed'
    BY <2>1, <2>7, <2>8, <2>9, <2>10 DEF Streamed
  <2>12. Collected'
    BY <2>1, CollectedSame DEF LInv
  <2> QED
    BY <2>11, <2>12 DEF LInv
<1> QED
  BY <1>1, <1>2

\* A call that has not begun has collected and emitted nothing.
LEMMA InitLive ==
  ASSUME Init
  PROVE  LInv
<1>1. outcome = "running" /\ stage = [s \in Sides |-> "unbuilt"] /\ plans = [s \in Sides |-> <<>>]
      /\ emitted = [s \in Sides |-> {}]
  BY DEF Init
<1>2. ASSUME NEW s \in Sides PROVE CollectOK(Side(s), stage[s], tasks[s], sets[s], plans[s])
  <2> DEFINE none == <<>>
  <2>1. stage[s] = "unbuilt" /\ plans[s] = none /\ DOMAIN none = {}
    BY <1>1
  <2> HIDE DEF none
  <2> QED
    BY <2>1 DEF CollectOK
<1>3. Streamed
  BY <1>1 DEF Streamed, Planned
<1> QED
  BY <1>2, <1>3 DEF LInv, Collected

\* Every step keeps the invariant: one case per action.
LEMMA NextLive ==
  ASSUME IInv, LInv, [Next]_vars
  PROVE  LInv'
<1>1. CASE BuildSessionContext
  BY <1>1, BuildSessionContextLive
<1>2. ASSUME NEW s \in Sides, SideStep(s) PROVE LInv'
  <2>1. CASE RegisterFileList(s)
    BY <2>1, RegisterFileListLive
  <2>2. CASE StartPartitionedFiles(s)
    BY <2>2, StartPartitionedFilesLive
  <2>3. CASE SpawnRowGroups(s)
    BY <2>3, SpawnRowGroupsLive
  <2>4. CASE SpawnUnions(s)
    BY <2>4, SpawnUnionsLive
  <2>5. CASE SpawnPlans(s)
    BY <2>5, SpawnPlansLive
  <2>6. CASE EndPlans(s)
    BY <2>6, EndPlansLive
  <2>7. CASE DropProviders(s)
    BY <2>7, DropProvidersLive
  <2>8. ASSUME NEW t \in DOMAIN tasks[s], TaskStep(s, t) PROVE LInv'
    BY <2>8, TaskLive
  <2>9. ASSUME NEW b \in todo[s], EmitBatch(s, b[1], b[2]) PROVE LInv'
    BY <2>9, EmitBatchLive
  <2> QED
    BY <1>2, <2>1, <2>2, <2>3, <2>4, <2>5, <2>6, <2>7, <2>8, <2>9 DEF SideStep
<1>3. CASE StartStream
  BY <1>3, StartStreamLive
<1>4. CASE EndStream
  BY <1>4, EndStreamLive
<1>5. CASE StoreFails
  <2>1. outcome' = "failed" /\ UNCHANGED <<call, stage, emitted, todo>>
    BY <1>5 DEF StoreFails
  <2> QED
    BY <2>1, FailedLive
<1>6. CASE UNCHANGED vars
  <2>1. Collected'
    BY <1>6, CollectedSame DEF LInv, vars
  <2>2. Streamed'
    BY <1>6, StreamedSame DEF LInv, vars
  <2> QED
    BY <2>1, <2>2 DEF LInv
<1> QED
  BY <1>1, <1>2, <1>3, <1>4, <1>5, <1>6 DEF Next, Steps

\* The tasks together find what the mechanisms delete, the access plans leave out
\* exactly that, and what is emitted is the live rows of the row groups read.
THEOREM LiveInvariance == Spec => []LInv
<1>1. Init => LInv
  BY InitLive
<1>2. IInv /\ LInv /\ [Next]_vars => LInv'
  BY NextLive
<1> QED
  BY <1>1, <1>2, Invariance, PTL DEF Spec

\* The row groups of a side hold its live rows.
LEMMA LiveRowsAre ==
  ASSUME call \in Calls, NEW s \in Sides, Applied(Side(s))
  PROVE  UNION {LiveOf(Side(s), b) : b \in GroupsIn(Side(s))} = LiveRows(s)
<1> DEFINE side == Side(s)
           Rows(e) == (0 .. FirstRow(e.groups, Len(e.groups) + 1) - 1)
                        \ UNION {DeletedBy(side, e, m) : m \in e.deletes}
           S(e) == {<<e.path.id, r>> : r \in Rows(e)}
           L(b) == LiveOf(side, b)
<1>1. SideShape(side) /\ SideConsistent(side) /\ Applicable(side)
  BY CallConsistent DEF Applied
<1>2. LiveRows(s) = UNION {S(e) : e \in EntriesOf(side)}
  BY DEF LiveRows
<1>3. ASSUME NEW e \in EntriesOf(side)
      PROVE  /\ EntryFor(side, e.path.id) = e
             /\ Rows(e) = (UNION {GroupRows(e.groups, g) : g \in DOMAIN e.groups}) \ Expected(side, e.path.id)
  <2>1. EntryFor(side, e.path.id) = e
    <3>1. EntryFor(side, e.path.id) \in EntriesOf(side) /\ EntryFor(side, e.path.id).path.id = e.path.id
      BY DEF EntryFor
    <3> QED
      BY <1>1, <3>1 DEF SideConsistent
  <2>2. Expected(side, e.path.id) = UNION {DeletedBy(side, e, m) : m \in e.deletes}
    <3> HIDE DEF side
    <3> QED
      BY <1>1, ExpectedIs
  <2>3. e.groups \in Seq(Nat)
    BY <1>1 DEF SideShape
  <2>4. UNION {GroupRows(e.groups, g) : g \in DOMAIN e.groups} = 0 .. FirstRow(e.groups, Len(e.groups) + 1) - 1
    BY <2>3, RowsCovered
  <2> QED
    BY <2>1, <2>2, <2>4
<1>4. ASSUME NEW e \in EntriesOf(side), NEW g \in DOMAIN e.groups
      PROVE  L(<<e.path.id, g>>) = {<<e.path.id, x>> : x \in GroupRows(e.groups, g) \ Expected(side, e.path.id)}
  BY <1>3, <1>4 DEF LiveOf, LiveIn
<1> HIDE DEF Rows
<1>5. ASSUME NEW b \in GroupsIn(side), NEW z \in L(b) PROVE z \in LiveRows(s)
  <2>1. PICK e \in EntriesOf(side) : \E g \in DOMAIN e.groups : b = <<e.path.id, g>>
    BY <1>5 DEF GroupsIn
  <2>2. PICK g \in DOMAIN e.groups : b = <<e.path.id, g>>
    BY <2>1
  <2> HIDE DEF L, side
  <2>3. z \in {<<e.path.id, x>> : x \in GroupRows(e.groups, g) \ Expected(side, e.path.id)}
    BY <1>4, <1>5, <2>2
  <2>4. PICK x \in GroupRows(e.groups, g) \ Expected(side, e.path.id) : z = <<e.path.id, x>>
    BY <2>3
  <2>5. x \in Rows(e)
    BY <1>3, <2>4
  <2>6. z \in S(e)
    BY <2>4, <2>5
  <2> HIDE DEF S
  <2> QED
    BY <1>2, <2>6
<1>6. ASSUME NEW z \in LiveRows(s) PROVE \E b \in GroupsIn(side) : z \in L(b)
  <2>1. PICK e \in EntriesOf(side) : z \in S(e)
    <3> HIDE DEF S
    <3> QED
      BY <1>2, <1>6
  <2>2. PICK x \in Rows(e) : z = <<e.path.id, x>>
    BY <2>1
  <2>3. PICK g \in DOMAIN e.groups : x \in GroupRows(e.groups, g) \ Expected(side, e.path.id)
    BY <1>3, <2>2
  <2>4. <<e.path.id, g>> \in GroupsIn(side)
    <3> DEFINE P(d) == {<<d.path.id, h>> : h \in DOMAIN d.groups}
    <3>1. <<e.path.id, g>> \in P(e)
      OBVIOUS
    <3>2. GroupsIn(side) = UNION {P(d) : d \in EntriesOf(side)}
      BY DEF GroupsIn
    <3> HIDE DEF P
    <3> QED
      BY <3>1, <3>2
  <2> HIDE DEF L, side
  <2>5. z \in L(<<e.path.id, g>>)
    BY <1>4, <2>2, <2>3
  <2> QED
    BY <2>4, <2>5
<1> HIDE DEF L
<1>7. UNION {L(b) : b \in GroupsIn(side)} = LiveRows(s)
  BY <1>5, <1>6
<1> QED
  BY <1>7 DEF L

\* ExactlyLiveRows: whatever order the delete reads of the sides finish in and however
\* the batches interleave, every emitted row is live, and a call that succeeds has
\* emitted every live row.
THEOREM LiveRowsExact == Spec => []ExactlyLiveRows
<1>1. IInv /\ LInv => ExactlyLiveRows
  <2> SUFFICES ASSUME IInv, LInv, NEW s \in Sides
               PROVE  LET rows == {<<r.file, r.row>> : r \in emitted[s]}
                      IN  rows \subseteq LiveRows(s) /\ (outcome = "done" => rows = LiveRows(s))
    BY DEF ExactlyLiveRows
  <2> DEFINE rows == {<<r.file, r.row>> : r \in emitted[s]}
             L(b) == LiveOf(Side(s), b)
             G == GroupsIn(Side(s))
  <2>1. CASE stage[s] = "streaming"
    <3>1. Applied(Side(s)) /\ StreamOK(Side(s), emitted[s], todo[s]) /\ call \in Calls
      BY <2>1 DEF LInv, Streamed, Planned, IInv, Shape
    <3>2. UNION {L(b) : b \in G} = LiveRows(s)
      BY <3>1, LiveRowsAre
    <3>3. rows = UNION {L(b) : b \in G \ todo[s]}
      BY <3>1 DEF StreamOK
    <3>4. outcome = "done" => todo[s] = {}
      BY DEF LInv, Streamed
    <3> HIDE DEF L, G, rows
    <3>5. rows \subseteq LiveRows(s) /\ (outcome = "done" => rows = LiveRows(s))
      BY <3>2, <3>3, <3>4
    <3> QED
      BY <3>5 DEF rows
  <2>2. CASE stage[s] # "streaming"
    <3>1. emitted[s] = {} /\ outcome # "done"
      BY <2>2 DEF LInv, Streamed
    <3> QED
      BY <3>1
  <2> QED
    BY <2>1, <2>2
<1> QED
  BY <1>1, Invariance, LiveInvariance, PTL

\* UnappliedNeverServed: a mechanism the scan cannot apply, a vector that disagrees with
\* its declared cardinality or a malformed position keeps every row of every side back.
THEOREM NoneUnapplied == Spec => []UnappliedNeverServed
<1>1. IInv /\ LInv => UnappliedNeverServed
  <2> SUFFICES ASSUME IInv, LInv, NEW s \in Sides, Unappliable(Side(s))
               PROVE  outcome # "done" /\ \A o \in Sides : emitted[o] = {}
    BY DEF UnappliedNeverServed
  <2>1. SideShape(Side(s)) /\ SideConsistent(Side(s))
    BY CallConsistent DEF IInv, Shape
  <2>2. ~Applied(Side(s))
    BY <2>1, AppliedIs
  <2>3. stage[s] # "streaming"
    BY <2>2 DEF LInv, Streamed, Planned
  <2> QED
    BY <2>3 DEF LInv, Streamed
<1> QED
  BY <1>1, Invariance, LiveInvariance, PTL

-----------------------------------------------------------------------------
\* The first of some positions is one of them; there is none when there are none.
LEMMA FirstOf ==
  ASSUME NEW S \in SUBSET Nat, 0 \notin S
  PROVE  /\ S = {} => First(S) = 0
         /\ S # {} => First(S) \in S /\ First(S) # 0
<1>1. CASE S = {}
  BY <1>1 DEF First
<1>2. CASE S # {}
  <2>1. \E x \in S : \A y \in S : x <= y
    BY <1>2, LeastNumber
  <2>2. Min(S) \in S
    BY <2>1 DEF Min
  <2>3. First(S) = Min(S)
    BY <1>2 DEF First
  <2> QED
    BY <1>2, <2>2, <2>3
<1> QED
  BY <1>1, <1>2

\* A field and a column agree in one of the keys claim_logical tries.
Hit(l, p, mapped_id) ==
    \/ p.id # NoId /\ l.id = p.id
    \/ l.physical = p.name
    \/ mapped_id # NoId /\ l.id = mapped_id
    \/ binds_by_identity(l) /\ l.name = p.name
ClaimIs(c, p, mapped_id, logical) ==
    /\ c # 0 => c \in DOMAIN logical /\ Hit(logical[c], p, mapped_id)
    /\ \A i \in DOMAIN logical : Hit(logical[i], p, mapped_id) => c # 0

\* A claim is a column that agrees with the field in a key, and there is one when
\* some column does.
LEMMA ClaimHits ==
  ASSUME NEW X, NEW logical \in Seq(X), NEW p, NEW mapped_id
  PROVE  ClaimIs(claim_logical(p, mapped_id, logical), p, mapped_id, logical)
<1> DEFINE W(id) == {i \in DOMAIN logical : id # NoId /\ logical[i].id = id}
           D == {i \in DOMAIN logical : logical[i].physical = p.name}
           N == {i \in DOMAIN logical : binds_by_identity(logical[i]) /\ logical[i].name = p.name}
           c == claim_logical(p, mapped_id, logical)
<1>1. DOMAIN logical \subseteq Nat /\ 0 \notin DOMAIN logical
  OBVIOUS
<1>2. c = CASE First(W(p.id)) # 0 -> First(W(p.id))
            [] First(W(p.id)) = 0 /\ First(D) # 0 -> First(D)
            [] First(W(p.id)) = 0 /\ First(D) = 0 /\ First(W(mapped_id)) # 0 -> First(W(mapped_id))
            [] OTHER -> First(N)
  BY DEF claim_logical
<1>3. ASSUME NEW S \in SUBSET DOMAIN logical
      PROVE  (S = {} => First(S) = 0) /\ (S # {} => First(S) \in S /\ First(S) # 0)
  BY <1>1, FirstOf
<1>4. W(p.id) \in SUBSET DOMAIN logical /\ D \in SUBSET DOMAIN logical
      /\ W(mapped_id) \in SUBSET DOMAIN logical /\ N \in SUBSET DOMAIN logical
  OBVIOUS
<1>5. /\ c # 0 => c \in W(p.id) \/ c \in D \/ c \in W(mapped_id) \/ c \in N
      /\ W(p.id) # {} \/ D # {} \/ W(mapped_id) # {} \/ N # {} => c # 0
  <2> HIDE DEF W, D, N, c
  <2> QED
    BY <1>2, <1>3, <1>4
<1>6. ASSUME c # 0 PROVE c \in DOMAIN logical /\ Hit(logical[c], p, mapped_id)
  <2> HIDE DEF c
  <2> QED
    BY <1>5, <1>6 DEF Hit
<1>7. ASSUME NEW i \in DOMAIN logical, Hit(logical[i], p, mapped_id) PROVE c # 0
  <2>1. i \in W(p.id) \/ i \in D \/ i \in W(mapped_id) \/ i \in N
    BY <1>7 DEF Hit
  <2> HIDE DEF c, W, D, N
  <2> QED
    BY <1>5, <2>1
<1> QED
  BY <1>6, <1>7 DEF ClaimIs

\* The keys claim_logical tries are how the formats store a column.
LEMMA HitsAreStored ==
  ASSUME NEW mapping, \A m, n \in mapping : m.names \cap n.names # {} => m = n,
         NEW l, NEW p, p.name # NoName
  PROVE  Hit(l, p, mapped_field_id(mapping, p.name)) <=> StoredAs(l, p, mapping)
<1> DEFINE E == mapping_entry(mapping, p.name)
           id == mapped_field_id(mapping, p.name)
<1>1. CASE E = {}
  <2>1. id = NoId
    BY <1>1 DEF mapped_field_id
  <2>2. \A m \in mapping : p.name \notin m.names
    BY <1>1 DEF mapping_entry
  <2> QED
    BY <2>1, <2>2 DEF Hit, StoredAs
<1>2. CASE E # {}
  <2>1. PICK e \in E : id = e.id
    BY <1>2 DEF mapped_field_id
  <2>2. e \in mapping /\ p.name \in e.names
    BY <2>1 DEF mapping_entry
  <2>3. ASSUME NEW m \in mapping, p.name \in m.names PROVE m = e
    <3>1. m.names \cap e.names # {}
      BY <2>2, <2>3
    <3> QED
      BY <2>2, <3>1
  <2> HIDE DEF E, id
  <2>4. (\E m \in mapping : p.name \in m.names /\ m.id = l.id) <=> l.id = id
    BY <2>1, <2>2, <2>3
  <2>5. Hit(l, p, id) <=> StoredAs(l, p, mapping)
    BY <2>4 DEF Hit, StoredAs
  <2> QED
    BY <2>5 DEF id
<1> QED
  BY <1>1, <1>2

\* Some columns of a schema, told apart by their number.
Columns(part, logical) ==
    /\ part \in Seq(ToSet(logical))
    /\ \A i, k \in DOMAIN part : part[i].column = part[k].column => i = k
ClaimTells(c, part, f, mapping) ==
    /\ c # 0 => c \in DOMAIN part /\ StoredAs(part[c], f, mapping) /\ f.column = part[c].column
    /\ \A i \in DOMAIN part : StoredAs(part[i], f, mapping) => c = i

\* A field claims the column it is stored as and no other.
LEMMA ClaimsTell ==
  ASSUME NEW logical, NEW fields, NEW mapping, KeysTell(logical, fields, mapping),
         NEW part, Columns(part, logical), NEW j \in DOMAIN fields
  PROVE  ClaimTells(claim_logical(fields[j], mapped_field_id(mapping, fields[j].name), part),
                    part, fields[j], mapping)
<1> DEFINE f == fields[j]
           id == mapped_field_id(mapping, f.name)
           c == claim_logical(f, id, part)
<1>1. ClaimIs(c, f, id, part)
  <2>1. part \in Seq(ToSet(logical))
    BY DEF Columns
  <2> HIDE DEF f, id
  <2> QED
    BY <2>1, ClaimHits
<1>2. f \in ToSet(fields) /\ \A i \in DOMAIN part : part[i] \in ToSet(logical)
  BY DEF ToSet, Columns
<1>3. f.name # NoName /\ \A m, n \in mapping : m.names \cap n.names # {} => m = n
  <2> HIDE DEF f
  <2> QED
    BY <1>2 DEF KeysTell
<1>4. ASSUME NEW l PROVE Hit(l, f, id) <=> StoredAs(l, f, mapping)
  <2> HIDE DEF f
  <2> QED
    BY <1>3, HitsAreStored
<1>5. ASSUME NEW i \in DOMAIN part, StoredAs(part[i], f, mapping) PROVE f.column = part[i].column
  <2> HIDE DEF f
  <2> QED
    BY <1>2, <1>5 DEF KeysTell
<1> HIDE DEF f, id, c
<1>6. c # 0 => c \in DOMAIN part /\ StoredAs(part[c], f, mapping) /\ f.column = part[c].column
  BY <1>1, <1>4, <1>5 DEF ClaimIs
<1>7. ASSUME NEW i \in DOMAIN part, StoredAs(part[i], f, mapping) PROVE c = i
  <2>1. c # 0
    BY <1>1, <1>4, <1>7 DEF ClaimIs
  <2>2. c \in DOMAIN part /\ part[c].column = part[i].column
    BY <1>5, <1>6, <1>7, <2>1
  <2> QED
    BY <2>2 DEF Columns
<1>8. ClaimTells(c, part, f, mapping)
  BY <1>6, <1>7 DEF ClaimTells
<1> QED
  BY <1>8 DEF c, f, id

\* The columns a file is asked for: the table's, less the file's partition columns.
AskedOf(part, side, e) ==
    /\ Columns(part, side.logical)
    /\ \A i, k \in DOMAIN part : Fold(part[i].name) = Fold(part[k].name) => i = k
    /\ \A l \in ToSet(side.logical) :
         l.name \notin PartitionColumns(side, e) => \E i \in DOMAIN part : part[i] = l

\* FileColumns keeps the columns of the table that are not the file's partition columns.
LEMMA FileColumnsAre ==
  ASSUME NEW side, SchemaConsistent(side), NEW e \in EntriesOf(side)
  PROVE  AskedOf(FileColumns(side, e), side, e)
<1> DEFINE T == {l \in ToSet(side.logical) : l.name \notin PartitionColumns(side, e)}
           L == side.logical
           part == Selected(L, T)
<1>1. L \in Seq(ToSet(L)) /\ \A i, k \in DOMAIN L : L[i].column = L[k].column => i = k
  BY DEF SchemaConsistent, FileConsistent, KeysTell
<1>2. \A i, k \in DOMAIN L : Fold(L[i].name) = Fold(L[k].name) => i = k
  BY DEF SchemaConsistent
<1>3. /\ part \in Seq(ToSet(L))
      /\ \A k \in DOMAIN L : L[k] \in T => \E i \in DOMAIN part : part[i] = L[k]
      /\ DistinctOrigins(part, L, DOMAIN L)
  <2> DEFINE A == ToSet(L)
  <2>1. L \in Seq(A)
    BY <1>1
  <2> HIDE DEF T, L, A
  <2>2. /\ part \in Seq(A)
        /\ \A k \in DOMAIN L : L[k] \in T => \E i \in DOMAIN part : part[i] = L[k]
        /\ DistinctOrigins(part, L, DOMAIN L)
    BY <2>1, SelectedElements
  <2> QED
    BY <2>2 DEF A
<1> HIDE DEF L, part
<1>4. ASSUME NEW i \in DOMAIN part, NEW k \in DOMAIN part, i # k
      PROVE  part[i].column # part[k].column /\ Fold(part[i].name) # Fold(part[k].name)
  <2>1. PICK a \in DOMAIN L : \E b \in DOMAIN L : a # b /\ L[a] = part[i] /\ L[b] = part[k]
    BY <1>3, <1>4 DEF DistinctOrigins
  <2>2. PICK b \in DOMAIN L : a # b /\ L[a] = part[i] /\ L[b] = part[k]
    BY <2>1
  <2> QED
    BY <1>1, <1>2, <2>2
<1>5. Columns(part, L)
  BY <1>3, <1>4 DEF Columns
<1>6. ASSUME NEW l \in ToSet(L), l.name \notin PartitionColumns(side, e)
      PROVE  \E i \in DOMAIN part : part[i] = l
  <2>1. PICK k \in DOMAIN L : L[k] = l
    BY <1>6 DEF ToSet
  <2>2. l \in T
    BY <1>6 DEF L
  <2> QED
    BY <1>3, <2>1, <2>2
<1>7. AskedOf(part, side, e)
  BY <1>4, <1>5, <1>6 DEF AskedOf, L
<1> QED
  BY <1>7 DEF FileColumns, part, L

\* The fields of a file that hold a column.
FieldsHolding(fields, l) == {j \in DOMAIN fields : fields[j].column = l.column}

\* A claim, exact or by letter case, is of the column the field holds.
LEMMA ClaimsHold ==
  ASSUME NEW side, SchemaConsistent(side), NEW e \in EntriesOf(side),
         NEW part, AskedOf(part, side, e),
         NEW j \in DOMAIN e.fields, NEW i \in DOMAIN part,
         claim_by_case_fold(ExactClaims(side, part, e.fields), part, e.fields)[j] = i
  PROVE  e.fields[j].column = part[i].column
<1> DEFINE F == e.fields
           M == MappingFor(side, F)
           X == ExactClaims(side, part, F)
           G == FoldGroup(X, part, F, Fold(F[j].name))
<1>1. /\ FileConsistent(side, e) /\ KeysTell(side.logical, F, M) /\ Columns(part, side.logical)
      /\ \A l, k \in ToSet(side.logical) : binds_by_identity(l) => binds_by_identity(k)
  BY DEF SchemaConsistent, FileConsistent, AskedOf
<1>2. \A k \in DOMAIN part : part[k] \in ToSet(side.logical)
  BY <1>1 DEF Columns
<1>3. i # 0
  BY <1>1 DEF Columns
<1>4. \A k \in DOMAIN F : ClaimTells(X[k], part, F[k], M)
  <2>1. ASSUME NEW k \in DOMAIN F PROVE ClaimTells(X[k], part, F[k], M)
    <3>1. X[k] = claim_logical(F[k], mapped_field_id(M, F[k].name), part)
      BY DEF ExactClaims
    <3> HIDE DEF F, M, X
    <3> QED
      BY <1>1, <3>1, ClaimsTell
  <2> QED
    BY <2>1
<1>5. i = IF X[j] = 0 /\ G.files = {j} /\ Cardinality(G.table) = 1 THEN CHOOSE k \in G.table : TRUE ELSE X[j]
  BY DEF claim_by_case_fold
<1>6. /\ G.files = {k \in DOMAIN F : X[k] = 0 /\ Fold(F[k].name) = Fold(F[j].name)}
      /\ G.table = {k \in DOMAIN part : /\ binds_by_identity(part[k])
                                        /\ Fold(part[k].name) = Fold(F[j].name)
                                        /\ \A n \in DOMAIN F : X[n] # k}
  BY DEF FoldGroup
<1>7. CASE X[j] = i
  <2> HIDE DEF F, M, X
  <2>1. F[j].column = part[i].column
    BY <1>3, <1>4, <1>7 DEF ClaimTells, F
  <2> QED
    BY <2>1 DEF F
<1>8. CASE X[j] # i
  <2>1. X[j] = 0 /\ G.files = {j} /\ Cardinality(G.table) = 1 /\ i = CHOOSE k \in G.table : TRUE
    BY <1>5, <1>8
  <2>2. G.table # {}
    BY <2>1, FS_EmptySet
  <2>3. i \in G.table
    BY <2>1, <2>2
  <2>4. binds_by_identity(part[i]) /\ Fold(part[i].name) = Fold(F[j].name) /\ \A n \in DOMAIN F : X[n] # i
    BY <1>6, <2>3
  <2> DEFINE alike == {k \in DOMAIN F : Fold(F[k].name) = Fold(part[i].name)}
  <2>5. ASSUME NEW k \in alike PROVE X[k] = 0
    <3> SUFFICES ASSUME X[k] # 0 PROVE FALSE
      OBVIOUS
    <3> HIDE DEF F, M, X
    <3>1. X[k] \in DOMAIN part /\ StoredAs(part[X[k]], F[k], M)
      BY <1>4 DEF ClaimTells
    <3>2. binds_by_identity(part[X[k]])
      BY <1>1, <1>2, <2>4, <3>1
    <3>3. F[k].name = part[X[k]].name
      BY <3>1, <3>2 DEF StoredAs, binds_by_identity
    <3>4. X[k] = i
      BY <3>1, <3>3 DEF AskedOf
    <3> QED
      BY <2>4, <3>4
  <2>6. alike = {j}
    BY <1>6, <2>1, <2>4, <2>5
  <2>7. binds_by_identity(part[i]) /\ part[i] \in ToSet(side.logical)
    BY <1>2, <2>4
  <2> QED
    BY <1>1, <2>6, <2>7 DEF FileConsistent
<1> QED
  BY <1>7, <1>8

\* The field that holds a column claims it when no letters are ambiguous.
LEMMA HoldersClaim ==
  ASSUME NEW side, SchemaConsistent(side), NEW e \in EntriesOf(side),
         NEW part, AskedOf(part, side, e), ensure_unambiguous(side, part, e.fields),
         NEW j \in DOMAIN e.fields, NEW i \in DOMAIN part, e.fields[j].column = part[i].column
  PROVE  claim_by_case_fold(ExactClaims(side, part, e.fields), part, e.fields)[j] = i
<1> DEFINE F == e.fields
           M == MappingFor(side, F)
           X == ExactClaims(side, part, F)
           G == FoldGroup(X, part, F, Fold(F[j].name))
<1>1. FileConsistent(side, e) /\ KeysTell(side.logical, F, M) /\ Columns(part, side.logical)
  BY DEF SchemaConsistent, FileConsistent, AskedOf
<1>2. part[i] \in ToSet(side.logical) /\ i # 0
  BY <1>1 DEF Columns
<1>3. ASSUME NEW k \in DOMAIN F PROVE ClaimTells(X[k], part, F[k], M)
  <2>1. X[k] = claim_logical(F[k], mapped_field_id(M, F[k].name), part)
    BY DEF ExactClaims
  <2> HIDE DEF F, M, X
  <2> QED
    BY <1>1, <2>1, ClaimsTell
<1>4. claim_by_case_fold(X, part, F)[j]
        = IF X[j] = 0 /\ G.files = {j} /\ Cardinality(G.table) = 1 THEN CHOOSE k \in G.table : TRUE ELSE X[j]
  BY DEF claim_by_case_fold
<1>5. /\ G.files = {k \in DOMAIN F : X[k] = 0 /\ Fold(F[k].name) = Fold(F[j].name)}
      /\ G.table = {k \in DOMAIN part : /\ binds_by_identity(part[k])
                                        /\ Fold(part[k].name) = Fold(F[j].name)
                                        /\ \A n \in DOMAIN F : X[n] # k}
  BY DEF FoldGroup
<1>6. /\ \A k \in DOMAIN F : F[k].column = part[i].column => k = j
      /\ StoredAs(part[i], F[j], M) \/ (binds_by_identity(part[i]) /\ Fold(F[j].name) = Fold(part[i].name))
  BY <1>1, <1>2 DEF FileConsistent
<1>7. CASE X[j] # 0
  <2> HIDE DEF F, M, X, G
  <2>1. X[j] \in DOMAIN part /\ part[X[j]].column = F[j].column
    BY <1>3, <1>7 DEF ClaimTells, F
  <2>2. X[j] = i
    BY <1>1, <2>1 DEF Columns, F
  <2>3. claim_by_case_fold(X, part, F)[j] = i
    BY <1>4, <1>7, <2>2
  <2> QED
    BY <2>3 DEF X, F
<1>8. CASE X[j] = 0
  <2>1. ~StoredAs(part[i], F[j], M)
    <3> HIDE DEF F, M, X
    <3> QED
      BY <1>2, <1>3, <1>8 DEF ClaimTells, F
  <2>2. binds_by_identity(part[i]) /\ Fold(F[j].name) = Fold(part[i].name)
    BY <1>6, <2>1
  <2>3. ASSUME NEW n \in DOMAIN F PROVE X[n] # i
    <3> SUFFICES ASSUME X[n] = i PROVE FALSE
      OBVIOUS
    <3>1. F[n].column = part[i].column
      <4> HIDE DEF F, M, X
      <4> QED
        BY <1>2, <1>3 DEF ClaimTells
    <3>2. n = j
      BY <1>6, <3>1
    <3> QED
      BY <1>2, <1>8, <3>2
  <2>4. i \in G.table /\ j \in G.files
    <3> HIDE DEF X, G, F
    <3> QED
      BY <1>5, <1>8, <2>2, <2>3 DEF F
  <2>5. Cardinality(G.files) = 1 /\ Cardinality(G.table) = 1
    <3>1. \/ G.files = {} \/ G.table = {}
          \/ Cardinality(G.files) = 1 /\ Cardinality(G.table) = 1
      BY DEF ensure_unambiguous
    <3> HIDE DEF G
    <3> QED
      BY <2>4, <3>1
  <2>6. G.files = {j}
    <3>1. IsFiniteSet(G.files)
      <4>1. DOMAIN F = 1 .. Len(F) /\ Len(F) \in Nat
        BY <1>1 DEF KeysTell
      <4>2. IsFiniteSet(DOMAIN F)
        BY <4>1, FS_Interval
      <4>3. G.files \subseteq DOMAIN F
        BY <1>5
      <4> HIDE DEF G, F
      <4> QED
        BY <4>2, <4>3, FS_Subset
    <3>2. \E x : G.files = {x}
      <4> HIDE DEF G
      <4> QED
        BY <2>5, <3>1, FS_Singleton
    <3> HIDE DEF G
    <3> QED
      BY <2>4, <3>2
  <2>7. \A k \in G.table : k = i
    <3>1. ASSUME NEW k \in G.table PROVE Fold(part[k].name) = Fold(part[i].name) /\ k \in DOMAIN part
      BY <1>5, <2>2
    <3> HIDE DEF G
    <3> QED
      BY <3>1 DEF AskedOf
  <2>8. claim_by_case_fold(X, part, F)[j] = i
    <3> HIDE DEF G, X, F
    <3> QED
      BY <1>4, <1>8, <2>4, <2>5, <2>6, <2>7
  <2> QED
    BY <2>8 DEF X, F
<1> QED
  BY <1>7, <1>8

\* A column of the file reads the field that holds it, or none when no field does.
LEMMA ColumnsBind ==
  ASSUME NEW side, SchemaConsistent(side), NEW e \in EntriesOf(side),
         NEW part, AskedOf(part, side, e), ensure_unambiguous(side, part, e.fields),
         NEW i \in DOMAIN part
  PROVE  bind_columns(side, part, e.fields)[i] = First(FieldsHolding(e.fields, part[i]))
<1> DEFINE claims == claim_by_case_fold(ExactClaims(side, part, e.fields), part, e.fields)
<1>1. \A j \in DOMAIN e.fields : claims[j] = i <=> e.fields[j].column = part[i].column
  BY ClaimsHold, HoldersClaim
<1>2. bind_columns(side, part, e.fields)[i] = First({j \in DOMAIN e.fields : claims[j] = i})
  BY DEF bind_columns
<1> HIDE DEF claims
<1>3. {j \in DOMAIN e.fields : claims[j] = i} = FieldsHolding(e.fields, part[i])
  BY <1>1 DEF FieldsHolding
<1> QED
  BY <1>2, <1>3

\* A member of a struct reads the member stored for it, null where there is none.
LEMMA MembersBind ==
  ASSUME NEW l, NEW f, NEW mapping, MembersConsistent(l, f, mapping), NEW i \in DOMAIN l.members,
         NEW s, s = claim_struct_slots(f.members, l.members, mapping)[i]
  PROVE  (IF s = 0 THEN 0 ELSE f.members[s].column)
           = (IF \E m \in ToSet(f.members) : m.column = l.members[i].column
              THEN l.members[i].column ELSE 0)
<1> DEFINE F == f.members
           L == l.members
           claim(j) == claim_logical(F[j], mapped_field_id(mapping, F[j].name), L)
           S == {j \in DOMAIN F : claim(j) = i}
<1>1. KeysTell(L, F, mapping) /\ \A m \in ToSet(L) : \A p \in ToSet(F) : p.column = m.column => StoredAs(m, p, mapping)
  BY DEF MembersConsistent
<1>2. Columns(L, L)
  BY <1>1 DEF KeysTell, Columns
<1>3. ASSUME NEW j \in DOMAIN F PROVE ClaimTells(claim(j), L, F[j], mapping)
  <2> HIDE DEF F, L
  <2> QED
    BY <1>1, <1>2, <1>3, ClaimsTell
<1>4. s = First(S)
  BY DEF claim_struct_slots
<1>5. i # 0 /\ L[i] \in ToSet(L) /\ DOMAIN F \subseteq Nat /\ 0 \notin DOMAIN F
  BY <1>1 DEF KeysTell, ToSet
<1>6. \A j \in DOMAIN F : j \in S <=> F[j].column = L[i].column
  <2> HIDE DEF F, L, claim
  <2>1. ASSUME NEW j \in DOMAIN F, F[j].column = L[i].column PROVE claim(j) = i
    <3>1. F[j] \in ToSet(F)
      BY DEF ToSet
    <3>2. StoredAs(L[i], F[j], mapping)
      BY <1>1, <1>5, <2>1, <3>1
    <3> QED
      BY <1>3, <3>2 DEF ClaimTells, L
  <2>2. ASSUME NEW j \in DOMAIN F, claim(j) = i PROVE F[j].column = L[i].column
    BY <1>3, <1>5, <2>2 DEF ClaimTells
  <2> QED
    BY <2>1, <2>2
<1>7. (S = {} => s = 0) /\ (S # {} => s \in S /\ s # 0)
  <2>1. S \in SUBSET Nat /\ 0 \notin S
    BY <1>5
  <2> HIDE DEF S
  <2> QED
    BY <1>4, <2>1, FirstOf
<1>8. (\E m \in ToSet(F) : m.column = L[i].column) <=> S # {}
  <2> HIDE DEF L, claim
  <2>1. (\E m \in ToSet(F) : m.column = L[i].column) <=> \E j \in DOMAIN F : F[j].column = L[i].column
    BY DEF ToSet
  <2>2. S \subseteq DOMAIN F
    OBVIOUS
  <2> HIDE DEF S
  <2> QED
    BY <1>6, <2>1, <2>2
<1>9. S # {} => F[s].column = L[i].column
  <2>1. S \subseteq DOMAIN F
    OBVIOUS
  <2> HIDE DEF S, F, L
  <2> QED
    BY <1>6, <1>7, <2>1
<1> HIDE DEF S
<1> QED
  BY <1>7, <1>8, <1>9

\* What a column has in a field that holds it: its number and its members'.
AsWritten(side, e, j, l) ==
    /\ <<e.fields[j].type, l.type>> \notin Lossy
    /\ FieldValue(side, e.fields, j, l)
         = Value("file", l.column,
                 [i \in DOMAIN l.members |->
                    IF \E m \in ToSet(e.fields[j].members) : m.column = l.members[i].column
                    THEN l.members[i].column ELSE 0], "")

\* The value a column reads from the field that holds it is the one written for it.
LEMMA FieldAsWritten ==
  ASSUME NEW side, SchemaConsistent(side), NEW e \in EntriesOf(side),
         NEW l \in ToSet(side.logical), NEW j \in DOMAIN e.fields, e.fields[j].column = l.column,
         FieldValue(side, e.fields, j, l) # Failure
  PROVE  AsWritten(side, e, j, l)
<1> DEFINE f == e.fields[j]
           M == mapped(MappingFor(side, e.fields), f.name)
           slots == claim_struct_slots(f.members, l.members, M)
           source(s) == IF s = 0 THEN 0 ELSE f.members[s].column
           read == [i \in DOMAIN slots |-> source(slots[i])]
           true == [i \in DOMAIN l.members |->
                      IF \E m \in ToSet(f.members) : m.column = l.members[i].column
                      THEN l.members[i].column ELSE 0]
<1>1. l.members # <<>> => MembersConsistent(l, f, M)
  BY DEF SchemaConsistent, FileConsistent
<1>2. FieldValue(side, e.fields, j, l) =
        CASE f.type = "struct" /\ l.members # <<>> -> Value("file", f.column, read, "")
          [] f.type # "struct" /\ admits(f.type, l.type) -> Value("file", f.column, <<>>, "")
          [] OTHER -> Failure
  BY DEF FieldValue
<1>3. CASE f.type = "struct" /\ l.members # <<>>
  <2>1. DOMAIN slots = DOMAIN l.members
    BY DEF claim_struct_slots
  <2>2. ASSUME NEW i \in DOMAIN l.members PROVE source(slots[i]) = true[i]
    <3> DEFINE s == slots[i]
    <3>1. MembersConsistent(l, f, M) /\ s = claim_struct_slots(f.members, l.members, M)[i]
      BY <1>1, <1>3
    <3> HIDE DEF s, f, M
    <3>2. (IF s = 0 THEN 0 ELSE f.members[s].column)
           = (IF \E m \in ToSet(f.members) : m.column = l.members[i].column
              THEN l.members[i].column ELSE 0)
      BY <3>1, MembersBind
    <3> QED
      BY <3>2 DEF s, f
  <2>3. read = true
    <3> HIDE DEF slots, source
    <3> QED
      BY <2>1, <2>2
  <2>4. <<f.type, l.type>> \notin Lossy
    BY <1>3 DEF Lossy
  <2> HIDE DEF read, true
  <2> QED
    BY <1>2, <1>3, <2>3, <2>4 DEF true, AsWritten
<1>4. CASE f.type # "struct" /\ admits(f.type, l.type)
  <2>1. l.members = <<>>
    BY <1>1, <1>4 DEF MembersConsistent
  <2>2. true = <<>>
    BY <2>1
  <2>3. <<f.type, l.type>> \notin Lossy
    BY <1>4 DEF Lossy, admits, Widenings
  <2>4. FieldValue(side, e.fields, j, l) = Value("file", f.column, <<>>, "")
    BY <1>2, <1>4
  <2> HIDE DEF true
  <2> QED
    BY <2>2, <2>3, <2>4 DEF true, AsWritten
<1>5. CASE ~(f.type = "struct" /\ l.members # <<>>) /\ ~(f.type # "struct" /\ admits(f.type, l.type))
  <2> HIDE DEF read
  <2> QED
    BY <1>2, <1>5
<1> QED
  BY <1>3, <1>4, <1>5

\* A column of a row: read from the field that holds it, or filled in when no field does.
WrittenMembers(f, l) ==
    [i \in DOMAIN l.members |->
        IF \E m \in ToSet(f.members) : m.column = l.members[i].column THEN l.members[i].column ELSE 0]
ReadsField(side, e, n, l, h) ==
    /\ e.fields[h].column = l.column
    /\ ReadRow(side, e)[n] = FieldValue(side, e.fields, h, l)
    /\ TrueRow(side, e)[n] = IF <<e.fields[h].type, l.type>> \in Lossy THEN Failure
                             ELSE Value("file", l.column, WrittenMembers(e.fields[h], l), "")
ReadsAbsent(side, e, n, l) == ReadRow(side, e)[n] = AbsentValue(l) /\ TrueRow(side, e)[n] = AbsentValue(l)

\* A column the query reads is one of these two, once no letters are ambiguous.
LEMMA ColumnReads ==
  ASSUME NEW side, SchemaConsistent(side), NEW e \in EntriesOf(side),
         ensure_unambiguous(side, FileColumns(side, e), e.fields),
         NEW n \in side.reads, n \notin PartitionColumns(side, e)
  PROVE  \E l \in ToSet(side.logical) :
            \/ \E h \in DOMAIN e.fields : ReadsField(side, e, n, l, h)
            \/ ReadsAbsent(side, e, n, l)
<1> DEFINE P == PartitionColumns(side, e)
           part == FileColumns(side, e)
           F == e.fields
           L == side.logical
           at(c) == CHOOSE i \in DOMAIN part : part[i].name = c
           bound == bind_columns(side, part, F)
           named(c) == CHOOSE l \in ToSet(L) : l.name = c
           of(c) == {j \in DOMAIN F : F[j].column = named(c).column}
           members(j, l) == WrittenMembers(F[j], l)
           R == ReadRow(side, e)
           T == TrueRow(side, e)
<1>2. R[n] = CASE n \in P -> partition_values_for(side, e)[n]
               [] n \notin P /\ bound[at(n)] # 0 -> FieldValue(side, F, bound[at(n)], part[at(n)])
               [] OTHER -> AbsentValue(part[at(n)])
  BY DEF ReadRow
<1>3. T[n] = CASE n \in P -> partition_values_for(side, e)[n]
               [] n \notin P /\ of(n) # {} ->
                    IF <<F[Min(of(n))].type, named(n).type>> \in Lossy THEN Failure
                    ELSE Value("file", named(n).column, members(Min(of(n)), named(n)), "")
               [] n \notin P /\ of(n) = {} /\ named(n).default # "" ->
                    Value("default", 0, <<>>, named(n).default)
               [] OTHER -> IF named(n).nullable THEN NullValue ELSE Failure
  BY DEF TrueRow, WrittenMembers
<1>4. AskedOf(part, side, e) /\ ensure_unambiguous(side, part, F)
  BY FileColumnsAre
<1>5. /\ KeysTell(L, F, MappingFor(side, F))
      /\ side.reads \subseteq {l.name : l \in ToSet(L)}
      /\ \A i, k \in DOMAIN L : Fold(L[i].name) = Fold(L[k].name) => i = k
  BY DEF SchemaConsistent, FileConsistent
<1>6. DOMAIN F \subseteq Nat /\ 0 \notin DOMAIN F
  BY <1>5 DEF KeysTell
<1>7. PICK l \in ToSet(L) : l.name = n
  BY <1>5
<1>8. named(n) = l
  <2>1. ASSUME NEW k \in ToSet(L), k.name = n PROVE k = l
    <3>1. PICK a \in DOMAIN L : L[a] = k
      BY DEF ToSet
    <3>2. PICK b \in DOMAIN L : L[b] = l
      BY DEF ToSet
    <3> HIDE DEF L
    <3> QED
      BY <1>5, <1>7, <2>1, <3>1, <3>2
  <2> HIDE DEF L
  <2> QED
    BY <1>7, <2>1
<1>9. PICK i \in DOMAIN part : part[i] = l
  BY <1>4, <1>7 DEF AskedOf
<1>10. at(n) = i
  <2>1. ASSUME NEW k \in DOMAIN part, part[k].name = n PROVE k = i
    <3> HIDE DEF part
    <3> QED
      BY <1>4, <1>7, <1>9, <2>1 DEF AskedOf
  <2> HIDE DEF part
  <2> QED
    BY <1>7, <1>9, <2>1
<1> DEFINE H == FieldsHolding(F, l)
           h == First(H)
<1>11. bound[i] = h
  <2> HIDE DEF part
  <2> QED
    BY <1>4, <1>9, ColumnsBind
<1>12. of(n) = H
  <2> HIDE DEF named
  <2> QED
    BY <1>8 DEF FieldsHolding
<1>13. (H = {} => h = 0) /\ (H # {} => h \in H /\ h # 0 /\ Min(H) = h)
  <2>1. H \in SUBSET Nat /\ 0 \notin H
    BY <1>6 DEF FieldsHolding
  <2>2. H # {} => h = Min(H)
    BY DEF First
  <2> HIDE DEF H
  <2> QED
    BY <2>1, <2>2, FirstOf
<1> HIDE DEF R, T, named, at, bound, of, part
<1>14. CASE H # {}
  <2> HIDE DEF H, h
  <2>1. R[n] = FieldValue(side, F, h, l)
    BY <1>2, <1>9, <1>10, <1>11, <1>13, <1>14
  <2>2. T[n] = IF <<F[h].type, l.type>> \in Lossy THEN Failure
               ELSE Value("file", l.column, members(h, l), "")
    <3> HIDE DEF members
    <3> QED
      BY <1>3, <1>8, <1>12, <1>13, <1>14
  <2>3. h \in DOMAIN F /\ F[h].column = l.column
    BY <1>13, <1>14 DEF H, FieldsHolding
  <2>4. ReadsField(side, e, n, l, h)
    BY <2>1, <2>2, <2>3 DEF R, T, ReadsField
  <2> QED
    BY <2>3, <2>4
<1>15. CASE H = {}
  <2> HIDE DEF H, h, members
  <2>1. R[n] = AbsentValue(l)
    BY <1>2, <1>9, <1>10, <1>11, <1>13, <1>15
  <2>2. T[n] = CASE l.default # "" -> Value("default", 0, <<>>, l.default)
                 [] OTHER -> IF l.nullable THEN NullValue ELSE Failure
    BY <1>3, <1>8, <1>12, <1>15
  <2>3. AbsentValue(l) = CASE l.default # "" -> Value("default", 0, <<>>, l.default)
                           [] l.default = "" /\ l.nullable -> NullValue
                           [] OTHER -> Failure
    BY DEF AbsentValue
  <2>4. ReadsAbsent(side, e, n, l)
    BY <2>1, <2>2, <2>3 DEF R, T, ReadsAbsent
  <2> QED
    BY <2>4
<1> QED
  BY <1>14, <1>15

\* A partition column of a file has the value its path says.
LEMMA PartitionReads ==
  ASSUME NEW side, NEW e, NEW n \in side.reads, n \in PartitionColumns(side, e)
  PROVE  /\ ReadRow(side, e)[n] = partition_values_for(side, e)[n]
         /\ TrueRow(side, e)[n] = partition_values_for(side, e)[n]
<1> DEFINE P == PartitionColumns(side, e)
           part == FileColumns(side, e)
           F == e.fields
           L == side.logical
           at(c) == CHOOSE i \in DOMAIN part : part[i].name = c
           bound == bind_columns(side, part, F)
           named(c) == CHOOSE l \in ToSet(L) : l.name = c
           of(c) == {j \in DOMAIN F : F[j].column = named(c).column}
           members(j, l) == [i \in DOMAIN l.members |->
              IF \E m \in ToSet(F[j].members) : m.column = l.members[i].column
              THEN l.members[i].column ELSE 0]
           R == ReadRow(side, e)
           T == TrueRow(side, e)
<1>3. R[n] = CASE n \in P -> partition_values_for(side, e)[n]
               [] n \notin P /\ bound[at(n)] # 0 -> FieldValue(side, F, bound[at(n)], part[at(n)])
               [] OTHER -> AbsentValue(part[at(n)])
  BY DEF ReadRow
<1>4. T[n] = CASE n \in P -> partition_values_for(side, e)[n]
               [] n \notin P /\ of(n) # {} ->
                    IF <<F[Min(of(n))].type, named(n).type>> \in Lossy THEN Failure
                    ELSE Value("file", named(n).column, members(Min(of(n)), named(n)), "")
               [] n \notin P /\ of(n) = {} /\ named(n).default # "" ->
                    Value("default", 0, <<>>, named(n).default)
               [] OTHER -> IF named(n).nullable THEN NullValue ELSE Failure
  BY DEF TrueRow
<1> HIDE DEF R, T, members, of, named, at, bound, part
<1>5. R[n] = partition_values_for(side, e)[n] /\ T[n] = partition_values_for(side, e)[n]
  BY <1>3, <1>4
<1> QED
  BY <1>5 DEF R, T

\* Rows are functions of the columns the query reads.
LEMMA RowsAreFunctions ==
  ASSUME NEW side, NEW e
  PROVE  /\ ReadRow(side, e) = [n \in side.reads |-> ReadRow(side, e)[n]]
         /\ TrueRow(side, e) = [n \in side.reads |-> TrueRow(side, e)[n]]
<1> DEFINE P == PartitionColumns(side, e)
           part == FileColumns(side, e)
           F == e.fields
           L == side.logical
           at(n) == CHOOSE i \in DOMAIN part : part[i].name = n
           bound == bind_columns(side, part, F)
           named(n) == CHOOSE l \in ToSet(L) : l.name = n
           of(n) == {j \in DOMAIN F : F[j].column = named(n).column}
           members(j, l) == [i \in DOMAIN l.members |->
              IF \E m \in ToSet(F[j].members) : m.column = l.members[i].column
              THEN l.members[i].column ELSE 0]
           R == ReadRow(side, e)
           T == TrueRow(side, e)
<1> DEFINE A(n) == CASE n \in P -> partition_values_for(side, e)[n]
                     [] n \notin P /\ bound[at(n)] # 0 -> FieldValue(side, F, bound[at(n)], part[at(n)])
                     [] OTHER -> AbsentValue(part[at(n)])
           B(n) == CASE n \in P -> partition_values_for(side, e)[n]
                     [] n \notin P /\ of(n) # {} ->
                          IF <<F[Min(of(n))].type, named(n).type>> \in Lossy THEN Failure
                          ELSE Value("file", named(n).column, members(Min(of(n)), named(n)), "")
                     [] n \notin P /\ of(n) = {} /\ named(n).default # "" ->
                          Value("default", 0, <<>>, named(n).default)
                     [] OTHER -> IF named(n).nullable THEN NullValue ELSE Failure
<1>1. R = [n \in side.reads |-> A(n)] /\ T = [n \in side.reads |-> B(n)]
  BY DEF ReadRow, TrueRow
<1> HIDE DEF A, B, R, T
<1>2. R = [n \in side.reads |-> R[n]] /\ T = [n \in side.reads |-> T[n]]
  BY <1>1
<1> QED
  BY <1>2 DEF R, T

\* A file that opens and has a value for every column read yields the row it holds.
LEMMA RowAsWritten ==
  ASSUME NEW side, SchemaConsistent(side), NEW e \in EntriesOf(side), Readable(side, e)
  PROVE  ReadRow(side, e) = TrueRow(side, e)
<1> DEFINE P == PartitionColumns(side, e)
           R == ReadRow(side, e)
           T == TrueRow(side, e)
<1>1. ensure_unambiguous(side, FileColumns(side, e), e.fields) /\ \A n \in side.reads : R[n] # Failure
  BY DEF Readable
<1>2. ASSUME NEW n \in side.reads, n \notin P PROVE R[n] = T[n]
  <2>1. PICK l \in ToSet(side.logical) :
          (\E h \in DOMAIN e.fields : ReadsField(side, e, n, l, h)) \/ ReadsAbsent(side, e, n, l)
    BY <1>1, <1>2, ColumnReads
  <2>2. ASSUME NEW h \in DOMAIN e.fields, ReadsField(side, e, n, l, h) PROVE R[n] = T[n]
    <3>1. FieldValue(side, e.fields, h, l) # Failure /\ e.fields[h].column = l.column
      BY <1>1, <2>2 DEF ReadsField
    <3>2. AsWritten(side, e, h, l)
      BY <3>1, FieldAsWritten
    <3>3. /\ <<e.fields[h].type, l.type>> \notin Lossy
          /\ FieldValue(side, e.fields, h, l) = Value("file", l.column, WrittenMembers(e.fields[h], l), "")
      BY <3>2 DEF AsWritten, WrittenMembers
    <3> QED
      BY <2>2, <3>3 DEF ReadsField
  <2>3. ASSUME ReadsAbsent(side, e, n, l) PROVE R[n] = T[n]
    BY <2>3 DEF ReadsAbsent
  <2> QED
    BY <2>1, <2>2, <2>3
<1>3. ASSUME NEW n \in side.reads, n \in P
      PROVE  R[n] = partition_values_for(side, e)[n] /\ T[n] = partition_values_for(side, e)[n]
  BY <1>3, PartitionReads
<1>4. R = [n \in side.reads |-> R[n]] /\ T = [n \in side.reads |-> T[n]]
  BY RowsAreFunctions
<1> HIDE DEF R, T
<1>5. R = T
  BY <1>2, <1>3, <1>4
<1> QED
  BY <1>5 DEF R, T

-----------------------------------------------------------------------------
\* A call's tables are stored as their formats store them.
LEMMA CallSchemas ==
  ASSUME call \in Calls, NEW s \in Sides
  PROVE  SchemaConsistent(Side(s))
BY ScanCallAssumption DEF Sides, Side

\* Rows stay as written while none is handed out.
LEMMA ValuesSame ==
  ASSUME ValuesAsWritten, UNCHANGED <<call, emitted>>
  PROVE  ValuesAsWritten'
BY DEF ValuesAsWritten, Sides, Side, Entry

\* EmitBatch hands out rows as their file holds them.
LEMMA EmitBatchValues ==
  ASSUME IInv, ValuesAsWritten, NEW s \in Sides, NEW b \in todo[s], EmitBatch(s, b[1], b[2])
  PROVE  ValuesAsWritten'
<1> DEFINE f == b[1]
           g == b[2]
           e == Entry(s, f)
           rows == SelectedRows(e.groups, g, Access(s, f, g))
           new == {[file |-> f, row |-> r, values |-> ReadRow(Side(s), e)] : r \in rows}
<1>1. call \in Calls /\ b \in GroupsOf(s) /\ DOMAIN emitted = Sides
  BY DEF IInv, Shape
<1>2. e \in EntriesOf(Side(s))
  <2>1. f \in Assigned(Side(s))
    BY <1>1 DEF GroupsOf, Assigned
  <2> HIDE DEF f
  <2> QED
    BY <2>1, EntryOf
<1>3. CASE ~Found(s, e.path) \/ ~Readable(Side(s), e) \/ (rows # {} /\ g \in e.unfit)
  <2>1. Fail
    BY <1>3 DEF EmitBatch
  <2>2. UNCHANGED <<call, emitted>>
    BY <2>1 DEF Fail
  <2> QED
    BY <2>2, ValuesSame
<1>4. CASE ~(~Found(s, e.path) \/ ~Readable(Side(s), e) \/ (rows # {} /\ g \in e.unfit))
  <2>1. Readable(Side(s), e) /\ call' = call /\ emitted' = [emitted EXCEPT ![s] = @ \cup new]
    BY <1>4 DEF EmitBatch
  <2>2. ReadRow(Side(s), e) = TrueRow(Side(s), e)
    <3>1. SchemaConsistent(Side(s))
      BY <1>1, CallSchemas
    <3> HIDE DEF e
    <3> QED
      BY <1>2, <2>1, <3>1, RowAsWritten
  <2>3. ASSUME NEW r \in new PROVE r.values = TrueRow(Side(s), Entry(s, r.file))
    <3> HIDE DEF rows
    <3>1. r.file = f /\ r.values = ReadRow(Side(s), e)
      BY <2>3
    <3> QED
      BY <2>2, <3>1
  <2> HIDE DEF new
  <2>4. emitted'[s] = emitted[s] \cup new /\ \A o \in Sides : o # s => emitted'[o] = emitted[o]
    BY <1>1, <2>1
  <2>5. ASSUME NEW o \in Sides, NEW r \in emitted'[o] PROVE r.values = TrueRow(Side(o), Entry(o, r.file))
    <3>1. CASE r \in emitted[o]
      BY <3>1 DEF ValuesAsWritten
    <3>2. CASE r \notin emitted[o]
      BY <2>3, <2>4, <2>5, <3>2
    <3> QED
      BY <3>1, <3>2
  <2>6. Sides' = Sides
    BY <2>1 DEF Sides
  <2>7. ASSUME NEW o \in Sides, NEW r \in emitted'[o] PROVE (r.values = TrueRow(Side(o), Entry(o, r.file)))'
    <3>1. Side(o)' = Side(o) /\ Entry(o, r.file)' = Entry(o, r.file)
      BY <2>1 DEF Side, Entry
    <3> QED
      BY <2>5, <2>7, <3>1
  <2> QED
    BY <2>6, <2>7 DEF ValuesAsWritten
<1> QED
  BY <1>3, <1>4

\* No step but EmitBatch hands out rows, whether or not it fails the call.
LEMMA NextValues ==
  ASSUME IInv, ValuesAsWritten, [Next]_vars
  PROVE  ValuesAsWritten'
<1>1. CASE BuildSessionContext
  <2>1. UNCHANGED <<call, emitted>>
    BY <1>1 DEF BuildSessionContext, Fail
  <2> QED
    BY <2>1, ValuesSame
<1>2. ASSUME NEW s \in Sides, SideStep(s) PROVE ValuesAsWritten'
  <2>1. CASE RegisterFileList(s)
    <3>1. UNCHANGED <<call, emitted>>
      BY <2>1 DEF RegisterFileList, Fail
    <3> QED
      BY <3>1, ValuesSame
  <2>2. CASE StartPartitionedFiles(s)
    <3>1. UNCHANGED <<call, emitted>>
      BY <2>2 DEF StartPartitionedFiles, Fail
    <3> QED
      BY <3>1, ValuesSame
  <2>3. CASE SpawnRowGroups(s) \/ SpawnUnions(s) \/ SpawnPlans(s) \/ EndPlans(s) \/ DropProviders(s)
    <3>1. UNCHANGED <<call, emitted>>
      BY <2>3 DEF SpawnRowGroups, SpawnUnions, SpawnPlans, EndPlans, DropProviders
    <3> QED
      BY <3>1, ValuesSame
  <2>4. ASSUME NEW t \in DOMAIN tasks[s], TaskStep(s, t) PROVE ValuesAsWritten'
    <3>1. CASE Acquire(s, t) \/ Arrive(s, t) \/ DecodeBatch(s, t) \/ BuildPlan(s, t) \/ Abort(s, t)
      <4>1. UNCHANGED <<call, emitted>>
        BY <3>1 DEF Acquire, Arrive, DecodeBatch, BuildPlan, Abort, Fail
      <4> QED
        BY <4>1, ValuesSame
    <3>2. CASE EndDecode(s, t) \/ DecodeVectors(s, t) \/ Unite(s, t)
      <4>1. UNCHANGED <<call, emitted>>
        BY <3>2 DEF EndDecode, DecodeVectors, Unite, Finish, Fail
      <4> QED
        BY <4>1, ValuesSame
    <3> QED
      BY <2>4, <3>1, <3>2 DEF TaskStep
  <2>5. ASSUME NEW b \in todo[s], EmitBatch(s, b[1], b[2]) PROVE ValuesAsWritten'
    BY <2>5, EmitBatchValues
  <2> QED
    BY <1>2, <2>1, <2>2, <2>3, <2>4, <2>5 DEF SideStep
<1>3. CASE StartStream \/ EndStream \/ StoreFails \/ UNCHANGED vars
  <2>1. UNCHANGED <<call, emitted>>
    BY <1>3 DEF StartStream, EndStream, StoreFails, vars
  <2> QED
    BY <2>1, ValuesSame
<1> QED
  BY <1>1, <1>2, <1>3 DEF Next, Steps

\* ValuesAsWritten: whatever the files are named, numbered and cased like, a row that is
\* handed out has in every column the value written for that column of the table, its
\* default or NULL where the file has none, and its partition's value.
THEOREM RowsAsWritten == Spec => []ValuesAsWritten
<1>1. Init => ValuesAsWritten
  BY DEF Init, ValuesAsWritten
<1>2. IInv /\ ValuesAsWritten /\ [Next]_vars => ValuesAsWritten'
  BY NextValues
<1> QED
  BY <1>1, <1>2, Invariance, PTL DEF Spec

-----------------------------------------------------------------------------
\* A file of a sound side opens: no two of its fields, nor two columns, have the same
\* letters, so that none is ambiguous.
LEMMA SoundUnambiguous ==
  ASSUME NEW side, SchemaConsistent(side), Sound(side), NEW e \in EntriesOf(side)
  PROVE  ensure_unambiguous(side, FileColumns(side, e), e.fields)
<1> DEFINE F == e.fields
           part == FileColumns(side, e)
           X == ExactClaims(side, part, F)
<1>1. \A j, k \in DOMAIN F : Fold(F[j].name) = Fold(F[k].name) => j = k
  BY DEF Sound
<1>2. \A i, k \in DOMAIN part : Fold(part[i].name) = Fold(part[k].name) => i = k
  BY FileColumnsAre DEF AskedOf
<1>3. ASSUME NEW S, \A x, y \in S : x = y PROVE S = {} \/ Cardinality(S) = 1
  <2>1. CASE S # {}
    <3>1. PICK x : S = {x}
      BY <1>3, <2>1
    <3> QED
      BY <3>1, FS_Singleton
  <2> QED
    BY <2>1
<1>4. ASSUME NEW j \in DOMAIN F
      PROVE  LET G == FoldGroup(X, part, F, Fold(F[j].name))
             IN  (G.files = {} \/ Cardinality(G.files) = 1) /\ (G.table = {} \/ Cardinality(G.table) = 1)
  <2> DEFINE G == FoldGroup(X, part, F, Fold(F[j].name))
  <2> HIDE DEF X, F, part
  <2>1. \A x, y \in G.files : x = y
    BY <1>1 DEF FoldGroup
  <2>2. \A x, y \in G.table : x = y
    BY <1>2 DEF FoldGroup
  <2> HIDE DEF G
  <2>3. (G.files = {} \/ Cardinality(G.files) = 1) /\ (G.table = {} \/ Cardinality(G.table) = 1)
    BY <1>3, <2>1, <2>2
  <2> QED
    BY <2>3 DEF G
<1>5. ensure_unambiguous(side, part, F) <=>
        \A j \in DOMAIN F :
           LET G == FoldGroup(X, part, F, Fold(F[j].name))
           IN  G.files = {} \/ G.table = {} \/ (Cardinality(G.files) = 1 /\ Cardinality(G.table) = 1)
  BY Zenon DEF ensure_unambiguous
<1> HIDE DEF part, X, F
<1>6. ensure_unambiguous(side, part, F)
  BY <1>4, <1>5
<1> QED
  BY <1>6 DEF part, F

\* A file of a sound side has a value for every column a query reads.
LEMMA SoundReadable ==
  ASSUME NEW side, SchemaConsistent(side), Sound(side), NEW e \in EntriesOf(side)
  PROVE  Readable(side, e)
<1>1. ensure_unambiguous(side, FileColumns(side, e), e.fields)
  BY SoundUnambiguous
<1>2. ASSUME NEW n \in side.reads, n \in PartitionColumns(side, e) PROVE ReadRow(side, e)[n] # Failure
  BY <1>2, PartitionReads DEF Sound
<1>3. ASSUME NEW n \in side.reads, n \notin PartitionColumns(side, e) PROVE ReadRow(side, e)[n] # Failure
  <2>1. PICK l \in ToSet(side.logical) :
          (\E h \in DOMAIN e.fields : ReadsField(side, e, n, l, h)) \/ ReadsAbsent(side, e, n, l)
    BY <1>1, <1>3, ColumnReads
  <2>2. ASSUME NEW h \in DOMAIN e.fields, ReadsField(side, e, n, l, h) PROVE ReadRow(side, e)[n] # Failure
    <3> DEFINE f == e.fields[h]
               slots == claim_struct_slots(f.members, l.members, mapped(MappingFor(side, e.fields), f.name))
               source(x) == IF x = 0 THEN 0 ELSE f.members[x].column
               read == [i \in DOMAIN slots |-> source(slots[i])]
    <3>1. FieldValue(side, e.fields, h, l) =
            CASE f.type = "struct" /\ l.members # <<>> -> Value("file", f.column, read, "")
              [] f.type # "struct" /\ admits(f.type, l.type) -> Value("file", f.column, <<>>, "")
              [] OTHER -> Failure
      BY DEF FieldValue
    <3>2. f.column = l.column
      BY <2>2 DEF ReadsField
    <3>3. IF f.type = "struct" THEN l.members # <<>> ELSE admits(f.type, l.type)
      <4>1. \A j \in DOMAIN e.fields : \A k \in ToSet(side.logical) :
              e.fields[j].column = k.column =>
                 IF e.fields[j].type = "struct" THEN k.members # <<>> ELSE admits(e.fields[j].type, k.type)
        BY DEF Sound
      <4> QED
        BY <3>2, <4>1
    <3>4. \A m : Value("file", f.column, m, "") # Failure
      <4>1. Failure.kind = "failure" /\ \A m : Value("file", f.column, m, "").kind = "file"
        BY DEF Value, Failure
      <4> QED
        BY <4>1
    <3> HIDE DEF read, f
    <3>5. FieldValue(side, e.fields, h, l) # Failure
      BY <3>1, <3>3, <3>4
    <3> QED
      BY <2>2, <3>5 DEF ReadsField
  <2>3. ASSUME ReadsAbsent(side, e, n, l) PROVE ReadRow(side, e)[n] # Failure
    <3>1. TrueRow(side, e)[n] # Failure
      BY DEF Sound
    <3> QED
      BY <2>3, <3>1 DEF ReadsAbsent
  <2> QED
    BY <2>1, <2>2, <2>3
<1> QED
  BY <1>1, <1>2, <1>3 DEF Readable

\* A side's mechanisms that can be applied: each passes the checks of the scan.
LEMMA SoundApplicable ==
  ASSUME NEW side, SideShape(side), ~Unappliable(side)
  PROVE  Applicable(side)
<1> SUFFICES ASSUME NEW m \in Mechanisms(side) PROVE applicable_delete_mechanism(m)
  BY DEF Applicable
<1>1. PICK e \in EntriesOf(side) : m \in e.deletes
  BY DEF Mechanisms
<1>2. MechanismShape(side, m)
  BY <1>1 DEF SideShape
<1>3. m.kind \in {"posfile", "delta", "puffin"}
  BY <1>2 DEF MechanismShape, Unappliable
<1>4. CASE m.kind = "delta"
  <2>1. m.sound /\ m.cardinality = Cardinality(m.positions)
    BY <1>4 DEF Unappliable
  <2>2. IsFiniteSet(m.positions)
    BY <1>2, <1>4 DEF MechanismShape
  <2>3. Cardinality(m.positions) \in Nat
    BY <2>2, FS_CardinalityType
  <2> QED
    BY <1>4, <2>1, <2>3 DEF applicable_delete_mechanism, resolve_descriptor
<1>5. CASE m.kind = "puffin"
  <2>1. ~(m.end > m.size)
    BY <1>5 DEF Unappliable
  <2>2. m.end \in Nat /\ m.size \in Nat
    BY <1>2, <1>5 DEF MechanismShape
  <2> QED
    BY <1>5, <2>1, <2>2 DEF applicable_delete_mechanism, resolve_manifest_vector
<1>6. CASE m.kind = "posfile"
  BY <1>6 DEF applicable_delete_mechanism
<1> QED
  BY <1>3, <1>4, <1>5, <1>6

\* The entry and the mechanism of a vector.
LEMMA VectorEntry ==
  ASSUME NEW side, NEW kind, NEW m \in Members(side, kind)
  PROVE  \E e \in EntriesOf(side) : m.vector \in e.deletes /\ m.vector.kind = kind /\ m.vector \in Mechanisms(side)
<1>1. PICK e \in EntriesOf(side) : \E d \in e.deletes :
        d.kind = kind /\ m = [file |-> e.path.id, vector |-> d]
  BY DEF Members
<1>2. PICK d \in e.deletes : d.kind = kind /\ m = [file |-> e.path.id, vector |-> d]
  BY <1>1
<1> QED
  BY <1>2 DEF Mechanisms

\* What a vector read reads: the sidecar of its Delta vectors, or a span of a Puffin file.
VectorRead(side, t) ==
    \/ /\ t.members \subseteq Members(side, "delta")
       /\ t.path # Inline => \E m \in Members(side, "delta") : t.path = m.vector.sidecar
    \/ /\ t.members \subseteq Members(side, "puffin")
       /\ Spans(t)
       /\ \E m \in Members(side, "puffin") : t.path = m.vector.path

\* Every vector read of a side is one of these two.
LEMMA VectorReads ==
  ASSUME NEW side, SideShape(side), NEW t \in FirstReads(side), t.op = "vector"
  PROVE  VectorRead(side, t)
<1>1. CASE t \in delete_file_opens(side)
  BY <1>1 DEF delete_file_opens, Task
<1>2. CASE t \in delta_vector_reads(side)
  <2> DEFINE V == Members(side, "delta")
             read(path, members) == [Task("vector", path) EXCEPT !.members = members]
  <2>1. ASSUME NEW p, NEW S PROVE read(p, S).path = p /\ read(p, S).members = S
    BY DEF Task
  <2>2. \/ \E p \in {m.vector.sidecar : m \in V} : t = read(p, {m \in V : m.vector.sidecar = p})
        \/ \E m \in V : t = read(Inline, {m})
    BY <1>2 DEF delta_vector_reads
  <2> HIDE DEF V, read
  <2>3. CASE \E p \in {m.vector.sidecar : m \in V} : t = read(p, {m \in V : m.vector.sidecar = p})
    <3>1. PICK p \in {m.vector.sidecar : m \in V} : t = read(p, {m \in V : m.vector.sidecar = p})
      BY <2>3
    <3>2. t.path = p /\ t.members = {m \in V : m.vector.sidecar = p}
      BY <2>1, <3>1
    <3> QED
      BY <3>2 DEF VectorRead, V
  <2>4. CASE \E m \in V : t = read(Inline, {m})
    <3>1. PICK m \in V : t = read(Inline, {m})
      BY <2>4
    <3>2. t.path = Inline /\ t.members = {m}
      BY <2>1, <3>1
    <3> QED
      BY <3>1, <3>2 DEF VectorRead, V
  <2> QED
    BY <2>2, <2>3, <2>4
<1>3. CASE t \in iceberg_vector_reads(side)
  <2> DEFINE V == Members(side, "puffin")
             B(p) == {m \in V : m.vector.path = p}
  <2>1. PICK p \in {m.vector.path : m \in V} : t \in merge_blob_ranges(B(p))
    BY <1>3 DEF iceberg_vector_reads
  <2>2. IsFiniteSet(V) /\ Ranged(V)
    BY MembersFinite, PuffinRanged
  <2>3. IsFiniteSet(B(p)) /\ Ranged(B(p)) /\ B(p) \subseteq V
    BY <2>2, FS_Subset DEF Ranged
  <2> HIDE DEF B, V
  <2>4. t \in PuffinRequests(B(p)) /\ Spans(t)
    BY <2>1, <2>3, MergedRequests
  <2>5. t.members \subseteq B(p) /\ \E m \in B(p) : t.path = m.vector.path
    BY <2>4 DEF PuffinRequests
  <2> QED
    BY <2>3, <2>4, <2>5 DEF VectorRead, V
<1> QED
  BY <1>1, <1>2, <1>3 DEF FirstReads

\* The vectors of a sound side decode: each lies in the bytes its request read and holds
\* as many positions as declared.
LEMMA SoundDecodes ==
  ASSUME NEW side, SideShape(side), ~Unappliable(side), NEW t \in FirstReads(side), t.op = "vector",
         NEW m \in t.members
  PROVE  Decodes(m) /\ (m.vector.kind = "puffin" => t.from <= m.vector.start /\ m.vector.end <= t.to)
<1>1. VectorRead(side, t)
  BY VectorReads
<1>2. ASSUME NEW kind \in {"delta", "puffin"}, m \in Members(side, kind)
      PROVE  Decodes(m) /\ m.vector.kind = kind
  <2>1. m.vector \in Mechanisms(side) /\ m.vector.kind = kind
    BY <1>2, VectorEntry
  <2> QED
    BY <1>2, <2>1 DEF Unappliable, Decodes
<1> QED
  BY <1>1, <1>2 DEF VectorRead, Spans

\* The batches of a sound side's delete files name positions that can be.
LEMMA SoundBatches ==
  ASSUME NEW side, ~Unappliable(side), NEW t, t.op \in {"open", "group"}, Reading(side, t),
         NEW g \in DOMAIN side.content[t.path.id]
  PROVE  ~Malformed(side, side.content[t.path.id][g])
<1>1. PICK m \in Mechanisms(side) : m.kind = "posfile" /\ t.path = m.path
  BY DEF Reading
<1>2. side.content[m.path.id][g] \in ToSet(side.content[m.path.id])
  BY <1>1 DEF ToSet
<1> QED
  BY <1>1, <1>2 DEF Unappliable

-----------------------------------------------------------------------------
\* A path that a request of the side finds: an object of the side's store whose key the
\* side lists or has under its root.
Reachable(s, path) ==
    /\ path \in Objects /\ path.store = side_store_url(Side(s))
    /\ Key(path) \in owned(s) \/ IsPrefix(Side(s).root, path.root)

\* Once the file lists are checked, a request for such a path finds its object.
LEMMA ReachableFound ==
  ASSUME IInv, NEW s \in Sides, stage[s] \notin Unregistered \cup {"registered"}, NEW path, Reachable(s, path)
  PROVE  Found(s, path)
<1> DEFINE as == route(s, path)
<1>1. call \in Calls /\ validate_sides_share_one_store /\ \A r \in Sides : Checked(r)
  BY AllChecked DEF IInv, Shape
<1>2. Key(path) \in owned(s) \/ IsPrefix(Side(s).root, path.root)
  BY DEF Reachable
<1>3. as # 0 /\ side_store_url(Side(as)) = side_store_url(Side(s))
  BY <1>1, <1>2, RouteIs
<1> HIDE DEF as
<1>4. \E o \in Objects : Key(o) = Key(path) /\ o.store = side_store_url(Side(as))
  BY <1>3 DEF Reachable
<1> QED
  BY <1>3, <1>4 DEF Found, as

\* A data file of a side is such a path.
LEMMA EntryReachable ==
  ASSUME NEW s \in Sides, Checked(s), NEW e \in EntriesOf(Side(s))
  PROVE  Reachable(s, e.path)
<1>1. e.path \in Listed(s)
  BY DEF Listed
<1>2. e.path \in Objects
  BY DEF Objects
<1>3. Key(e.path) \in owned(s)
  BY DEF owned
<1> QED
  BY <1>1, <1>2, <1>3, ListedStore DEF Reachable

\* So is a delete file.
LEMMA DeleteFileReachable ==
  ASSUME NEW s \in Sides, Checked(s), NEW m \in Mechanisms(Side(s)), m.kind # "delta"
  PROVE  Reachable(s, m.path)
<1>1. PICK e \in EntriesOf(Side(s)) : m \in e.deletes
  BY DEF Mechanisms
<1>2. m.path \in Listed(s)
  BY <1>1 DEF Listed
<1>3. m.path \in Objects
  BY DEF Objects
<1>4. Key(m.path) \in owned(s)
  <2>1. m.path \in UNION {object_store_path(d) : d \in Mechanisms(Side(s))}
    BY DEF object_store_path
  <2> QED
    BY <2>1 DEF owned
<1> QED
  BY <1>2, <1>3, <1>4, ListedStore DEF Reachable

\* So is the sidecar of a Delta vector of a sound side, though no check of the scan sees it.
LEMMA SidecarReachable ==
  ASSUME NEW s \in Sides, Checked(s), Sound(Side(s)), NEW e \in EntriesOf(Side(s)), NEW m \in e.deletes,
         m.kind = "delta", m.sidecar # Inline
  PROVE  Reachable(s, m.sidecar)
<1>1. m.sidecar.store = e.path.store /\ IsPrefix(Side(s).root, m.sidecar.root)
  BY DEF Sound
<1>2. e.path \in Listed(s)
  BY DEF Listed
<1>3. e.path.store = side_store_url(Side(s))
  BY <1>2, ListedStore
<1>4. m \in Mechanisms(Side(s))
  BY DEF Mechanisms
<1>5. m.sidecar \in Objects
  BY <1>4 DEF Objects
<1> QED
  BY <1>1, <1>3, <1>5 DEF Reachable

\* A task that waits has something to read; the tasks that unite positions and build
\* plans are for data files of the side.
Spawned ==
    \A s \in Sides : \A t \in DOMAIN tasks[s] :
        /\ tasks[s][t].at = "waiting" => Reads(t)
        /\ t.op \in {"union", "plan"} => \E e \in EntriesOf(Side(s)) : t.path = e.path
KeepsTasks ==
    \A o \in Sides : \A u \in DOMAIN tasks'[o] :
        u \in DOMAIN tasks[o] /\ (tasks'[o][u].at = "waiting" => tasks[o][u].at = "waiting")

\* Steps that spawn no task keep that.
LEMMA SpawnedSame ==
  ASSUME Spawned, call' = call, KeepsTasks
  PROVE  Spawned'
BY DEF Spawned, KeepsTasks, Sides, Side

\* So does a step that spawns tasks of one side.
LEMMA SpawnedNew ==
  ASSUME Spawned, call' = call, DOMAIN tasks = Sides, NEW s \in Sides, NEW new, NEW left,
         Spawn(s, new, left),
         \A t \in new : t.op \in {"union", "plan"} => \E e \in EntriesOf(Side(s)) : t.path = e.path
  PROVE  Spawned'
<1>1. tasks'[s] = NewTasks(new, left) /\ \A o \in Sides \ {s} : tasks'[o] = tasks[o]
  BY SpawnIs
<1>2. DOMAIN tasks'[s] = new /\ \A t \in new : tasks'[s][t].at = "waiting" => Reads(t)
  BY <1>1 DEF NewTasks
<1>3. Sides' = Sides /\ \A o \in Sides : Side(o)' = Side(o)
  BY DEF Sides, Side
<1>4. ASSUME NEW o \in Sides, NEW t \in DOMAIN tasks'[o]
      PROVE  /\ tasks'[o][t].at = "waiting" => Reads(t)
             /\ t.op \in {"union", "plan"} => \E e \in EntriesOf(Side(o)) : t.path = e.path
  <2>1. CASE o = s
    BY <1>2, <1>4, <2>1
  <2>2. CASE o # s
    BY <1>1, <1>4, <2>2 DEF Spawned
  <2> QED
    BY <2>1, <2>2
<1> QED
  BY <1>3, <1>4 DEF Spawned

\* A step of one task spawns none.
LEMMA SpawnedTask ==
  ASSUME IInv, Spawned, NEW s \in Sides, NEW t \in DOMAIN tasks[s], TaskStep(s, t)
  PROVE  Spawned'
<1>1. /\ DOMAIN tasks = Sides
      /\ \A u \in DOMAIN tasks[s] :
           tasks[s][u] = [at |-> tasks[s][u].at, left |-> tasks[s][u].left, found |-> tasks[s][u].found]
  BY TaskFacts DEF IInv, Shape, TaskOK
<1>2. SUFFICES call' = call /\ KeepsTasks
  BY SpawnedSame
<1>3. CASE Fail
  BY <1>3 DEF Fail, KeepsTasks
<1>4. CASE ~Fail
  <2>1. CASE Acquire(s, t)
    BY <1>1, <1>4, <2>1 DEF Acquire, KeepsTasks
  <2>2. CASE Arrive(s, t)
    BY <1>1, <2>2 DEF Arrive, KeepsTasks
  <2>3. CASE DecodeBatch(s, t)
    <3> DEFINE g == Min(tasks[s][t].left)
               found == add_positions(tasks[s][t].found, Side(s), Side(s).content[t.path.id][g])
    <3>1. call' = call /\ tasks' = [tasks EXCEPT ![s][t].left = @ \ {g}, ![s][t].found = found]
      BY <1>4, <2>3 DEF DecodeBatch
    <3> HIDE DEF g, found
    <3> QED
      BY <1>1, <3>1 DEF KeepsTasks
  <2>4. ASSUME NEW found, NEW bytes, Finish(s, t, found, bytes) PROVE call' = call /\ KeepsTasks
    BY <1>1, <1>4, <2>4 DEF Finish, KeepsTasks
  <2>5. CASE EndDecode(s, t)
    BY <2>4, <2>5 DEF EndDecode
  <2>6. CASE DecodeVectors(s, t)
    BY <1>4, <2>4, <2>6 DEF DecodeVectors
  <2>7. CASE Unite(s, t)
    BY <2>4, <2>7 DEF Unite
  <2>8. CASE BuildPlan(s, t)
    <3>1. tasks' = [tasks EXCEPT ![s][t].at = "done"] /\ call' = call
      BY <1>4, <2>8 DEF BuildPlan
    <3> QED
      BY <1>1, <3>1 DEF KeepsTasks
  <2>9. CASE Abort(s, t)
    BY <1>1, <2>9 DEF Abort, KeepsTasks
  <2> QED
    BY <2>1, <2>2, <2>3, <2>5, <2>6, <2>7, <2>8, <2>9 DEF TaskStep
<1> QED
  BY <1>3, <1>4

\* The unions are for files that the tasks found positions for: files of the side.
LEMMA SpawnedUnions ==
  ASSUME IInv, Spawned, NEW s \in Sides, SpawnUnions(s)
  PROVE  Spawned'
<1> DEFINE side == Side(s)
           old == tasks[s]
           ss == sets[s]
           all == ss \cup Gathered(old)
           new == {Task("union", Entry(s, f).path) : f \in FilesIn(all)}
<1>1. outcome = "running" /\ stage[s] = "grouping" /\ Spawn(s, new, Nothing(new)) /\ call' = call
  BY DEF SpawnUnions, Gathered, FilesIn
<1>2. SideInv(side, "grouping", old, ss, plans[s]) /\ DOMAIN tasks = Sides
  BY <1>1, SideFacts
<1>3. FilesIn(all) \subseteq Assigned(side)
  <2>1. \A r \in ss : FoundOK(side, r.found)
    BY <1>2 DEF SideInv, SetOK
  <2>2. \A t \in DOMAIN old : FoundOK(side, old[t].found)
    BY <1>2 DEF SideInv, TaskOK
  <2>3. \A r \in Gathered(old) : \E t \in DOMAIN old : r.found = old[t].found
    BY DEF Gathered
  <2> HIDE DEF side, ss, old
  <2> QED
    BY <2>1, <2>2, <2>3 DEF FilesIn, FoundOK
<1>4. ASSUME NEW t \in new PROVE \E e \in EntriesOf(side) : t.path = e.path
  <2>1. PICK f \in FilesIn(all) : t = Task("union", Entry(s, f).path)
    OBVIOUS
  <2>2. t.path = Entry(s, f).path
    BY <2>1 DEF Task
  <2>3. Entry(s, f) \in EntriesOf(side)
    BY <1>3, EntryOf
  <2> QED
    BY <2>2, <2>3
<1> HIDE DEF new
<1> QED
  BY <1>1, <1>2, <1>4, SpawnedNew

\* The plans are for the files of the unions.
LEMMA SpawnedPlans ==
  ASSUME IInv, Spawned, NEW s \in Sides, SpawnPlans(s)
  PROVE  Spawned'
<1> DEFINE old == tasks[s]
           T == {u \in DOMAIN old : old[u].found[u.path.id] # {}}
           new == {Task("plan", t.path) : t \in T}
<1>1. /\ outcome = "running" /\ stage[s] = "uniting" /\ call' = call
      /\ tasks' = [tasks EXCEPT ![s] = <<>>] \/ Spawn(s, new, Nothing(new))
  BY DEF SpawnPlans
<1>2. SideInv(Side(s), "uniting", old, sets[s], plans[s]) /\ DOMAIN tasks = Sides
  BY <1>1, SideFacts
<1>3. CASE tasks' = [tasks EXCEPT ![s] = <<>>]
  <2>1. KeepsTasks
    BY <1>2, <1>3 DEF KeepsTasks
  <2> QED
    BY <1>1, <1>2, <2>1, SpawnedSame
<1>4. CASE Spawn(s, new, Nothing(new))
  <2>1. ASSUME NEW t \in new PROVE \E e \in EntriesOf(Side(s)) : t.path = e.path
    <3>1. PICK u \in T : t = Task("plan", u.path)
      OBVIOUS
    <3>2. t.path = u.path /\ u \in DOMAIN old
      BY <3>1 DEF Task
    <3>3. u.op \in {"union", "plan"}
      BY <1>2, <3>2 DEF SideInv, TaskOK, OpsAt
    <3> QED
      BY <3>2, <3>3 DEF Spawned
  <2> HIDE DEF new
  <2> QED
    BY <1>1, <1>2, <1>4, <2>1, SpawnedNew
<1> QED
  BY <1>1, <1>3, <1>4

\* Every step keeps them so.
LEMMA SpawnedNext ==
  ASSUME IInv, Spawned, [Next]_vars
  PROVE  Spawned'
<1>1. DOMAIN tasks = Sides /\ call \in Calls
  BY DEF IInv, Shape
<1>2. CASE call' = call /\ tasks' = tasks
  BY <1>1, <1>2, SpawnedSame DEF KeepsTasks
<1>3. CASE BuildSessionContext \/ StartStream \/ EndStream \/ StoreFails \/ UNCHANGED vars
  BY <1>2, <1>3 DEF BuildSessionContext, StartStream, EndStream, StoreFails, Fail, vars
<1>4. ASSUME NEW s \in Sides, SideStep(s) PROVE Spawned'
  <2> DEFINE side == Side(s)
  <2>1. CASE RegisterFileList(s)
    BY <1>2, <2>1 DEF RegisterFileList, Fail
  <2>2. CASE StartPartitionedFiles(s)
    <3> DEFINE left == [t \in FirstReads(side) |-> IF t.op = "open" THEN InTail(side, t.path) ELSE {}]
    <3>1. call' = call /\ (tasks' = tasks \/ Spawn(s, FirstReads(side), left))
      BY <2>2 DEF StartPartitionedFiles, Fail, FirstReads
    <3>2. \A t \in FirstReads(side) : t.op \notin {"union", "plan"}
      BY <1>1, CallFacts, ReadsOf
    <3> HIDE DEF left
    <3> QED
      BY <1>1, <1>2, <3>1, <3>2, SpawnedNew
  <2>3. CASE SpawnRowGroups(s)
    <3> DEFINE left == [t \in row_group_reads(side) |-> {t.group}]
    <3>1. call' = call /\ Spawn(s, row_group_reads(side), left)
      BY <2>3 DEF SpawnRowGroups
    <3>2. \A t \in row_group_reads(side) : t.op \notin {"union", "plan"}
      BY <1>1, CallFacts, ReadsOf
    <3> HIDE DEF left
    <3> QED
      BY <1>1, <3>1, <3>2, SpawnedNew
  <2>4. CASE SpawnUnions(s)
    BY <2>4, SpawnedUnions
  <2>5. CASE SpawnPlans(s)
    BY <2>5, SpawnedPlans
  <2>6. CASE EndPlans(s)
    <3>1. call' = call /\ KeepsTasks
      BY <1>1, <2>6 DEF EndPlans, KeepsTasks
    <3> QED
      BY <1>1, <3>1, SpawnedSame
  <2>7. CASE DropProviders(s)
    BY <1>2, <2>7 DEF DropProviders
  <2>8. ASSUME NEW t \in DOMAIN tasks[s], TaskStep(s, t) PROVE Spawned'
    BY <2>8, SpawnedTask
  <2>9. ASSUME NEW b \in todo[s], EmitBatch(s, b[1], b[2]) PROVE Spawned'
    BY <1>2, <2>9 DEF EmitBatch, Fail
  <2> QED
    BY <1>4, <2>1, <2>2, <2>3, <2>4, <2>5, <2>6, <2>7, <2>8, <2>9 DEF SideStep
<1> QED
  BY <1>3, <1>4 DEF Next, Steps

-----------------------------------------------------------------------------
\* A task that decodes vectors is one of the first reads.
LEMMA VectorTask ==
  ASSUME IInv, Collected, outcome = "running", NEW s \in Sides, NEW t \in DOMAIN tasks[s], t.op = "vector"
  PROVE  t \in FirstReads(Side(s)) /\ SideShape(Side(s))
<1>1. SideShape(Side(s)) /\ stage[s] \in {"opening", "grouping"} /\ t.op \in OpsAt(stage[s])
  BY StageOf DEF TaskOK
<1>2. stage[s] = "opening"
  BY <1>1 DEF OpsAt
<1>3. CollectOK(Side(s), stage[s], tasks[s], sets[s], plans[s])
  BY DEF Collected
<1> QED
  BY <1>1, <1>2, <1>3 DEF CollectOK

\* The row groups of a delete file are numbered.
LEMMA ContentNat ==
  ASSUME NEW side, SideShape(side), NEW t, t.op \in {"open", "group"}, Reading(side, t)
  PROVE  DOMAIN side.content[t.path.id] \subseteq Nat
<1>1. PICK m \in Mechanisms(side) : m.kind = "posfile" /\ t.path = m.path
  BY DEF Reading
<1>2. PICK e \in EntriesOf(side) : m \in e.deletes
  BY DEF Mechanisms
<1>3. MechanismShape(side, m)
  BY <1>2 DEF SideShape
<1> DEFINE groups == side.content[t.path.id]
<1>4. groups \in Seq(Range(groups))
  BY <1>1, <1>3 DEF MechanismShape
<1> HIDE DEF groups
<1>5. DOMAIN groups \subseteq Nat
  BY <1>4
<1> QED
  BY <1>5 DEF groups

\* What a task of a sound side reads is there.
LEMMA TaskFound ==
  ASSUME IInv, Collected, Spawned, outcome = "running", NEW s \in Sides, Sound(Side(s)),
         NEW t \in DOMAIN tasks[s], Reads(t)
  PROVE  Found(s, t.path)
<1> DEFINE side == Side(s)
<1>1. /\ TaskOK(side, stage[s], t, tasks[s][t], plans[s]) /\ SideShape(side)
      /\ t.op \in {"open", "group", "vector"} => stage[s] \in {"opening", "grouping"}
      /\ t.op \in OpsAt(stage[s]) /\ Reading(side, t)
  BY StageOf DEF TaskOK
<1>2. stage[s] \in Collecting
  BY TaskStage
<1>3. stage[s] \notin Unregistered \cup {"registered"}
  BY <1>2 DEF Collecting, Unregistered
<1>4. Checked(s)
  BY <1>3, AllChecked
<1>5. CASE t.op \in {"open", "group"}
  <2>1. PICK m \in Mechanisms(side) : m.kind = "posfile" /\ t.path = m.path
    BY <1>1, <1>5 DEF Reading
  <2> QED
    BY <1>3, <1>4, <2>1, DeleteFileReachable, ReachableFound
<1>6. CASE t.op = "plan"
  <2>1. PICK e \in EntriesOf(side) : t.path = e.path
    BY <1>6 DEF Spawned
  <2> QED
    BY <1>3, <1>4, <2>1, EntryReachable, ReachableFound
<1>7. CASE t.op = "vector"
  <2>1. t.path # Inline
    BY <1>7 DEF Reads
  <2>2. VectorRead(side, t)
    BY <1>7, VectorTask, VectorReads
  <2>3. CASE \E m \in Members(side, "delta") : t.path = m.vector.sidecar
    <3>1. PICK m \in Members(side, "delta") : t.path = m.vector.sidecar
      BY <2>3
    <3>2. PICK e \in EntriesOf(side) : m.vector \in e.deletes /\ m.vector.kind = "delta"
      BY <3>1, VectorEntry
    <3> QED
      BY <1>3, <1>4, <2>1, <3>1, <3>2, SidecarReachable, ReachableFound
  <2>4. CASE \E m \in Members(side, "puffin") : t.path = m.vector.path
    <3>1. PICK m \in Members(side, "puffin") : t.path = m.vector.path
      BY <2>4
    <3>2. m.vector \in Mechanisms(side) /\ m.vector.kind = "puffin"
      BY <3>1, VectorEntry
    <3> QED
      BY <1>3, <1>4, <3>1, <3>2, DeleteFileReachable, ReachableFound
  <2> QED
    BY <2>1, <2>2, <2>3, <2>4 DEF VectorRead
<1> QED
  BY <1>5, <1>6, <1>7 DEF Reads

\* A call over sound sides passes the checks before the first read.
LEMMA SoundStarts ==
  ASSUME call \in Calls, SoundCall
  PROVE  /\ validate_sides_share_one_store
         /\ \A s \in Sides :
              /\ Side(s).entries # <<>> /\ validate_uniform_object_store_files(Side(s))
              /\ PartitionedScanGroups_split(Side(s)) /\ Applicable(Side(s))
              /\ reconstruct_initial_defaults(Side(s).logical)
              /\ \A e \in EntriesOf(Side(s)) : \A n \in PartitionColumns(Side(s), e) :
                    partition_values_for(Side(s), e)[n] # Failure
<1>1. \A s \in Sides : Side(s).entries # <<>> /\ Sound(Side(s))
  BY DEF SoundCall
<1>2. validate_sides_share_one_store
  BY DEF SoundCall, validate_sides_share_one_store, present_sides
<1>3. ASSUME NEW s \in Sides
      PROVE  /\ validate_uniform_object_store_files(Side(s))
             /\ PartitionedScanGroups_split(Side(s)) /\ ~Unappliable(Side(s))
             /\ reconstruct_initial_defaults(Side(s).logical)
             /\ \A e \in EntriesOf(Side(s)) : \A n \in PartitionColumns(Side(s), e) :
                   partition_values_for(Side(s), e)[n] # Failure
  BY <1>1 DEF Sound
<1>4. \A s \in Sides : Applicable(Side(s))
  BY <1>3, CallFacts, SoundApplicable
<1> QED
  BY <1>1, <1>2, <1>3, <1>4

\* A task that computes and finds no room makes the pool full.
LEMMA FullAt ==
  ASSUME NEW s \in Sides, NEW t \in DOMAIN tasks[s], tasks[s][t].at = "decoding", ~Fits(Asks(s, t))
  PROVE  PoolFull
BY DEF PoolFull

\* A task of a sound call fails it for want of room alone.
LEMMA TaskFails ==
  ASSUME IInv, LInv, Spawned, SoundCall, outcome = "running", outcome' = "failed",
         NEW s \in Sides, NEW t \in DOMAIN tasks[s], TaskStep(s, t)
  PROVE  PoolFull
<1> DEFINE side == Side(s)
           r == tasks[s][t]
           f == t.path.id
           batch == side.content[t.path.id][Min(r.left)]
<1>1. Sound(side) /\ ~Unappliable(side)
  BY DEF SoundCall, Sound
<1>2. /\ TaskOK(side, stage[s], t, r, plans[s]) /\ SideShape(side) /\ Reading(side, t)
      /\ t.op \in {"open", "group"} => r.left \subseteq DOMAIN side.content[t.path.id]
  BY StageOf DEF TaskOK
<1>3. Collected
  BY DEF LInv
<1>4. CASE Acquire(s, t)
  <2>1. ~Found(s, t.path) /\ r.at = "waiting"
    BY <1>4 DEF Acquire
  <2>2. Reads(t)
    BY <2>1 DEF Spawned
  <2> QED
    BY <1>1, <1>3, <2>1, <2>2, TaskFound
<1>5. CASE Arrive(s, t)
  BY <1>5 DEF Arrive
<1>6. CASE DecodeBatch(s, t)
  <2> DEFINE growth == Sizes(add_positions(r.found, side, batch)) - Sizes(r.found)
  <2>1. /\ t.op \in {"open", "group"} /\ r.at = "decoding" /\ r.left # {}
        /\ Malformed(side, batch) \/ ~Fits(growth)
    BY <1>6 DEF DecodeBatch
  <2>2. Min(r.left) \in DOMAIN side.content[t.path.id]
    <3>1. r.left \in SUBSET Nat
      BY <1>2, <2>1, ContentNat
    <3>2. \E x \in r.left : \A y \in r.left : x <= y
      BY <2>1, <3>1, LeastNumber
    <3>3. Min(r.left) \in r.left
      BY <3>2 DEF Min
    <3> QED
      BY <1>2, <2>1, <3>3
  <2>3. ~Malformed(side, batch)
    BY <1>1, <1>2, <2>1, <2>2, SoundBatches
  <2>4. Asks(s, t) = growth
    BY <2>1 DEF Asks
  <2> QED
    BY <2>1, <2>3, <2>4, FullAt
<1>7. ASSUME NEW found, NEW bytes, Finish(s, t, found, bytes) PROVE ~Fits(bytes)
  BY <1>7 DEF Finish
<1>8. CASE EndDecode(s, t)
  <2>1. t.op \in {"open", "group"} /\ r.at = "decoding" /\ r.left = {} /\ ~Fits(0)
    BY <1>7, <1>8 DEF EndDecode
  <2>2. Asks(s, t) = 0
    BY <2>1 DEF Asks
  <2> QED
    BY <2>1, <2>2, FullAt
<1>9. CASE DecodeVectors(s, t)
  <2> DEFINE held(m) == m.vector.kind = "puffin" => t.from <= m.vector.start /\ m.vector.end <= t.to
             found == decode_vectors(t.members)
  <2>1. t.op = "vector" /\ r.at = "decoding"
    BY <1>9 DEF DecodeVectors
  <2>2. \A m \in t.members : Decodes(m) /\ held(m)
    BY <1>1, <1>2, <1>3, <2>1, VectorTask, SoundDecodes
  <2>3. (\A m \in t.members : Decodes(m) /\ held(m)) => Finish(s, t, found, Sizes(found))
    BY <1>9, Zenon DEF DecodeVectors
  <2> HIDE DEF found
  <2>4. ~Fits(Sizes(found))
    BY <1>7, <2>2, <2>3
  <2>5. Asks(s, t) = Sizes(found)
    BY <2>1 DEF Asks, found
  <2> QED
    BY <2>1, <2>4, <2>5, FullAt
<1>10. CASE Unite(s, t)
  <2>1. /\ t.op = "union" /\ r.at = "decoding"
        /\ Finish(s, t, [x \in {f} |-> Union(s, f)], Size(Union(s, f)) - BytesOf(s, f))
    BY <1>10 DEF Unite
  <2>2. Asks(s, t) = Size(Union(s, f)) - BytesOf(s, f)
    BY <2>1 DEF Asks
  <2> QED
    BY <1>7, <2>1, <2>2, FullAt
<1>11. CASE BuildPlan(s, t)
  <2>1. t.op = "plan" /\ r.at = "decoding"
    BY <1>11 DEF BuildPlan
  <2>2. ~Fits(access_plan_bytes(build_access_plan(Entry(s, f).groups, Union(s, f))))
    BY <1>11 DEF BuildPlan
  <2>3. Asks(s, t) = access_plan_bytes(build_access_plan(Entry(s, f).groups, Union(s, f)))
    BY <2>1 DEF Asks
  <2> QED
    BY <2>1, <2>2, <2>3, FullAt
<1>12. CASE Abort(s, t)
  BY <1>12 DEF Abort
<1> QED
  BY <1>4, <1>5, <1>6, <1>8, <1>9, <1>10, <1>11, <1>12 DEF TaskStep

\* No batch of a sound side fails.
LEMMA SoundEmits ==
  ASSUME IInv, SoundCall, outcome = "running", NEW s \in Sides, NEW b \in todo[s], EmitBatch(s, b[1], b[2])
  PROVE  outcome' = "running"
<1> DEFINE side == Side(s)
           e == Entry(s, b[1])
<1>1. call \in Calls /\ b \in GroupsOf(s) /\ Sound(side) /\ SchemaConsistent(side)
  BY CallSchemas DEF IInv, Shape, SoundCall
<1>2. stage[s] = "streaming"
  BY DEF IInv, Registered
<1>3. stage[s] \notin Unregistered \cup {"registered"} /\ Checked(s)
  <2>1. stage[s] \notin Unregistered \cup {"registered"}
    BY <1>2 DEF Unregistered
  <2> QED
    BY <2>1, AllChecked
<1>4. b[1] \in Assigned(side)
  BY <1>1 DEF GroupsOf, Assigned
<1>5. e \in EntriesOf(side)
  BY <1>4, EntryOf
<1> HIDE DEF e
<1>6. Found(s, e.path) /\ Readable(side, e) /\ e.unfit = {}
  BY <1>1, <1>3, <1>5, EntryReachable, ReachableFound, SoundReadable DEF Sound
<1> QED
  BY <1>6 DEF EmitBatch, e

\* Every step that fails a sound call, but for a store failure, finds the pool full.
LEMMA OnlyFull ==
  ASSUME IInv, LInv, Spawned, [Next]_vars, outcome = "running", outcome' = "failed", faults' = faults, SoundCall
  PROVE  PoolFull
<1>1. call \in Calls /\ faults \in Nat
  BY CallFacts DEF IInv, Shape
<1>2. CASE BuildSessionContext
  <2>1. validate_sides_share_one_store
    BY <1>1, SoundStarts
  <2> QED
    BY <1>2, <2>1 DEF BuildSessionContext
<1>3. CASE StartStream \/ EndStream \/ UNCHANGED vars
  BY <1>3 DEF StartStream, EndStream, vars
<1>4. CASE StoreFails
  BY <1>1, <1>4 DEF StoreFails
<1>5. ASSUME NEW s \in Sides, SideStep(s) PROVE PoolFull
  <2>1. /\ Side(s).entries # <<>> /\ validate_uniform_object_store_files(Side(s))
        /\ PartitionedScanGroups_split(Side(s)) /\ Applicable(Side(s))
        /\ reconstruct_initial_defaults(Side(s).logical)
        /\ \A e \in EntriesOf(Side(s)) : \A n \in PartitionColumns(Side(s), e) :
              partition_values_for(Side(s), e)[n] # Failure
    BY <1>1, SoundStarts
  <2>2. CASE RegisterFileList(s)
    BY <2>1, <2>2 DEF RegisterFileList
  <2>3. CASE StartPartitionedFiles(s)
    BY <2>1, <2>3 DEF StartPartitionedFiles, Applicable
  <2>4. CASE SpawnRowGroups(s) \/ SpawnUnions(s) \/ SpawnPlans(s) \/ EndPlans(s) \/ DropProviders(s)
    BY <2>4 DEF SpawnRowGroups, SpawnUnions, SpawnPlans, EndPlans, DropProviders
  <2>5. ASSUME NEW t \in DOMAIN tasks[s], TaskStep(s, t) PROVE PoolFull
    BY <2>5, TaskFails
  <2>6. ASSUME NEW b \in todo[s], EmitBatch(s, b[1], b[2]) PROVE PoolFull
    BY <2>6, SoundEmits
  <2> QED
    BY <1>5, <2>2, <2>3, <2>4, <2>5, <2>6 DEF SideStep
<1> QED
  BY <1>2, <1>3, <1>4, <1>5 DEF Next, Steps

\* ServableIsServed: whatever the interleaving of the two sides' tasks, however few the
\* connections and however large the pool, a call over files every reader of the format
\* could read fails only when a store fails or a task's next reservation does not fit.
THEOREM ServableServed == Spec => ServableIsServed
<1>1. Init => Spawned
  BY DEF Init, Spawned
<1>2. IInv /\ Spawned /\ [Next]_vars => Spawned'
  BY SpawnedNext
<1>3. Spec => []Spawned
  BY <1>1, <1>2, Invariance, PTL DEF Spec
<1>4. IInv /\ LInv /\ Spawned /\ [Next]_vars
        => [outcome = "running" /\ outcome' = "failed" /\ faults' = faults /\ SoundCall => PoolFull]_vars
  BY OnlyFull
<1> QED
  BY <1>3, <1>4, Invariance, LiveInvariance, PTL DEF Spec, ServableIsServed
=============================================================================
