------------------------ MODULE VirtualSchemaProofs ------------------------
(* One virtual schema under every order of requests and catalog changes:    *)
(* the inductive invariant, and the properties that rest on it.             *)
EXTENDS VirtualSchema, Induction

\* A request under way has no outcome yet.  A refresh runs under the persisted
\* properties, and every request but a partial one covers every name.
RequestOK ==
    /\ phase # "idle" => outcome = "none"
    /\ IsPartial => phase # "idle" /\ request.props = props
    /\ phase # "idle" /\ ~IsPartial => request.scope = Names

\* The listing so far: exposed identifiers of the pages it has read, each once.
ListedOK ==
    /\ IsInjective(listed)
    /\ phase = "idle" => listed = <<>> /\ cursor = 0 /\ loaded = <<>>
    /\ phase = "loading" => cursor = Len(Order)
    /\ \A i \in ToSet(listed) : /\ exposes(request.props, Flatten[i])
                                /\ \E k \in 1 .. cursor : Order[k] = i

\* Only listed identifiers in the request's scope are loaded.
LoadedOK ==
    /\ DOMAIN loaded \subseteq selection
    /\ \A i \in DOMAIN loaded : loaded[i] \in Loadable \cup {"skipped"}

\* While the catalog stands still, the listing and the loads tell it as it is.
QuietOK ==
    quiet =>
        /\ \A k \in 1 .. cursor :
             catalog[Order[k]] # "absent" /\ exposes(request.props, Flatten[Order[k]]) =>
               Order[k] \in ToSet(listed)
        /\ \A i \in DOMAIN loaded :
             loaded[i] = IF catalog[i] \in Loadable THEN catalog[i] ELSE "skipped"

\* What a request knows so far, and what Exasol persists.
ProgressInv == RequestOK /\ ListedOK /\ LoadedOK /\ QuietOK
IInv == TypeOK /\ ProgressInv /\ HiddenStaysHidden /\ SkipsAccounted
-----------------------------------------------------------------------------
(* The skip list and its cap                                               *)

\* The running length grows by one entry at a time.
LEMMA KeptLenSteps ==
  ASSUME NEW e \in Seq(Idents)
  PROVE  /\ kept_len(e, 0) = 0
         /\ \A k \in 0 .. Len(e) : kept_len(e, k) \in Nat
         /\ \A k \in 1 .. Len(e) : kept_len(e, k) = kept_len(e, k - 1) + EntryLen[e[k]]
<1> DEFINE N == Len(e)
           F == [n \in Nat |-> [x \in Nat |-> IF n + 1 \in DOMAIN e THEN x + EntryLen[e[n + 1]] ELSE x]]
           Recursive(f) == f = [k \in 0 .. N |-> IF k = 0 THEN 0 ELSE f[k - 1] + EntryLen[e[k]]]
<1>1. N \in Nat /\ DOMAIN e = 1 .. N /\ \A k \in 1 .. N : EntryLen[e[k]] \in Nat
  BY LengthAssumption
<1>2. StepFunction(F, Nat) /\ 0 \in Nat
  <2>1. ASSUME NEW n \in Nat, NEW x \in Nat
        PROVE  (IF n + 1 \in DOMAIN e THEN x + EntryLen[e[n + 1]] ELSE x) \in Nat
    BY <1>1
  <2> QED
    BY <2>1 DEF StepFunction
<1>3. PICK g : IteratesUpto(g, N, Nat, 0, F)
  <2> HIDE DEF F, N
  <2> QED
    BY <1>1, <1>2, FirstIterates
<1>4. ASSUME NEW n \in 0 .. N, n # 0 PROVE g[n] = g[n - 1] + EntryLen[e[n]]
  <2>1. n - 1 \in Nat /\ (n - 1) + 1 = n /\ n - 1 \in 0 .. N /\ n \in DOMAIN e
    BY <1>4, <1>1
  <2>2. g[n] = F[n - 1][g[n - 1]] /\ g[n - 1] \in Nat
    BY <1>3, <1>4, <2>1 DEF IteratesUpto
  <2> QED
    BY <2>1, <2>2
<1>5. Recursive(g)
  <2> HIDE DEF F
  <2> QED
    BY <1>3, <1>4 DEF IteratesUpto
<1>6. PICK f : Recursive(f) /\ \A k : kept_len(e, k) = f[k]
  <2>1. \A k : kept_len(e, k) = (CHOOSE f : Recursive(f))[k]
    BY DEF kept_len
  <2> HIDE DEF Recursive
  <2> QED
    BY <1>5, <2>1
<1> HIDE DEF F, N
<1>7. f[0] = 0 /\ \A n \in 0 .. N : n # 0 => f[n] = f[n - 1] + EntryLen[e[n]]
  <2>1. 0 \in 0 .. N
    BY <1>1
  <2> QED
    BY <1>6, <2>1
<1> HIDE DEF Recursive
<1> DEFINE P == {n \in 0 .. N : f[n] \in Nat}
<1>8. 0 \in P
  BY <1>1, <1>7
<1>9. ASSUME NEW n \in P, n < N PROVE n + 1 \in P
  <2>1. n + 1 \in 0 .. N /\ n + 1 # 0 /\ (n + 1) - 1 = n /\ n + 1 \in 1 .. N
    BY <1>1, <1>9
  <2>2. f[n + 1] = f[n] + EntryLen[e[n + 1]]
    BY <1>7, <2>1
  <2> QED
    BY <1>1, <2>1, <2>2
<1>10. P = 0 .. N
  <2>1. P \in SUBSET (0 .. N)
    OBVIOUS
  <2> HIDE DEF P
  <2> QED
    BY <1>1, <1>8, <1>9, <2>1, BoundedInduction
<1>11. \A k \in 1 .. N : k \in 0 .. N /\ k # 0
  BY <1>1
<1> QED
  BY <1>6, <1>7, <1>10, <1>11 DEF N

\* A prefix has the running lengths of the whole list.
LEMMA KeptLenPrefix ==
  ASSUME NEW e \in Seq(Idents), NEW m \in 0 .. Len(e)
  PROVE  /\ SubSeq(e, 1, m) \in Seq(Idents) /\ Len(SubSeq(e, 1, m)) = m
         /\ \A k \in 1 .. m : SubSeq(e, 1, m)[k] = e[k]
         /\ kept_len(SubSeq(e, 1, m), m) = kept_len(e, m)
<1> DEFINE q == SubSeq(e, 1, m)
           P == {k \in 0 .. m : kept_len(q, k) = kept_len(e, k)}
<1>1. m \in Nat /\ Len(e) \in Nat /\ m <= Len(e)
  OBVIOUS
<1>2. q \in Seq(Idents) /\ Len(q) = m /\ \A k \in 1 .. m : q[k] = e[k]
  BY <1>1
<1> HIDE DEF q
<1>3. 0 \in P
  BY <1>1, <1>2, KeptLenSteps
<1>4. ASSUME NEW k \in P, k < m PROVE k + 1 \in P
  <2>1. k + 1 \in 1 .. m /\ k + 1 \in 1 .. Len(e) /\ k + 1 \in 1 .. Len(q) /\ (k + 1) - 1 = k /\ k + 1 \in 0 .. m
    BY <1>1, <1>2, <1>4
  <2>2. /\ kept_len(q, k + 1) = kept_len(q, k) + EntryLen[q[k + 1]]
        /\ kept_len(e, k + 1) = kept_len(e, k) + EntryLen[e[k + 1]]
    BY <1>2, <2>1, KeptLenSteps
  <2> QED
    BY <1>2, <2>1, <2>2
<1>5. P = 0 .. m
  <2>1. P \in SUBSET (0 .. m)
    OBVIOUS
  <2> HIDE DEF P
  <2> QED
    BY <1>1, <1>3, <1>4, <2>1, BoundedInduction
<1>6. m \in P
  BY <1>1, <1>5
<1> QED
  BY <1>2, <1>6 DEF q

\* One more entry never shortens the notes: an entry is at least as long as the
\* count it may save.
LEMMA NotesLenMonotone ==
  ASSUME NEW s, s.entries \in Seq(Idents), s.omitted \in Nat,
         NEW k \in 0 .. Len(s.entries), NEW l \in k .. Len(s.entries)
  PROVE  NotesLen(s, k) \in Nat /\ NotesLen(s, l) \in Nat /\ NotesLen(s, k) <= NotesLen(s, l)
<1> DEFINE N == Len(s.entries)
           P == {n \in 0 .. N - k : NotesLen(s, k) <= NotesLen(s, k + n)}
<1>1. N \in Nat /\ k \in Nat /\ k <= N /\ N - k \in Nat
  OBVIOUS
<1>2. \A j \in 0 .. N : NotesLen(s, j) \in Nat
  <2> SUFFICES ASSUME NEW j \in 0 .. N PROVE NotesLen(s, j) \in Nat
    OBVIOUS
  <2>1. kept_len(s.entries, j) \in Nat
    BY KeptLenSteps
  <2>2. omitted_entry_len(s.omitted + N - j) \in Nat
    BY LengthAssumption DEF omitted_entry_len
  <2> QED
    BY <2>1, <2>2, LengthAssumption DEF NotesLen
<1>3. ASSUME NEW j \in 0 .. N, j < N PROVE NotesLen(s, j) <= NotesLen(s, j + 1)
  <2>1. j + 1 \in 1 .. N /\ (j + 1) - 1 = j
    BY <1>1, <1>3
  <2>2. /\ kept_len(s.entries, j) \in Nat
        /\ kept_len(s.entries, j + 1) = kept_len(s.entries, j) + EntryLen[s.entries[j + 1]]
    BY <2>1, KeptLenSteps
  <2>3. EntryLen[s.entries[j + 1]] \in Nat /\ EntryLen[s.entries[j + 1]] >= OmittedLen
    BY <2>1, LengthAssumption
  <2>4. /\ omitted_entry_len(s.omitted + N - j) \in Nat
        /\ omitted_entry_len(s.omitted + N - (j + 1)) \in Nat
        /\ omitted_entry_len(s.omitted + N - j) <= omitted_entry_len(s.omitted + N - (j + 1)) + OmittedLen
    BY LengthAssumption DEF omitted_entry_len
  <2> DEFINE before == kept_len(s.entries, j)
             after == kept_len(s.entries, j + 1)
             more == omitted_entry_len(s.omitted + N - j)
             less == omitted_entry_len(s.omitted + N - (j + 1))
  <2>5. NotesLen(s, j) = BaseLen + before + more /\ NotesLen(s, j + 1) = BaseLen + after + less
    BY DEF NotesLen
  <2>6. before \in Nat /\ after \in Nat /\ more \in Nat /\ less \in Nat
        /\ before + OmittedLen <= after /\ more <= less + OmittedLen
    <3> HIDE DEF before, after, more, less
    <3>1. after = before + EntryLen[s.entries[j + 1]] /\ before \in Nat
      BY <2>2 DEF before, after
    <3>2. more \in Nat /\ less \in Nat /\ more <= less + OmittedLen
      BY <2>4 DEF more, less
    <3> DEFINE x == EntryLen[s.entries[j + 1]]
    <3>3. x \in Nat /\ x >= OmittedLen /\ OmittedLen \in Nat /\ after = before + x
      BY <2>3, <3>1, LengthAssumption
    <3> HIDE DEF x
    <3> QED
      BY <3>1, <3>2, <3>3
  <2> HIDE DEF before, after, more, less
  <2> QED
    BY <2>5, <2>6, LengthAssumption
<1>4. 0 \in P
  BY <1>1, <1>2
<1>5. ASSUME NEW n \in P, n < N - k PROVE n + 1 \in P
  <2>1. k + n \in 0 .. N /\ k + n < N /\ (k + n) + 1 = k + (n + 1) /\ n + 1 \in 0 .. N - k /\ k + (n + 1) \in 0 .. N
    BY <1>1, <1>5
  <2>2. NotesLen(s, k + n) <= NotesLen(s, k + (n + 1))
    BY <1>3, <2>1
  <2>3. NotesLen(s, k) \in Nat /\ NotesLen(s, k + n) \in Nat /\ NotesLen(s, k + (n + 1)) \in Nat
    BY <1>2, <2>1
  <2> QED
    BY <2>1, <2>2, <2>3
<1>6. P = 0 .. N - k
  <2>1. P \in SUBSET (0 .. N - k)
    OBVIOUS
  <2> DEFINE b == N - k
  <2>2. b \in Nat /\ P \in SUBSET (0 .. b) /\ 0 \in P /\ \A n \in P : n < b => n + 1 \in P
    BY <1>1, <1>4, <1>5, <2>1
  <2> HIDE DEF P, b
  <2>3. P = 0 .. b
    BY <2>2, BoundedInduction
  <2> QED
    BY <2>3 DEF b
<1>7. l - k \in P /\ k + (l - k) = l
  <2>1. l - k \in 0 .. N - k /\ k + (l - k) = l
    BY <1>1
  <2> HIDE DEF P
  <2> QED
    BY <1>6, <2>1
<1> QED
  BY <1>1, <1>2, <1>7

\* What the cap keeps of a skip list.
FitsPrefix(s, kept) ==
    /\ kept \in 0 .. Len(s.entries)
    /\ fit_skipped_tables(s).entries = SubSeq(s.entries, 1, kept)
    /\ fit_skipped_tables(s).omitted = s.omitted + Len(s.entries) - kept
    /\ kept = 0 \/ NotesLen(s, kept) <= MaxLen
    /\ kept < Len(s.entries) => NotesLen(s, kept + 1) > MaxLen

\* Some prefix of the skips is the one the byte limit leaves.
LEMMA Fitted ==
  ASSUME NEW s, s.entries \in Seq(Idents), s.omitted \in Nat
  PROVE  \E kept : FitsPrefix(s, kept)
<1> DEFINE N == Len(s.entries)
           T == {0} \cup {k \in DOMAIN s.entries : \A j \in 1 .. k : NotesLen(s, j) <= MaxLen}
           kept == Max(T)
<1>1. N \in Nat /\ DOMAIN s.entries = 1 .. N /\ T \in SUBSET Nat /\ T # {} /\ \A x \in T : x <= N
  OBVIOUS
<1>2. kept \in T /\ \A y \in T : kept >= y
  <2> HIDE DEF T, N
  <2>1. \E x \in T : \A y \in T : x >= y
    BY <1>1, GreatestNumber
  <2> QED
    BY <2>1 DEF Max
<1>3. /\ fit_skipped_tables(s).entries = SubSeq(s.entries, 1, kept)
      /\ fit_skipped_tables(s).omitted = s.omitted + Len(s.entries) - kept
  <2> DEFINE prefix == SubSeq(s.entries, 1, kept)
             rest == s.omitted + Len(s.entries) - kept
  <2>1. fit_skipped_tables(s) = [entries |-> prefix, omitted |-> rest]
    BY DEF fit_skipped_tables
  <2> HIDE DEF prefix, rest
  <2>2. fit_skipped_tables(s).entries = prefix /\ fit_skipped_tables(s).omitted = rest
    BY <2>1
  <2> QED
    BY <2>2 DEF prefix, rest
<1> HIDE DEF kept
<1>4. kept \in 0 .. N
  BY <1>1, <1>2
<1>5. kept = 0 \/ NotesLen(s, kept) <= MaxLen
  <2>1. CASE kept # 0
    <3>1. kept \in 1 .. kept /\ \A j \in 1 .. kept : NotesLen(s, j) <= MaxLen
      BY <1>2, <1>4, <2>1
    <3> QED
      BY <3>1
  <2> QED
    BY <2>1
<1>6. ASSUME kept < N PROVE NotesLen(s, kept + 1) > MaxLen
  <2> SUFFICES ASSUME NotesLen(s, kept + 1) <= MaxLen PROVE FALSE
    <3>1. kept + 1 \in 0 .. N /\ kept + 1 \in kept + 1 .. N
      BY <1>4, <1>6
    <3>2. NotesLen(s, kept + 1) \in Nat
      BY <3>1, NotesLenMonotone
    <3> QED
      BY <3>2, LengthAssumption
  <2>1. \A j \in 1 .. kept + 1 : j \in 1 .. kept \/ j = kept + 1
    BY <1>4
  <2>2. \A j \in 1 .. kept : NotesLen(s, j) <= MaxLen
    BY <1>2, <1>4
  <2>3. kept + 1 \in 1 .. N /\ kept + 1 > kept
    BY <1>4, <1>6
  <2>4. kept + 1 \in T
    BY <1>1, <2>1, <2>2, <2>3
  <2> HIDE DEF T
  <2> QED
    BY <1>2, <1>4, <2>3, <2>4
<1> QED
  BY <1>3, <1>4, <1>5, <1>6 DEF FitsPrefix
\* The list before the cap: the listed identifiers whose skip is known, each once.
MergedOK ==
    /\ merge_skipped_tables.entries \in Seq(Idents)
    /\ IsInjective(merge_skipped_tables.entries)
    /\ merge_skipped_tables.omitted = IF IsPartial THEN notes.omitted ELSE 0
    /\ \A i \in Idents :
         i \in ToSet(merge_skipped_tables.entries) <=>
           i \in ToSet(listed) /\ IF Flatten[i] \in request.scope THEN i \in Skipped
                                  ELSE i \in ToSet(notes.entries)

\* The skips of a partial refresh are the kept notes outside its scope and
\* its own.
LEMMA Merged ==
  ASSUME IInv, phase = "loading"
  PROVE  MergedOK
<1>1. listed \in Seq(Idents) /\ IsInjective(listed) /\ notes.omitted \in Nat
  BY DEF IInv, TypeOK, ProgressInv, ListedOK
<1>2. ASSUME NEW T
      PROVE  /\ Selected(listed, T) \in Seq(Idents)
             /\ IsInjective(Selected(listed, T))
             /\ \A i : i \in ToSet(Selected(listed, T)) <=> i \in ToSet(listed) /\ i \in T
  <2> DEFINE q == Selected(listed, T)
  <2>1. /\ q \in Seq(Idents) /\ DistinctOrigins(q, listed, DOMAIN listed)
        /\ \A i \in DOMAIN q : q[i] \in T /\ \E k \in DOMAIN listed : listed[k] = q[i]
        /\ \A k \in DOMAIN listed : listed[k] \in T => \E i \in DOMAIN q : q[i] = listed[k]
    BY <1>1, SelectedElements
  <2> HIDE DEF q
  <2>2. ASSUME NEW i PROVE i \in ToSet(q) <=> i \in ToSet(listed) /\ i \in T
    BY <2>1 DEF ToSet
  <2>3. IsInjective(q)
    BY <1>1, <2>1 DEF IsInjective, DistinctOrigins
  <2> QED
    BY <2>1, <2>2, <2>3 DEF q
<1>3. CASE IsPartial
  <2> DEFINE q == Selected(listed, SkipsKnown)
  <2>1. merge_skipped_tables = [entries |-> q, omitted |-> notes.omitted]
    BY <1>3 DEF merge_skipped_tables
  <2>2. /\ q \in Seq(Idents) /\ IsInjective(q)
        /\ \A i : i \in ToSet(q) <=> i \in ToSet(listed) /\ i \in SkipsKnown
    BY <1>2
  <2> HIDE DEF q
  <2>3. merge_skipped_tables.entries = q /\ merge_skipped_tables.omitted = notes.omitted
    BY <2>1
  <2> QED
    BY <1>3, <2>2, <2>3 DEF MergedOK, SkipsKnown
<1>4. CASE ~IsPartial
  <2> DEFINE q == Selected(listed, Skipped)
  <2>1. merge_skipped_tables = [entries |-> q, omitted |-> 0]
    BY <1>4 DEF merge_skipped_tables
  <2>2. /\ q \in Seq(Idents) /\ IsInjective(q)
        /\ \A i : i \in ToSet(q) <=> i \in ToSet(listed) /\ i \in Skipped
    BY <1>2
  <2> HIDE DEF q
  <2>3. merge_skipped_tables.entries = q /\ merge_skipped_tables.omitted = 0
    BY <2>1
  <2>4. \A i \in Idents : Flatten[i] \in request.scope
    BY <1>4, CatalogAssumption DEF IInv, ProgressInv, RequestOK
  <2> QED
    BY <1>4, <2>2, <2>3, <2>4 DEF MergedOK
<1> QED
  BY <1>3, <1>4

\* The notes a request writes: what the cap keeps of the merged list.
NotedOK(kept) ==
    /\ FitsPrefix(merge_skipped_tables, kept)
    /\ NewNotes.entries \in Seq(Idents) /\ IsInjective(NewNotes.entries)
    /\ Len(NewNotes.entries) = kept
    /\ \A k \in 1 .. kept : NewNotes.entries[k] = merge_skipped_tables.entries[k]
    /\ kept_len(NewNotes.entries, kept) = kept_len(merge_skipped_tables.entries, kept)
    /\ NewNotes.omitted = merge_skipped_tables.omitted + Len(merge_skipped_tables.entries) - kept
    /\ NewNotes.omitted \in Nat
    /\ NewNotes.factor = resolve_tuning_notes(request.props)

\* The notes of a response hold a prefix of the skips and count the rest.
LEMMA Noted ==
  ASSUME IInv, phase = "loading"
  PROVE  \E kept \in Nat : NotedOK(kept)
<1> DEFINE M == merge_skipped_tables
           fitted == fit_skipped_tables(M)
           factor == resolve_tuning_notes(request.props)
<1>1. M.entries \in Seq(Idents) /\ IsInjective(M.entries) /\ M.omitted \in Nat
  BY Merged DEF MergedOK, IInv, TypeOK
<1>2. PICK kept : FitsPrefix(M, kept)
  <2> HIDE DEF M
  <2> QED
    BY <1>1, Fitted
<1>3. NewNotes = [entries |-> fitted.entries, omitted |-> fitted.omitted, factor |-> factor]
  BY DEF NewNotes
<1>4. kept \in 0 .. Len(M.entries) /\ kept \in Nat /\ Len(M.entries) \in Nat
  BY <1>1, <1>2 DEF FitsPrefix
<1> DEFINE e == M.entries  q == SubSeq(e, 1, kept)
<1>5. fitted.entries = q /\ fitted.omitted = M.omitted + Len(e) - kept
  BY <1>2 DEF FitsPrefix
<1>6. /\ q \in Seq(Idents) /\ Len(q) = kept
      /\ \A k \in 1 .. kept : q[k] = e[k]
      /\ kept_len(q, kept) = kept_len(e, kept)
  <2> HIDE DEF M, e
  <2>1. e \in Seq(Idents) /\ kept \in 0 .. Len(e)
    BY <1>1, <1>4 DEF e
  <2> QED
    BY <2>1, KeptLenPrefix
<1>7. IsInjective(q)
  <2> HIDE DEF M, q, e
  <2>1. IsInjective(e) /\ e \in Seq(Idents) /\ kept \in 0 .. Len(e)
    BY <1>1, <1>4 DEF e
  <2>2. DOMAIN q = 1 .. kept /\ 1 .. kept \subseteq DOMAIN e
    BY <1>4, <1>6, <2>1
  <2> QED
    BY <1>6, <2>1, <2>2 DEF IsInjective
<1>8. M.omitted + Len(e) - kept \in Nat
  <2> HIDE DEF M
  <2> QED
    BY <1>1, <1>4
<1>9. /\ NewNotes.entries = q /\ NewNotes.omitted = M.omitted + Len(e) - kept
      /\ NewNotes.factor = factor
  <2> HIDE DEF fitted, factor, M, q, e
  <2>1. /\ NewNotes.entries = fitted.entries /\ NewNotes.omitted = fitted.omitted
        /\ NewNotes.factor = factor
    BY <1>3
  <2> QED
    BY <1>5, <2>1
<1> HIDE DEF q
<1>10. NotedOK(kept)
  BY <1>2, <1>4, <1>6, <1>7, <1>8, <1>9 DEF NotedOK
<1> QED
  BY <1>4, <1>10

\* What Exasol keeps of a served request: the tables out of its scope and one
\* table for each admitted identifier.
PersistedOK ==
    /\ DOMAIN Persisted = (IF IsPartial THEN DOMAIN tables \ request.scope ELSE {})
                            \cup {Flatten[i] : i \in Admitted}
    /\ \A n \in DOMAIN Persisted :
         IF IsPartial /\ n \in DOMAIN tables \ request.scope THEN Persisted[n] = tables[n]
         ELSE \E i \in Admitted : Flatten[i] = n /\ Persisted[n] = [ident |-> i, columns |-> loaded[i]]

\* What Exasol persists of each kind of response.
LEMMA Persists == PersistedOK
<1> DEFINE kept == IF IsPartial THEN DOMAIN tables \ request.scope ELSE {}
<1>1. DOMAIN Declared = {Flatten[i] : i \in Admitted}
  BY DEF Declared
<1>2. ASSUME NEW n \in DOMAIN Declared
      PROVE  \E i \in Admitted : Flatten[i] = n /\ Declared[n] = [ident |-> i, columns |-> loaded[i]]
  <2> DEFINE i == CHOOSE j \in Admitted : Flatten[j] = n
  <2>1. i \in Admitted /\ Flatten[i] = n
    BY <1>1
  <2>2. Declared[n] = [ident |-> i, columns |-> loaded[i]]
    BY <1>1 DEF Declared
  <2> HIDE DEF i
  <2> QED
    BY <2>1, <2>2
<1>3. Persisted = [n \in kept \cup DOMAIN Declared |-> IF n \in kept THEN tables[n] ELSE Declared[n]]
  BY DEF Persisted
<1>4. DOMAIN Persisted = kept \cup DOMAIN Declared
  BY <1>3
<1>5. ASSUME NEW n \in DOMAIN Persisted
      PROVE  IF n \in kept THEN Persisted[n] = tables[n]
             ELSE \E i \in Admitted : Flatten[i] = n /\ Persisted[n] = [ident |-> i, columns |-> loaded[i]]
  <2> HIDE DEF kept
  <2>1. CASE n \in kept
    BY <1>3, <1>4, <2>1
  <2>2. CASE n \notin kept
    <3>1. n \in DOMAIN Declared /\ Persisted[n] = Declared[n]
      BY <1>3, <1>4, <2>2
    <3> QED
      BY <1>2, <2>2, <3>1
  <2> QED
    BY <2>1, <2>2
<1>6. \A n : n \in kept <=> IsPartial /\ n \in DOMAIN tables \ request.scope
  OBVIOUS
<1> HIDE DEF kept
<1>7. \A n \in DOMAIN Persisted :
         IF IsPartial /\ n \in DOMAIN tables \ request.scope THEN Persisted[n] = tables[n]
         ELSE \E i \in Admitted : Flatten[i] = n /\ Persisted[n] = [ident |-> i, columns |-> loaded[i]]
  BY <1>5, <1>6
<1> QED
  BY <1>1, <1>4, <1>7 DEF PersistedOK, kept

\* Admitted and skipped identifiers are listed, exposed and in the scope.
LEMMA LoadedListed ==
  ASSUME IInv
  PROVE  /\ Admitted \subseteq selection /\ Skipped \subseteq selection
         /\ \A i \in selection : /\ i \in Idents /\ i \in ToSet(listed)
                                 /\ Flatten[i] \in request.scope
                                 /\ exposes(request.props, Flatten[i])
         /\ \A i \in Admitted : loaded[i] \in Loadable /\ i \notin Skipped
<1>1. \A i \in ToSet(listed) : i \in Idents /\ exposes(request.props, Flatten[i])
  BY DEF IInv, TypeOK, ProgressInv, ListedOK, ToSet
<1>2. \A i \in Admitted : loaded[i] \in Loadable /\ i \notin Skipped
  BY DEF Admitted, Skipped, Loadable
<1>3. Admitted \subseteq selection /\ Skipped \subseteq selection
  BY DEF IInv, ProgressInv, LoadedOK, Admitted, Skipped
<1> QED
  BY <1>1, <1>2, <1>3 DEF selection

-----------------------------------------------------------------------------
(* The answer of a request                                                 *)

\* A response keeps the type.
LEMMA RespondTypes ==
  ASSUME IInv, Respond
  PROVE  TypeOK'
<1>1. PICK kept \in Nat : NotedOK(kept)
  BY Noted DEF Respond
<1>2. /\ notes' = NewNotes /\ tables' = Persisted /\ exists' = TRUE
      /\ skips' \subseteq Skipped \cup skips
      /\ phase' = "idle" /\ listed' = <<>> /\ cursor' = 0 /\ request'.scope = {} /\ catalog' = catalog
  BY DEF Respond, End, NoRequest
<1>3. notes'.entries \in Seq(Idents) /\ IsInjective(notes'.entries) /\ notes'.omitted \in Nat
  BY <1>1, <1>2 DEF NotedOK
<1>4. Skipped \subseteq Idents /\ skips \subseteq Idents
  BY LoadedListed DEF IInv, TypeOK
<1>5. DOMAIN tables' \subseteq Names
  <2>1. \A i \in Admitted : Flatten[i] \in Names
    BY LoadedListed, CatalogAssumption
  <2> QED
    BY <1>2, <2>1, Persists DEF PersistedOK, IInv, TypeOK
<1>6. ASSUME NEW n \in DOMAIN tables'
      PROVE  /\ tables'[n].ident \in Idents
             /\ tables'[n].columns \in Loadable
             /\ Flatten[tables'[n].ident] = n
  <2>1. CASE IsPartial /\ n \in DOMAIN tables \ request.scope
    <3>1. tables'[n] = tables[n]
      BY <1>2, <2>1, Persists DEF PersistedOK
    <3> QED
      BY <2>1, <3>1 DEF IInv, TypeOK
  <2>2. CASE ~(IsPartial /\ n \in DOMAIN tables \ request.scope)
    <3>1. PICK i \in Admitted : Flatten[i] = n /\ tables'[n] = [ident |-> i, columns |-> loaded[i]]
      BY <1>2, <2>2, Persists DEF PersistedOK
    <3>2. i \in Idents /\ loaded[i] \in Loadable
      BY LoadedListed
    <3> QED
      BY <3>1, <3>2
  <2> QED
    BY <2>1, <2>2
<1>7. <<>> \in Seq(Idents) /\ 0 \in 0 .. Len(Order) /\ catalog \in [Idents -> Statuses]
  BY CatalogAssumption DEF IInv, TypeOK
<1> QED
  BY <1>2, <1>3, <1>4, <1>5, <1>6, <1>7 DEF TypeOK

\* What the notes of a served request name is listed, and skipped by its load
\* or, out of the scope, by the persisted list.
LEMMA NotedEntries ==
  ASSUME IInv, Respond, NEW i \in ToSet(notes'.entries)
  PROVE  /\ i \in Idents /\ i \in ToSet(listed)
         /\ IF Flatten[i] \in request.scope THEN i \in Skipped ELSE i \in ToSet(notes.entries)
<1>1. PICK kept \in Nat : NotedOK(kept)
  BY Noted DEF Respond
<1>2. notes' = NewNotes /\ MergedOK
  BY Merged DEF Respond
<1>3. PICK k \in 1 .. kept : i = NewNotes.entries[k]
  BY <1>1, <1>2 DEF NotedOK, ToSet
<1>4. i = merge_skipped_tables.entries[k] /\ k \in 1 .. Len(merge_skipped_tables.entries)
  <2>1. kept \in 0 .. Len(merge_skipped_tables.entries)
    BY <1>1 DEF NotedOK, FitsPrefix
  <2>2. Len(merge_skipped_tables.entries) \in Nat
    BY <1>2 DEF MergedOK
  <2>3. i = merge_skipped_tables.entries[k]
    BY <1>1, <1>3 DEF NotedOK
  <2> QED
    BY <2>1, <2>2, <2>3
<1>5. i \in Idents /\ i \in ToSet(merge_skipped_tables.entries)
  BY <1>2, <1>4 DEF MergedOK, ToSet
<1> QED
  BY <1>2, <1>5 DEF MergedOK

\* A response persists nothing the filter hides.
LEMMA RespondHides ==
  ASSUME IInv, Respond
  PROVE  HiddenStaysHidden'
<1>1. props' = request.props /\ tables' = Persisted /\ (IsPartial => request.props = props)
  BY DEF Respond, IInv, ProgressInv, RequestOK
<1>2. ASSUME NEW n \in DOMAIN tables' PROVE exposes(request.props, n)
  <2>1. CASE IsPartial /\ n \in DOMAIN tables \ request.scope
    <3>1. n \in Names /\ exposes(props, n)
      BY <2>1 DEF IInv, TypeOK, HiddenStaysHidden
    <3> QED
      BY <1>1, <2>1, <3>1
  <2>2. CASE ~(IsPartial /\ n \in DOMAIN tables \ request.scope)
    BY <1>1, <2>2, Persists, LoadedListed DEF PersistedOK
  <2> QED
    BY <2>1, <2>2
<1>3. ASSUME NEW i \in ToSet(notes'.entries) PROVE exposes(request.props, Flatten[i])
  <2>1. i \in ToSet(listed)
    BY NotedEntries
  <2> QED
    BY <2>1 DEF IInv, ProgressInv, ListedOK
<1>4. \A n : exposes(request.props, n) <=> exposes(props, n)'
  BY <1>1 DEF exposes
<1> QED
  BY <1>2, <1>3, <1>4 DEF HiddenStaysHidden
\* The elements of a piece of a sequence are at most as many as its positions.
LEMMA PieceCardinality ==
  ASSUME NEW e, NEW m \in Nat, NEW n \in Nat, m <= n
  PROVE  /\ IsFiniteSet({e[k] : k \in m + 1 .. n})
         /\ Cardinality({e[k] : k \in m + 1 .. n}) \in Nat
         /\ Cardinality({e[k] : k \in m + 1 .. n}) <= n - m
<1> DEFINE I == m + 1 .. n
           f == [k \in I |-> e[k]]
           R == {e[k] : k \in I}
<1>1. IsFiniteSet(I) /\ Cardinality(I) = n - m
  <2>1. m + 1 \in Int /\ n \in Int
    OBVIOUS
  <2>2. IsFiniteSet(I) /\ Cardinality(I) = IF m + 1 > n THEN 0 ELSE n - (m + 1) + 1
    BY <2>1, FS_Interval
  <2> QED
    BY <2>2
<1>2. f \in [I -> R] /\ R = {f[k] : k \in I} /\ f \in Surjection(I, R)
  BY DEF Surjection
<1> HIDE DEF I, f, R
<1>3. IsFiniteSet(R) /\ Cardinality(R) <= Cardinality(I)
  BY <1>1, <1>2, FS_Surjection
<1>4. Cardinality(R) \in Nat
  BY <1>3, FS_CardinalityType
<1> QED
  BY <1>1, <1>3, <1>4 DEF I, R

\* A set inside two finite ones has at most as many elements as both together.
LEMMA CoverCardinality ==
  ASSUME NEW A, NEW B, NEW D, IsFiniteSet(A), IsFiniteSet(B), D \subseteq A \cup B
  PROVE  Cardinality(D) \in Nat /\ Cardinality(D) <= Cardinality(A) + Cardinality(B)
<1>1. /\ IsFiniteSet(A \cup B)
      /\ Cardinality(A \cup B) = Cardinality(A) + Cardinality(B) - Cardinality(A \cap B)
  BY FS_Union
<1>2. Cardinality(A) \in Nat /\ Cardinality(B) \in Nat
  BY FS_CardinalityType
<1>3. Cardinality(A \cap B) \in Nat
  BY FS_Intersection, FS_CardinalityType
<1>4. IsFiniteSet(D) /\ Cardinality(D) <= Cardinality(A \cup B)
  BY <1>1, FS_Subset
<1>5. Cardinality(D) \in Nat
  BY <1>4, FS_CardinalityType
<1> QED
  BY <1>1, <1>2, <1>3, <1>4, <1>5

\* There are finitely many identifiers.
LEMMA IdentsFinite == IsFiniteSet(Idents)
<1> DEFINE e == Order  m == 0  n == Len(Order)
<1>1. m \in Nat /\ n \in Nat /\ m <= n /\ Idents = {e[k] : k \in m + 1 .. n}
  BY CatalogAssumption DEF Idents, ToSet
<1> HIDE DEF e, m, n
<1>2. IsFiniteSet({e[k] : k \in m + 1 .. n})
  BY <1>1, PieceCardinality
<1> QED
  BY <1>1, <1>2

\* A response accounts for every skip.
LEMMA RespondAccounts ==
  ASSUME IInv, Respond
  PROVE  SkipsAccounted'
<1>1. /\ tables' = Persisted /\ notes' = NewNotes /\ phase = "loading"
      /\ skips' = Skipped \cup (IF IsPartial
                                THEN {i \in skips : i \in ToSet(listed) /\ Flatten[i] \notin request.scope}
                                ELSE {})
  BY DEF Respond
<1>2. MergedOK
  BY <1>1, Merged
<1>3. PICK kept \in Nat : NotedOK(kept)
  BY <1>1, Noted
<1>4. ~IsPartial => \A i \in Idents : Flatten[i] \in request.scope
  BY <1>1, CatalogAssumption DEF IInv, ProgressInv, RequestOK
<1>5. ASSUME NEW n \in DOMAIN tables' PROVE tables'[n].ident \notin ToSet(notes'.entries)
  <2>1. CASE IsPartial /\ n \in DOMAIN tables \ request.scope
    <3>1. tables'[n] = tables[n] /\ Flatten[tables[n].ident] = n /\ tables[n].ident \notin ToSet(notes.entries)
      BY <1>1, <2>1, Persists DEF PersistedOK, IInv, TypeOK, SkipsAccounted
    <3> QED
      BY <2>1, <3>1, NotedEntries
  <2>2. CASE ~(IsPartial /\ n \in DOMAIN tables \ request.scope)
    <3>1. PICK i \in Admitted : Flatten[i] = n /\ tables'[n] = [ident |-> i, columns |-> loaded[i]]
      BY <1>1, <2>2, Persists DEF PersistedOK
    <3>2. Flatten[i] \in request.scope /\ i \notin Skipped
      BY LoadedListed
    <3>3. i \notin ToSet(notes'.entries)
      BY <3>2, NotedEntries
    <3> QED
      BY <3>1, <3>3
  <2> QED
    BY <2>1, <2>2
<1>6. ASSUME NEW i \in ToSet(notes'.entries) PROVE i \in skips'
  <2>1. /\ i \in Idents /\ i \in ToSet(listed)
        /\ IF Flatten[i] \in request.scope THEN i \in Skipped ELSE i \in ToSet(notes.entries)
    BY NotedEntries
  <2>2. ToSet(notes.entries) \subseteq skips
    BY DEF IInv, SkipsAccounted
  <2> QED
    BY <1>1, <1>4, <2>1, <2>2
<1> DEFINE M == merge_skipped_tables.entries
           A == IF IsPartial THEN skips \ ToSet(notes.entries) ELSE {}
           B == {M[k] : k \in kept + 1 .. Len(M)}
           D == skips' \ ToSet(notes'.entries)
<1>7. kept <= Len(M) /\ Len(M) \in Nat /\ merge_skipped_tables.omitted \in Nat
  <2>1. M \in Seq(Idents) /\ merge_skipped_tables.omitted \in Nat
    BY <1>2 DEF MergedOK, IInv, TypeOK
  <2>2. kept \in 0 .. Len(M)
    BY <1>3 DEF NotedOK, FitsPrefix
  <2> HIDE DEF M
  <2> QED
    BY <2>1, <2>2
<1>8. D \subseteq A \cup B
  <2> SUFFICES ASSUME NEW i \in D, i \notin A PROVE i \in B
    OBVIOUS
  <2>1. i \in Idents /\ i \in ToSet(listed)
        /\ IF Flatten[i] \in request.scope THEN i \in Skipped ELSE i \in ToSet(notes.entries)
    <3>1. CASE i \in Skipped
      BY <3>1, LoadedListed
    <3>2. CASE i \notin Skipped
      <4>1. IsPartial /\ i \in skips /\ i \in ToSet(listed) /\ Flatten[i] \notin request.scope
        BY <1>1, <3>2
      <4>2. i \in Idents
        BY <4>1 DEF IInv, TypeOK
      <4> QED
        BY <4>1, <4>2
    <3> QED
      BY <3>1, <3>2
  <2>2. i \in ToSet(M)
    BY <1>2, <2>1 DEF MergedOK
  <2>3. PICK k \in 1 .. Len(M) : i = M[k]
    BY <1>2, <2>2 DEF MergedOK, ToSet
  <2>4. k \notin 1 .. kept
    <3> SUFFICES ASSUME k \in 1 .. kept PROVE FALSE
      OBVIOUS
    <3>1. NewNotes.entries[k] = M[k] /\ NewNotes.entries \in Seq(Idents) /\ Len(NewNotes.entries) = kept
      BY <1>3 DEF NotedOK
    <3>2. i \in ToSet(NewNotes.entries)
      BY <2>3, <3>1 DEF ToSet
    <3> QED
      BY <1>1, <3>2
  <2>5. k \in kept + 1 .. Len(M)
    BY <1>7, <2>3, <2>4
  <2> QED
    BY <2>3, <2>5
<1>9. IsFiniteSet(A) /\ Cardinality(A) \in Nat /\ Cardinality(A) <= merge_skipped_tables.omitted
  <2>1. IsFiniteSet(skips \ ToSet(notes.entries))
    <3>1. skips \ ToSet(notes.entries) \subseteq Idents
      BY DEF IInv, TypeOK
    <3> QED
      BY <3>1, IdentsFinite, FS_Subset
  <2>2. CASE IsPartial
    BY <1>2, <2>1, <2>2, FS_CardinalityType DEF MergedOK, IInv, SkipsAccounted
  <2>3. CASE ~IsPartial
    BY <1>7, <2>3, FS_EmptySet
  <2> QED
    BY <2>2, <2>3
<1>10. IsFiniteSet(B) /\ Cardinality(B) \in Nat /\ Cardinality(B) <= Len(M) - kept
  <2> HIDE DEF M
  <2> QED
    BY <1>7, PieceCardinality
<1>11. Cardinality(D) \in Nat /\ Cardinality(D) <= Cardinality(A) + Cardinality(B)
  <2> HIDE DEF A, B, D
  <2> QED
    BY <1>8, <1>9, <1>10, CoverCardinality
<1>12. Cardinality(D) <= notes'.omitted
  <2>1. notes'.omitted = merge_skipped_tables.omitted + Len(M) - kept
    BY <1>1, <1>3 DEF NotedOK
  <2> HIDE DEF A, B, D, M
  <2> QED
    BY <1>7, <1>9, <1>10, <1>11, <2>1
<1> QED
  <2>1. ToSet(notes'.entries) \subseteq skips'
    BY <1>6
  <2> QED
    BY <1>5, <1>12, <2>1 DEF SkipsAccounted

-----------------------------------------------------------------------------
(* A request under way                                                     *)

\* An answer, a failure and a dropped schema leave nothing of a request behind.
LEMMA EndForgets ==
  ASSUME NEW reason, End(reason)
  PROVE  ProgressInv'
<1>1. /\ phase' = "idle" /\ listed' = <<>> /\ cursor' = 0 /\ loaded' = <<>>
      /\ request' = NoRequest
  BY DEF End
<1>2. DOMAIN loaded' = {} /\ DOMAIN listed' = {} /\ 1 .. cursor' = {}
  BY <1>1
<1>3. ToSet(listed') = {} /\ IsInjective(listed')
  BY <1>2 DEF ToSet, IsInjective
<1>4. ~IsPartial'
  BY <1>1 DEF IsPartial, NoRequest
<1>5. RequestOK' /\ ListedOK'
  BY <1>1, <1>3, <1>4 DEF RequestOK, ListedOK
<1>6. LoadedOK' /\ QuietOK'
  BY <1>2 DEF LoadedOK, QuietOK
<1> QED
  BY <1>5, <1>6 DEF ProgressInv

\* A request begins with an empty listing.
LEMMA BeginProgress ==
  ASSUME IInv, NEW kind, NEW scope \in SUBSET Names, NEW p, Begin(kind, scope, p),
         kind = "refresh_tables" => p = props,
         kind # "refresh_tables" => scope = Names
  PROVE  TypeOK' /\ ProgressInv'
<1>1. /\ phase = "idle" /\ phase' = "listing" /\ outcome' = "none"
      /\ request' = [kind |-> kind, scope |-> scope, props |-> p]
      /\ catalog' = catalog /\ listed' = listed /\ cursor' = cursor /\ loaded' = loaded
      /\ exists' = exists /\ props' = props /\ tables' = tables /\ notes' = notes /\ skips' = skips
  BY DEF Begin, schema
<1>2. listed = <<>> /\ cursor = 0 /\ loaded = <<>>
  BY <1>1 DEF IInv, ProgressInv, ListedOK
<1>3. DOMAIN loaded' = {} /\ DOMAIN listed' = {} /\ 1 .. cursor' = {}
  BY <1>1, <1>2
<1>4. ToSet(listed') = {} /\ IsInjective(listed')
  BY <1>3 DEF ToSet, IsInjective
<1>5. request'.kind = kind /\ request'.scope = scope /\ request'.props = p
  BY <1>1
<1>6. RequestOK' /\ ListedOK'
  BY <1>1, <1>4, <1>5 DEF RequestOK, ListedOK, IsPartial
<1>7. LoadedOK' /\ QuietOK'
  BY <1>3 DEF LoadedOK, QuietOK
<1>8. TypeOK'
  BY <1>1, <1>5 DEF IInv, TypeOK
<1> QED
  BY <1>6, <1>7, <1>8 DEF ProgressInv

\* A page adds its identifier to the listing if it is exposed.
LEMMA ListPageProgress ==
  ASSUME IInv, ListPage
  PROVE  TypeOK' /\ ProgressInv'
<1> DEFINE i == Order[cursor + 1]
           shown == catalog[i] # "absent" /\ exposes(request.props, Flatten[i])
<1>1. /\ phase = "listing" /\ cursor < Len(Order) /\ cursor' = cursor + 1
      /\ listed' = (IF shown THEN Append(listed, i) ELSE listed)
      /\ phase' = phase /\ request' = request /\ loaded' = loaded /\ outcome' = outcome
      /\ quiet' = quiet /\ catalog' = catalog
      /\ exists' = exists /\ props' = props /\ tables' = tables /\ notes' = notes /\ skips' = skips
  BY DEF ListPage, schema
<1>2. /\ cursor \in Nat /\ Len(Order) \in Nat /\ cursor + 1 \in 1 .. Len(Order) /\ i \in Idents
      /\ cursor' \in 0 .. Len(Order)
  BY <1>1, CatalogAssumption DEF IInv, TypeOK
<1> HIDE DEF i, shown
<1>3. listed \in Seq(Idents) /\ listed' \in Seq(Idents)
  BY <1>1, <1>2 DEF IInv, TypeOK
<1>4. \A j : j \in ToSet(listed') <=> j \in ToSet(listed) \/ (shown /\ j = i)
  <2>1. CASE shown
    <3>1. listed' = Append(listed, i)
      BY <1>1, <2>1
    <3>2. /\ DOMAIN listed' = 1 .. Len(listed) + 1 /\ DOMAIN listed = 1 .. Len(listed)
          /\ Len(listed) \in Nat
          /\ listed'[Len(listed) + 1] = i /\ \A k \in 1 .. Len(listed) : listed'[k] = listed[k]
      BY <1>2, <1>3, <3>1
    <3>3. \A k \in 1 .. Len(listed) + 1 : k \in 1 .. Len(listed) \/ k = Len(listed) + 1
      BY <3>2
    <3> QED
      BY <2>1, <3>2, <3>3 DEF ToSet
  <2>2. CASE ~shown
    BY <1>1, <2>2
  <2> QED
    BY <2>1, <2>2
<1>5. i \notin ToSet(listed)
  <2> SUFFICES ASSUME i \in ToSet(listed) PROVE FALSE
    OBVIOUS
  <2>1. PICK k \in 1 .. cursor : Order[k] = i
    BY DEF IInv, ProgressInv, ListedOK
  <2>2. k \in DOMAIN Order /\ cursor + 1 \in DOMAIN Order /\ k # cursor + 1
    BY <1>2, CatalogAssumption
  <2> QED
    BY <2>1, <2>2, CatalogAssumption DEF IsInjective, i
<1>6. IsInjective(listed')
  <2>0. IsInjective(listed)
    BY DEF IInv, ProgressInv, ListedOK
  <2>1. CASE shown
    <3>1. /\ DOMAIN listed' = 1 .. Len(listed) + 1 /\ DOMAIN listed = 1 .. Len(listed)
          /\ Len(listed) \in Nat
          /\ listed'[Len(listed) + 1] = i /\ \A k \in 1 .. Len(listed) : listed'[k] = listed[k]
      BY <1>1, <1>2, <1>3, <2>1
    <3>2. \A k \in 1 .. Len(listed) + 1 : k \in 1 .. Len(listed) \/ k = Len(listed) + 1
      BY <3>1
    <3>3. \A k \in 1 .. Len(listed) : listed[k] # i
      BY <1>5, <3>1 DEF ToSet
    <3> QED
      BY <2>0, <3>1, <3>2, <3>3 DEF IsInjective
  <2>2. CASE ~shown
    BY <1>1, <2>0, <2>2
  <2> QED
    BY <2>1, <2>2
<1>7. TypeOK'
  BY <1>1, <1>2, <1>3 DEF IInv, TypeOK
<1>8. RequestOK'
  BY <1>1 DEF IInv, ProgressInv, RequestOK, IsPartial
<1>9. ASSUME NEW j \in ToSet(listed')
      PROVE  exposes(request.props, Flatten[j]) /\ \E k \in 1 .. cursor + 1 : Order[k] = j
  <2>1. CASE j \in ToSet(listed)
    <3>1. exposes(request.props, Flatten[j]) /\ \E k \in 1 .. cursor : Order[k] = j
      BY <2>1 DEF IInv, ProgressInv, ListedOK
    <3> QED
      BY <1>2, <3>1
  <2>2. CASE shown /\ j = i
    <3>1. cursor + 1 \in 1 .. cursor + 1
      BY <1>2
    <3> QED
      BY <2>2, <3>1 DEF shown, i
  <2> QED
    BY <1>4, <2>1, <2>2
<1>10. ListedOK'
  <2>1. \A p, n : exposes(p, n)' <=> exposes(p, n)
    BY DEF exposes
  <2> QED
    BY <1>1, <1>6, <1>9 DEF ListedOK, exposes
<1>11. LoadedOK'
  <2>1. selection \subseteq selection'
    BY <1>1, <1>4 DEF selection
  <2> QED
    BY <1>1, <2>1 DEF IInv, ProgressInv, LoadedOK
<1>12. QuietOK'
  <2> SUFFICES ASSUME quiet PROVE QuietOK'
    BY <1>1 DEF QuietOK
  <2>1. ASSUME NEW k \in 1 .. cursor + 1,
               catalog[Order[k]] # "absent", exposes(request.props, Flatten[Order[k]])
        PROVE  Order[k] \in ToSet(listed')
    <3>1. CASE k \in 1 .. cursor
      BY <1>4, <2>1, <3>1 DEF IInv, ProgressInv, QuietOK
    <3>2. CASE k = cursor + 1
      BY <1>4, <2>1, <3>2 DEF shown, i
    <3> QED
      BY <1>2, <3>1, <3>2
  <2>2. \A j \in DOMAIN loaded : loaded[j] = IF catalog[j] \in Loadable THEN catalog[j] ELSE "skipped"
    BY DEF IInv, ProgressInv, QuietOK
  <2> QED
    BY <1>1, <2>1, <2>2 DEF QuietOK, exposes
<1> QED
  BY <1>7, <1>8, <1>10, <1>11, <1>12 DEF ProgressInv

\* A load adds the catalog's answer for one selected identifier.
LEMMA LoadProgress ==
  ASSUME IInv, NEW i \in Idents, Load(i)
  PROVE  TypeOK' /\ ProgressInv'
<1> DEFINE answer == IF catalog[i] \in Loadable THEN catalog[i] ELSE "skipped"
<1>1. /\ phase = "loading" /\ i \in selection /\ i \notin DOMAIN loaded
      /\ loaded' = [j \in DOMAIN loaded \cup {i} |-> IF j # i THEN loaded[j] ELSE answer]
      /\ phase' = phase /\ request' = request /\ listed' = listed /\ cursor' = cursor
      /\ outcome' = outcome /\ quiet' = quiet /\ catalog' = catalog
      /\ exists' = exists /\ props' = props /\ tables' = tables /\ notes' = notes /\ skips' = skips
  BY DEF Load, Unloaded, schema
<1>2. answer \in Loadable \cup {"skipped"}
  OBVIOUS
<1>3. TypeOK'
  BY <1>1 DEF IInv, TypeOK
<1>4. RequestOK'
  BY <1>1 DEF IInv, ProgressInv, RequestOK, IsPartial
<1>5. ListedOK'
  BY <1>1 DEF IInv, ProgressInv, ListedOK, exposes
<1> HIDE DEF answer
<1>6. DOMAIN loaded' = DOMAIN loaded \cup {i} /\ loaded'[i] = answer
      /\ \A j \in DOMAIN loaded : loaded'[j] = loaded[j]
  BY <1>1
<1>7. LoadedOK'
  BY <1>1, <1>2, <1>6 DEF IInv, ProgressInv, LoadedOK, selection
<1>8. QuietOK'
  BY <1>1, <1>6 DEF IInv, ProgressInv, QuietOK, exposes, answer
<1> QED
  BY <1>3, <1>4, <1>5, <1>7, <1>8 DEF ProgressInv
-----------------------------------------------------------------------------
(* The invariant                                                           *)

\* Before any request the invariant holds.
LEMMA InitIInv == Init => IInv
<1> SUFFICES ASSUME Init PROVE IInv
  OBVIOUS
<1>1. /\ DOMAIN tables = {} /\ DOMAIN loaded = {} /\ ToSet(listed) = {} /\ ToSet(notes.entries) = {}
      /\ IsInjective(listed) /\ IsInjective(notes.entries)
  BY DEF Init, ToSet, IsInjective, NoNotes
<1>2. TypeOK
  <2>1. notes = NoNotes /\ notes.entries = <<>> /\ notes.omitted = 0 /\ request.scope = {}
    BY DEF Init, NoNotes, NoRequest
  <2>2. <<>> \in Seq(Idents) /\ 0 \in 0 .. Len(Order)
    BY CatalogAssumption
  <2> QED
    BY <1>1, <2>1, <2>2 DEF Init, TypeOK
<1>3. ProgressInv
  <2>1. ~IsPartial /\ 1 .. cursor = {}
    BY DEF Init, IsPartial, NoRequest
  <2> QED
    BY <1>1, <2>1 DEF Init, ProgressInv, RequestOK, ListedOK, LoadedOK, QuietOK
<1>4. SkipsAccounted
  <2>1. skips \ ToSet(notes.entries) = {} /\ notes.omitted = 0 /\ skips = {}
    BY <1>1 DEF Init, NoNotes
  <2> QED
    BY <1>1, <2>1, FS_EmptySet DEF SkipsAccounted
<1> QED
  BY <1>1, <1>2, <1>3, <1>4 DEF IInv, HiddenStaysHidden

\* A step that leaves what Exasol persists alone keeps what it promises.
LEMMA SchemaKept ==
  ASSUME IInv, UNCHANGED schema
  PROVE  HiddenStaysHidden' /\ SkipsAccounted'
BY DEF IInv, schema, HiddenStaysHidden, SkipsAccounted, exposes

\* A request that fails persists nothing.
LEMMA FailKeeps ==
  ASSUME IInv, NEW reason, Fail(reason)
  PROVE  IInv'
<1>1. End(reason) /\ UNCHANGED schema
  BY DEF Fail
<1>2. ProgressInv'
  BY <1>1, EndForgets
<1>3. TypeOK'
  <2>1. <<>> \in Seq(Idents) /\ 0 \in 0 .. Len(Order)
    BY CatalogAssumption
  <2> QED
    BY <1>1, <2>1 DEF IInv, TypeOK, End, schema, NoRequest
<1> QED
  BY <1>1, <1>2, <1>3, SchemaKept DEF IInv

\* A change of the catalog keeps the invariant.
LEMMA ChangeKeeps ==
  ASSUME IInv, NEW i \in Idents, NEW status \in Statuses, CatalogChanges(i, status)
  PROVE  IInv'
<1>1. /\ catalog' = [catalog EXCEPT ![i] = status] /\ quiet' = (quiet /\ phase = "idle")
      /\ UNCHANGED <<schema, progress>>
  BY DEF CatalogChanges
<1>2. TypeOK'
  BY <1>1 DEF IInv, TypeOK, schema, progress
<1>3. RequestOK' /\ ListedOK' /\ LoadedOK'
  BY <1>1 DEF IInv, ProgressInv, RequestOK, ListedOK, LoadedOK, schema, progress, IsPartial, selection, exposes
<1>4. QuietOK'
  <2> SUFFICES ASSUME quiet' PROVE QuietOK'
    BY DEF QuietOK
  <2>1. cursor = 0 /\ loaded = <<>> /\ cursor' = cursor /\ loaded' = loaded
    BY <1>1 DEF IInv, ProgressInv, ListedOK, progress
  <2>2. 1 .. cursor' = {} /\ DOMAIN loaded' = {}
    BY <2>1
  <2> QED
    BY <2>2 DEF QuietOK
<1> QED
  BY <1>1, <1>2, <1>3, <1>4, SchemaKept DEF IInv, ProgressInv

\* Dropping the schema keeps the invariant.
LEMMA DropKeeps ==
  ASSUME IInv, DropVirtualSchema
  PROVE  IInv'
<1>1. /\ exists' = FALSE /\ props' = NoProps /\ tables' = <<>> /\ notes' = NoNotes /\ skips' = {}
      /\ UNCHANGED <<catalog, changes, progress, quiet>> /\ phase = "idle"
  BY DEF DropVirtualSchema
<1>2. /\ DOMAIN tables' = {} /\ notes'.entries = <<>> /\ notes'.omitted = 0
      /\ ToSet(notes'.entries) = {} /\ IsInjective(notes'.entries)
  BY <1>1 DEF NoNotes, ToSet, IsInjective
<1>3. TypeOK'
  <2>1. <<>> \in Seq(Idents)
    OBVIOUS
  <2> QED
    BY <1>1, <1>2, <2>1 DEF IInv, TypeOK, progress
<1>4. RequestOK'
  <2>1. ~IsPartial
    BY <1>1 DEF IInv, ProgressInv, RequestOK, ListedOK
  <2> QED
    BY <1>1, <2>1 DEF RequestOK, IsPartial, progress
<1>5. ListedOK' /\ LoadedOK' /\ QuietOK'
  BY <1>1 DEF IInv, ProgressInv, ListedOK, LoadedOK, QuietOK, progress, selection, exposes
<1>6. HiddenStaysHidden'
  BY <1>2 DEF HiddenStaysHidden
<1>7. SkipsAccounted'
  <2>1. skips' \ ToSet(notes'.entries) = {}
    BY <1>1
  <2> QED
    BY <1>1, <1>2, <2>1, FS_EmptySet DEF SkipsAccounted
<1> QED
  BY <1>3, <1>4, <1>5, <1>6, <1>7 DEF IInv, ProgressInv

\* Every step keeps the invariant, one case per action.
LEMMA StepIInv == IInv /\ [Next]_vars => IInv'
<1> SUFFICES ASSUME IInv, [Next]_vars PROVE IInv'
  OBVIOUS
<1>1. CASE UNCHANGED vars
  BY <1>1 DEF vars, schema, progress, IInv, TypeOK, ProgressInv, RequestOK, ListedOK, LoadedOK, QuietOK,
              HiddenStaysHidden, SkipsAccounted, IsPartial, selection, exposes
<1>2. ASSUME NEW i \in Idents, NEW status \in Statuses, CatalogChanges(i, status) PROVE IInv'
  BY <1>2, ChangeKeeps
<1>3. ASSUME NEW kind, NEW scope \in SUBSET Names, NEW p, Begin(kind, scope, p),
             kind = "refresh_tables" => p = props,
             kind # "refresh_tables" => scope = Names
      PROVE  IInv'
  <2>1. TypeOK' /\ ProgressInv'
    BY <1>3, BeginProgress
  <2>2. UNCHANGED schema
    BY <1>3 DEF Begin
  <2> QED
    BY <2>1, <2>2, SchemaKept DEF IInv
<1>4. ASSUME NEW p, CreateVirtualSchema(p) PROVE IInv'
  BY <1>3, <1>4 DEF CreateVirtualSchema
<1>5. CASE Refresh
  BY <1>3, <1>5 DEF Refresh
<1>6. ASSUME NEW requested \in (SUBSET Names) \ {{}}, RefreshTables(requested) PROVE IInv'
  <2>1. Begin("refresh_tables", requested, props) /\ requested \in SUBSET Names
    BY <1>6 DEF RefreshTables
  <2> QED
    BY <1>3, <2>1
<1>7. ASSUME NEW change, SetProperties(change) PROVE IInv'
  BY <1>3, <1>7 DEF SetProperties
<1>8. CASE DropVirtualSchema
  BY <1>8, DropKeeps
<1>9. CASE ListPage
  <2>1. UNCHANGED schema
    BY <1>9 DEF ListPage
  <2> QED
    BY <1>9, <2>1, ListPageProgress, SchemaKept DEF IInv
<1>10. CASE StartLoads
  <2>1. UNCHANGED schema
    BY <1>10 DEF StartLoads
  <2>2. TypeOK' /\ ProgressInv'
    BY <1>10 DEF StartLoads, schema, IInv, TypeOK, ProgressInv, RequestOK, ListedOK, LoadedOK, QuietOK,
                 IsPartial, selection, exposes
  <2> QED
    BY <2>1, <2>2, SchemaKept DEF IInv
<1>11. ASSUME NEW i \in Idents, Load(i) PROVE IInv'
  <2>1. UNCHANGED schema
    BY <1>11 DEF Load
  <2> QED
    BY <1>11, <2>1, LoadProgress, SchemaKept DEF IInv
<1>12. ASSUME NEW i \in Idents, LoadFails(i) PROVE IInv'
  BY <1>12, FailKeeps DEF LoadFails
<1>13. CASE ListingFails
  BY <1>13, FailKeeps DEF ListingFails
<1>14. CASE Collision
  BY <1>14, FailKeeps DEF Collision
<1>15. CASE Respond
  <2>1. ProgressInv'
    BY <1>15, EndForgets DEF Respond
  <2> QED
    BY <1>15, <2>1, RespondTypes, RespondHides, RespondAccounts DEF IInv
<1> QED
  BY <1>1, <1>2, <1>4, <1>5, <1>6, <1>7, <1>8, <1>9, <1>10, <1>11, <1>12, <1>13, <1>14, <1>15 DEF Next

\* The inductive invariant always holds: types, hidden tables, accounted
\* skips and what a request in progress has listed and loaded.
THEOREM Invariance == Spec => []IInv
<1>1. Init => IInv
  BY InitIInv
<1>2. IInv /\ [Next]_vars => IInv'
  BY StepIInv
<1> QED
  BY <1>1, <1>2, PTL DEF Spec

\* The persisted tables and notes are well formed in every state: each table is
\* named after the identifier in its note, and each skip is noted once.
THEOREM TypeCorrect == Spec => []TypeOK
<1>1. IInv => TypeOK
  BY DEF IInv
<1> QED
  BY <1>1, Invariance, PTL

\* Whatever is created, refreshed, set and dropped in whatever order, the filter
\* a schema persists hides a table from its tables and from its skip list.
THEOREM Hidden == Spec => []HiddenStaysHidden
<1>1. IInv => HiddenStaysHidden
  BY DEF IInv
<1> QED
  BY <1>1, Invariance, PTL

\* No skip is lost between full and partial refreshes: it is in the list or in
\* the count of what the cap left out, for every limit and every entry length.
THEOREM SkipsKept == Spec => []SkipsAccounted
<1>1. IInv => SkipsAccounted
  BY DEF IInv
<1> QED
  BY <1>1, Invariance, PTL
-----------------------------------------------------------------------------
(* What a step may do                                                      *)

\* Only three actions end a request whose loads have begun, each with an outcome
\* of its own.
LEMMA Endings ==
  ASSUME IInv, [Next]_vars, phase = "loading", outcome' # "none"
  PROVE  /\ outcome' = "served" => Respond
         /\ outcome' = "load_failed" => \E i \in Idents : LoadFails(i)
         /\ outcome' = "collision" => Collision
<1>1. outcome = "none"
  BY DEF IInv, ProgressInv, RequestOK
<1>2. CASE UNCHANGED vars
  BY <1>1, <1>2 DEF vars, progress
<1>3. ASSUME NEW i \in Idents, NEW status \in Statuses, CatalogChanges(i, status) PROVE FALSE
  BY <1>1, <1>3 DEF CatalogChanges, progress
<1>4. ASSUME NEW kind, NEW scope, NEW p, Begin(kind, scope, p) PROVE FALSE
  BY <1>4 DEF Begin
<1>5. ~(Refresh \/ DropVirtualSchema \/ ListPage \/ StartLoads \/ ListingFails)
  BY <1>4 DEF Refresh, DropVirtualSchema, ListPage, StartLoads, ListingFails
<1>6. ASSUME NEW p PROVE ~CreateVirtualSchema(p) /\ ~RefreshTables(p) /\ ~SetProperties(p)
  BY <1>4 DEF CreateVirtualSchema, RefreshTables, SetProperties
<1>7. ASSUME NEW i \in Idents, Load(i) PROVE FALSE
  BY <1>1, <1>7 DEF Load
<1>8. \A i \in Idents : LoadFails(i) => outcome' = "load_failed"
  BY DEF LoadFails, Fail, End
<1>9. (Collision => outcome' = "collision") /\ (Respond => outcome' = "served")
  BY DEF Collision, Respond, Fail, End
<1> QED
  BY <1>1, <1>2, <1>3, <1>5, <1>6, <1>7, <1>8, <1>9 DEF Next

\* The cap of the skip list, for every limit: the notes fit, and no longer prefix
\* of the list would.
THEOREM LongestPrefix == Spec => LongestPrefixKept
<1> DEFINE A == outcome' = "served" /\ phase = "loading" =>
                  /\ NotesLen(notes', Len(notes'.entries)) <= MaxLen
                  /\ \A k \in Len(notes'.entries) + 1 .. Len(merge_skipped_tables.entries) :
                       NotesLen(merge_skipped_tables, k) > MaxLen
<1>1. IInv /\ [Next]_vars => A
  <2> SUFFICES ASSUME IInv, [Next]_vars, outcome' = "served", phase = "loading"
               PROVE  /\ NotesLen(notes', Len(notes'.entries)) <= MaxLen
                      /\ \A k \in Len(notes'.entries) + 1 .. Len(merge_skipped_tables.entries) :
                           NotesLen(merge_skipped_tables, k) > MaxLen
    OBVIOUS
  <2>1. notes' = NewNotes
    BY Endings DEF Respond
  <2>2. PICK kept \in Nat : NotedOK(kept)
    BY Noted
  <2> DEFINE M == merge_skipped_tables
  <2>3. M.entries \in Seq(Idents) /\ M.omitted \in Nat /\ Len(M.entries) \in Nat
    BY Merged DEF MergedOK, IInv, TypeOK
  <2>4. /\ kept \in 0 .. Len(M.entries)
        /\ kept = 0 \/ NotesLen(M, kept) <= MaxLen
        /\ kept < Len(M.entries) => NotesLen(M, kept + 1) > MaxLen
    BY <2>2 DEF NotedOK, FitsPrefix
  <2>5. /\ Len(notes'.entries) = kept
        /\ kept_len(notes'.entries, kept) = kept_len(M.entries, kept)
        /\ notes'.omitted = M.omitted + Len(M.entries) - kept
    BY <2>1, <2>2 DEF NotedOK
  <2>6. NotesLen(notes', kept) = NotesLen(M, kept)
    <3> DEFINE rest == M.omitted + Len(M.entries) - kept
               len == kept_len(M.entries, kept)
    <3>1. NotesLen(M, kept) = BaseLen + len + omitted_entry_len(rest)
      BY DEF NotesLen
    <3>2. NotesLen(notes', kept) = BaseLen + kept_len(notes'.entries, kept)
                                   + omitted_entry_len(notes'.omitted + Len(notes'.entries) - kept)
      BY DEF NotesLen
    <3>3. notes'.omitted + Len(notes'.entries) - kept = rest
      <4> HIDE DEF M
      <4>1. rest \in Nat
        BY <2>3, <2>4
      <4>2. notes'.omitted = rest /\ Len(notes'.entries) = kept
        BY <2>5
      <4> HIDE DEF rest
      <4> QED
        BY <2>2, <4>1, <4>2
    <3> HIDE DEF rest, M
    <3> QED
      BY <2>5, <3>1, <3>2, <3>3
  <2>7. NotesLen(M, kept) <= MaxLen
    <3>1. CASE kept = 0
      <4>1. kept_len(M.entries, kept) = 0
        BY <2>3, <3>1, KeptLenSteps
      <4>2. /\ omitted_entry_len(M.omitted + Len(M.entries) - kept) \in Nat
            /\ omitted_entry_len(M.omitted + Len(M.entries) - kept) <= OmittedLen
        BY LengthAssumption DEF omitted_entry_len
      <4> DEFINE x == omitted_entry_len(M.omitted + Len(M.entries) - kept)
      <4>3. NotesLen(M, kept) = BaseLen + 0 + x
        BY <4>1 DEF NotesLen
      <4> HIDE DEF x
      <4>4. x \in Nat /\ x <= OmittedLen
        BY <4>2 DEF x
      <4> QED
        BY <4>3, <4>4, LengthAssumption
    <3> QED
      BY <2>4, <3>1
  <2>8. ASSUME NEW k \in kept + 1 .. Len(M.entries) PROVE NotesLen(M, k) > MaxLen
    <3> HIDE DEF M
    <3>1. /\ kept + 1 \in 0 .. Len(M.entries) /\ k \in kept + 1 .. Len(M.entries)
          /\ kept < Len(M.entries)
      BY <2>2, <2>3, <2>4, <2>8
    <3>2. /\ NotesLen(M, kept + 1) \in Nat /\ NotesLen(M, k) \in Nat
          /\ NotesLen(M, kept + 1) <= NotesLen(M, k)
      BY <2>3, <3>1, NotesLenMonotone
    <3> QED
      BY <2>4, <3>1, <3>2, LengthAssumption
  <2> QED
    BY <2>5, <2>6, <2>7, <2>8
<1> QED
  BY <1>1, Invariance, PTL DEF Spec, LongestPrefixKept

\* A name in the scope of a request over a quiet catalog: its identifiers that
\* can be loaded are the admitted ones.
LEMMA QuietServing ==
  ASSUME IInv, phase = "loading", Unloaded = {}, quiet, NEW n \in request.scope
  PROVE  /\ Serving(request.props, n) = {i \in Admitted : Flatten[i] = n}
         /\ \A i \in Admitted : loaded[i] = catalog[i]
<1>1. \A i \in DOMAIN loaded : loaded[i] = IF catalog[i] \in Loadable THEN catalog[i] ELSE "skipped"
  BY DEF IInv, ProgressInv, QuietOK
<1>2. \A i \in Admitted : loaded[i] = catalog[i] /\ catalog[i] \in Loadable
  BY <1>1 DEF Admitted, Loadable
<1>3. ASSUME NEW i \in Serving(request.props, n) PROVE i \in Admitted /\ Flatten[i] = n
  <2>1. i \in Idents /\ Flatten[i] = n /\ exposes(request.props, n) /\ catalog[i] \in Loadable
    BY DEF Serving
  <2>2. PICK k \in 1 .. Len(Order) : Order[k] = i
    BY <2>1, CatalogAssumption DEF Idents, ToSet
  <2>3. cursor = Len(Order)
    BY DEF IInv, ProgressInv, ListedOK
  <2>4. i \in ToSet(listed)
    BY <2>1, <2>2, <2>3 DEF IInv, ProgressInv, QuietOK, Loadable
  <2>5. i \in DOMAIN loaded
    BY <2>1, <2>4 DEF Unloaded, selection
  <2> QED
    BY <1>1, <2>1, <2>5 DEF Admitted
<1>4. ASSUME NEW i \in Admitted, Flatten[i] = n PROVE i \in Serving(request.props, n)
  BY <1>2, <1>4, LoadedListed DEF Serving
<1> QED
  BY <1>2, <1>3, <1>4

\* A refresh, partial or not, leaves each name in its scope as a quiet catalog
\* has it and every other name alone, and fails only over its own scope.
THEOREM ExactRefresh == Spec => RefreshIsExact
<1> DEFINE Tuned == outcome' = "served" /\ phase = "loading" =>
                      notes'.factor = resolve_tuning_notes(props')
           Exact == outcome' = "served" /\ phase = "loading" /\ quiet =>
             /\ \A n \in request.scope :
                  /\ n \in DOMAIN tables' <=> Serving(request.props, n) # {}
                  /\ n \in DOMAIN tables' =>
                       /\ Serving(request.props, n) = {tables'[n].ident}
                       /\ tables'[n].columns = catalog[tables'[n].ident]
             /\ \A n \in DOMAIN tables \ request.scope : n \in DOMAIN tables' /\ tables'[n] = tables[n]
           OwnFailure == outcome' = "load_failed" /\ phase = "loading" =>
             \E i \in Idents : /\ catalog[i] = "broken" /\ Flatten[i] \in request.scope
                               /\ exposes(request.props, Flatten[i])
           OwnCollision == outcome' = "collision" /\ phase = "loading" /\ quiet =>
             \E n \in request.scope : Cardinality(Serving(request.props, n)) > 1
<1>1. IInv /\ [Next]_vars => Tuned
  <2> SUFFICES ASSUME IInv, [Next]_vars, outcome' = "served", phase = "loading"
               PROVE  notes'.factor = resolve_tuning_notes(props')
    OBVIOUS
  <2>1. notes' = NewNotes /\ props' = request.props
    BY Endings DEF Respond
  <2>2. NewNotes.factor = resolve_tuning_notes(request.props)
    BY Noted DEF NotedOK
  <2> QED
    BY <2>1, <2>2
<1>2. IInv /\ [Next]_vars => Exact
  <2> SUFFICES ASSUME IInv, [Next]_vars, outcome' = "served", phase = "loading", quiet
               PROVE  /\ \A n \in request.scope :
                           /\ n \in DOMAIN tables' <=> Serving(request.props, n) # {}
                           /\ n \in DOMAIN tables' =>
                                /\ Serving(request.props, n) = {tables'[n].ident}
                                /\ tables'[n].columns = catalog[tables'[n].ident]
                      /\ \A n \in DOMAIN tables \ request.scope :
                           n \in DOMAIN tables' /\ tables'[n] = tables[n]
    OBVIOUS
  <2>1. Unloaded = {} /\ ~Collides /\ tables' = Persisted
    BY Endings DEF Respond
  <2>2. ASSUME NEW n \in request.scope
        PROVE  /\ n \in DOMAIN tables' <=> Serving(request.props, n) # {}
               /\ n \in DOMAIN tables' =>
                    /\ Serving(request.props, n) = {tables'[n].ident}
                    /\ tables'[n].columns = catalog[tables'[n].ident]
    <3>1. /\ Serving(request.props, n) = {i \in Admitted : Flatten[i] = n}
          /\ \A i \in Admitted : loaded[i] = catalog[i]
      BY <2>1, QuietServing
    <3>2. n \in DOMAIN tables' <=> \E i \in Admitted : Flatten[i] = n
      BY <2>1, Persists DEF PersistedOK
    <3>3. ASSUME n \in DOMAIN tables'
          PROVE  /\ Serving(request.props, n) = {tables'[n].ident}
                 /\ tables'[n].columns = catalog[tables'[n].ident]
      <4>1. PICK i \in Admitted : Flatten[i] = n /\ tables'[n] = [ident |-> i, columns |-> loaded[i]]
        BY <2>1, <3>3, Persists DEF PersistedOK
      <4>2. tables'[n].ident = i /\ tables'[n].columns = loaded[i]
        BY <4>1
      <4>3. \A j \in Admitted : Flatten[j] = n => j = i
        BY <2>1, <4>1 DEF Collides
      <4> QED
        BY <3>1, <4>1, <4>2, <4>3
    <3> QED
      BY <3>1, <3>2, <3>3
  <2>3. ASSUME NEW n \in DOMAIN tables \ request.scope
        PROVE  n \in DOMAIN tables' /\ tables'[n] = tables[n]
    <3>1. IsPartial
      BY DEF IInv, TypeOK, ProgressInv, RequestOK
    <3> QED
      BY <2>1, <3>1, Persists DEF PersistedOK
  <2> QED
    BY <2>2, <2>3
<1>3. IInv /\ [Next]_vars => OwnFailure
  <2> SUFFICES ASSUME IInv, [Next]_vars, outcome' = "load_failed", phase = "loading"
               PROVE  \E i \in Idents : /\ catalog[i] = "broken" /\ Flatten[i] \in request.scope
                                        /\ exposes(request.props, Flatten[i])
    OBVIOUS
  <2>1. PICK i \in Idents : LoadFails(i)
    BY Endings
  <2>2. catalog[i] = "broken" /\ i \in selection
    BY <2>1 DEF LoadFails, Unloaded
  <2> QED
    BY <2>2, LoadedListed
<1>4. IInv /\ [Next]_vars => OwnCollision
  <2> SUFFICES ASSUME IInv, [Next]_vars, outcome' = "collision", phase = "loading", quiet
               PROVE  \E n \in request.scope : Cardinality(Serving(request.props, n)) > 1
    OBVIOUS
  <2>1. Unloaded = {} /\ Collides
    BY Endings DEF Collision
  <2>2. PICK i \in Admitted, j \in Admitted : i # j /\ Flatten[i] = Flatten[j]
    BY <2>1 DEF Collides
  <2> DEFINE n == Flatten[i]  S == Serving(request.props, n)
  <2>3. n \in request.scope
    BY LoadedListed
  <2>4. {i, j} \subseteq S
    BY <2>1, <2>2, <2>3, QuietServing
  <2>5. IsFiniteSet(S)
    BY IdentsFinite, FS_Subset DEF Serving
  <2>6. Cardinality({i, j}) = 2
    <3>1. IsFiniteSet({i}) /\ Cardinality({i}) = 1 /\ {i, j} = {i} \cup {j} /\ j \notin {i}
      BY <2>2, FS_Singleton
    <3>2. Cardinality({i} \cup {j}) = Cardinality({i}) + 1
      BY <3>1, FS_AddElement
    <3> QED
      BY <3>1, <3>2
  <2>7. Cardinality({i, j}) <= Cardinality(S) /\ Cardinality(S) \in Nat
    <3> HIDE DEF S
    <3> QED
      BY <2>4, <2>5, FS_Subset, FS_CardinalityType
  <2> QED
    BY <2>3, <2>6, <2>7
<1>5. IInv /\ [Next]_vars => Tuned /\ Exact /\ OwnFailure /\ OwnCollision
  BY <1>1, <1>2, <1>3, <1>4
<1> QED
  BY <1>5, Invariance, PTL DEF Spec, RefreshIsExact
=============================================================================
