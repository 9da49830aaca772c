--------------------------- MODULE CatalogListing ---------------------------
(***************************************************************************)
(* How a catalog client lists the tables of a namespace                    *)
(* (crates/lakehouse-catalog/src/client.rs, namespace.rs, unity/client.rs  *)
(* and glue/client.rs): the walk through the namespaces below it, the      *)
(* pages of each listing, the loads of the identifiers picked from it, and *)
(* the admission of each table, while other clients change the catalog.    *)
(*                                                                         *)
(* "rest" is the Iceberg REST client, "rest_sigv4" the same client on the  *)
(* Glue REST endpoint, whose namespaces are flat, "unity" and "glue" are   *)
(* the two metastore clients.  A call in mode "full" is list_tables; one   *)
(* in mode "picked" is list_table_idents and then load_listed_tables.      *)
(***************************************************************************)
EXTENDS Integers, Sequences, SequencesExt, FiniteSets, FiniteSetsExt, Selection

CONSTANTS
    Kinds,       \* the client kinds of the instance
    Root,        \* the configured namespace
    Spaces,      \* every namespace there may be, Root included
    ChildrenIn,  \* namespace -> its child namespaces, in the catalog's order
    TablesIn,    \* namespace -> its tables, in the catalog's order
    Exposed,     \* the tables the caller's predicate accepts
    Stored,      \* table -> what it may be, the call's begin included
    PageSize,    \* positions one answer of the catalog covers
    CATALOG_REQUEST_CONCURRENCY,
    MaxChanges   \* bound on the changes other clients make

Tables == UNION {ToSet(TablesIn[ns]) : ns \in Spaces}
SpaceOf(t) == CHOOSE ns \in Spaces : t \in ToSet(TablesIn[ns])

\* What the catalog holds under a name.  The request for a "broken" table's own
\* metadata fails.
Statuses == {"absent", "iceberg", "delta", "parquet", "view", "broken"}

ASSUME ListingAssumption ==
    /\ Kinds \subseteq {"rest", "rest_sigv4", "unity", "glue"}
    /\ Root \in Spaces
    /\ ChildrenIn \in [Spaces -> Seq(Spaces)]
    /\ TablesIn \in [Spaces -> Seq(Tables)]
    /\ Exposed \subseteq Tables
    /\ Stored \in [Tables -> SUBSET Statuses]
    /\ PageSize \in Nat \ {0}
    /\ CATALOG_REQUEST_CONCURRENCY \in Nat \ {0}

\* A namespace's name holds the name of the one above it, and a table's name that
\* of its namespace: the namespaces are a tree below Root, and a table lies in
\* one of them.  A catalog lists each name once.
ASSUME TreeAssumption ==
    /\ IsFiniteSet(Spaces)
    /\ \A ns \in Spaces : IsInjective(ChildrenIn[ns]) /\ IsInjective(TablesIn[ns])
    /\ \A a, b \in Spaces : a # b => /\ ToSet(ChildrenIn[a]) \cap ToSet(ChildrenIn[b]) = {}
                                    /\ ToSet(TablesIn[a]) \cap ToSet(TablesIn[b]) = {}
    /\ \A ns \in Spaces \ {Root} : \E up \in Spaces : ns \in ToSet(ChildrenIn[up])
    /\ \E depth \in [Spaces -> 0 .. Cardinality(Spaces)] :
         /\ depth[Root] = 0
         /\ \A ns \in Spaces : \A c \in ToSet(ChildrenIn[ns]) : depth[c] = depth[ns] + 1

VARIABLES
    kind, mode,
    trailing, \* the catalog returns a token with the last page too
    live,     \* the namespaces that exist
    status,   \* table -> what the catalog holds
    phase,    \* "listing", "loading", "done" or "failed"
    level,    \* the namespaces listed at once
    pages,    \* per namespace of the level: its two listings
    found,    \* the entries of the levels above
    picks,    \* the entries the call loads
    answers,  \* per pick: "none", "admitted", "skipped" or "failed"
    asked,    \* history: tables whose own metadata was requested
    culprit,  \* history: the table whose failure ended the call, or NoTable
    changes,  \* how often other clients changed the catalog
    held      \* history: table -> what the catalog held during the call

call == <<kind, mode, trailing>>
catalog == <<live, status, changes, held>>
listing == <<level, pages, found>>
loading == <<picks, answers, asked>>
vars == <<call, catalog, phase, listing, loading, culprit>>

NoTable == "no table"
NoToken == -1

-----------------------------------------------------------------------------
(* The three clients                                                       *)

\* list_namespace_tables descends except on SigV4; Unity and Glue namespaces
\* are flat.
descend == kind = "rest"

\* An identifier listing names its tables only; the full listing of Unity and
\* Glue carries each table's registration along.
carries_info == mode = "full" /\ kind \in {"unity", "glue"}

\* Mutant: an empty page ends no Glue listing.
TokenOnly(items, token) == token # NoToken

\* next_page_token (Glue): a token may follow the last page, so an empty page
\* ends the listing.
next_page_token(items, token) == items # <<>> /\ token # NoToken

\* Mutant: an empty page ends a REST listing too.
EmptyEnds(items, token) == items # <<>> /\ token # NoToken

\* list_pages and collect_pages: only an absent token ends the paging.
list_pages(items, token) == token # NoToken

more_pages(items, token) ==
    IF kind = "glue" THEN next_page_token(items, token) ELSE list_pages(items, token)

\* Mutant: a table that is gone by now fails the whole call.
GoneFails(s) ==
    CASE s = "iceberg" -> "admitted"
      [] s \in {"absent", "broken"} -> "failed"
      [] OTHER -> "skipped"

\* admit_on_session: a 404 and a 400 skip the table, other errors fail.
admit_on_session(s) ==
    CASE s = "iceberg" -> "admitted"
      [] s = "broken" -> "failed"
      [] OTHER -> "skipped"

\* admission (Unity): a base table of a format the scan plans.
admission(s) == IF s \in {"delta", "parquet", "broken"} THEN "admitted" ELSE "skipped"

\* route (Glue): an Iceberg table is read from its metadata file.
route(s) ==
    CASE s \in {"iceberg", "broken"} -> "iceberg"
      [] s = "parquet" -> "parquet"
      [] OTHER -> "skip"

\* Unity answers loads one after another; the others keep a window of them.
window == IF kind = "unity" THEN 1 ELSE CATALOG_REQUEST_CONCURRENCY

\* `buffered` hands the results on in order and holds at most `width` elements
\* that it has not handed on.
Started(k, settled, width) ==
    k <= width + Max({j \in 0 .. Cardinality(settled) : 1 .. j \subseteq settled})

-----------------------------------------------------------------------------
(* The catalog (external): an answer covers PageSize positions after the   *)
(* token's and names what exists there now.  Glue's pages are empty only   *)
(* at the end, where it may still return a token.                          *)

Exists(what, e) == IF what = "tables" THEN status[e] # "absent" ELSE e \in live

Positions(what, ns) == IF what = "tables" THEN TablesIn[ns] ELSE ChildrenIn[ns]

PageEnd(what, ns, at) ==
    LET all == Positions(what, ns)
        due == Min({at + PageSize, Len(all)})
        filled == {q \in due .. Len(all) : \E p \in at + 1 .. q : Exists(what, all[p])}
    IN  IF kind # "glue" THEN due
        ELSE IF filled = {} THEN Len(all) ELSE Min(filled)

PageItems(what, ns, at) ==
    Selected(SubSeq(Positions(what, ns), at + 1, PageEnd(what, ns, at)),
             {e \in ToSet(Positions(what, ns)) : Exists(what, e)})

PageToken(what, ns, at) ==
    LET end == PageEnd(what, ns, at)
    IN  IF end < Len(Positions(what, ns)) \/ trailing THEN end ELSE NoToken

-----------------------------------------------------------------------------
NotListed == [at |-> 0, done |-> FALSE, items |-> <<>>]
NothingToList == [NotListed EXCEPT !.done = TRUE]

\* list_tables and list_child_namespaces of one namespace (try_join!).
FirstPages == [tables |-> NotListed,
               spaces |-> IF descend THEN NotListed ELSE NothingToList,
               failed |-> FALSE]

Complete(k) == pages[k].tables.done /\ pages[k].spaces.done /\ ~pages[k].failed

Init ==
    /\ kind \in Kinds
    /\ mode \in {"full", "picked"}
    /\ trailing \in IF kind = "glue" THEN BOOLEAN ELSE {FALSE}
    /\ live \in {s \in SUBSET Spaces : Root \in s /\ \A ns \in Spaces :
                    ToSet(ChildrenIn[ns]) \cap s # {} => ns \in s}
    /\ status \in {f \in [Tables -> Statuses] : \A t \in Tables :
                     IF SpaceOf(t) \in live THEN f[t] \in Stored[t] ELSE f[t] = "absent"}
    /\ phase = "listing"
    /\ level = <<Root>>
    /\ pages = <<FirstPages>>
    /\ found = <<>>
    /\ picks = <<>> /\ answers = <<>> /\ asked = {}
    /\ culprit = NoTable
    /\ changes = 0
    /\ held = [t \in Tables |-> {status[t]}]

\* Other clients create, drop and alter tables, and create and drop empty
\* namespaces.
TableChanges(t, s) ==
    /\ changes < MaxChanges
    /\ phase \in {"listing", "loading"}
    /\ SpaceOf(t) \in live
    /\ status[t] # s
    /\ status' = [status EXCEPT ![t] = s]
    /\ changes' = changes + 1
    /\ held' = [held EXCEPT ![t] = @ \cup {s}]
    /\ UNCHANGED <<call, live, phase, listing, loading, culprit>>

SpaceChanges(ns) ==
    /\ changes < MaxChanges
    /\ phase \in {"listing", "loading"}
    /\ ns # Root
    /\ IF ns \in live
         THEN /\ \A t \in ToSet(TablesIn[ns]) : status[t] = "absent"
              /\ ToSet(ChildrenIn[ns]) \cap live = {}
              /\ live' = live \ {ns}
         ELSE /\ \E up \in live : ns \in ToSet(ChildrenIn[up])
              /\ live' = live \cup {ns}
    /\ changes' = changes + 1
    /\ UNCHANGED <<call, status, held, phase, listing, loading, culprit>>

-----------------------------------------------------------------------------
(* list_namespace_tables, list_table_infos, tables                         *)

\* Another page of one listing of the level's k-th namespace.
Page(k, what) ==
    /\ phase = "listing"
    /\ Started(k, {i \in DOMAIN level : Complete(i)}, CATALOG_REQUEST_CONCURRENCY)
    /\ ~pages[k].failed
    /\ LET ns == level[k]
           job == pages[k][what]
           names == PageItems(what, ns, job.at)
           token == PageToken(what, ns, job.at)
           items == [i \in DOMAIN names |->
                       IF what = "spaces" THEN names[i]
                       ELSE [table |-> names[i],
                             info |-> IF carries_info THEN status[names[i]] ELSE "name"]]
       IN  /\ ns \in live
           /\ ~job.done
           /\ pages' = [pages EXCEPT ![k][what] =
                           [at |-> IF token = NoToken THEN job.at ELSE token,
                            done |-> ~more_pages(names, token),
                            items |-> job.items \o items]]
    /\ UNCHANGED <<call, catalog, phase, level, found, loading, culprit>>

\* The namespace was dropped after its parent listed it.
SpaceGone(k, what) ==
    /\ phase = "listing"
    /\ Started(k, {i \in DOMAIN level : Complete(i)}, CATALOG_REQUEST_CONCURRENCY)
    /\ ~pages[k][what].done /\ ~pages[k].failed
    /\ level[k] \notin live
    /\ pages' = [pages EXCEPT ![k].failed = TRUE]
    /\ UNCHANGED <<call, catalog, phase, level, found, loading, culprit>>

\* The request itself fails.
PageFails(k, what) ==
    /\ phase = "listing"
    /\ Started(k, {i \in DOMAIN level : Complete(i)}, CATALOG_REQUEST_CONCURRENCY)
    /\ ~pages[k][what].done /\ ~pages[k].failed
    /\ level[k] \in live
    /\ pages' = [pages EXCEPT ![k].failed = TRUE]
    /\ UNCHANGED <<call, catalog, phase, level, found, loading, culprit>>

\* try_collect stops at the first failed namespace of the level.
ListingFails ==
    /\ phase = "listing"
    /\ \E k \in DOMAIN level : pages[k].failed /\ \A i \in 1 .. k - 1 : Complete(i)
    /\ phase' = "failed"
    /\ UNCHANGED <<call, catalog, listing, loading, culprit>>

LevelTables == FlattenSeq([k \in DOMAIN level |-> pages[k].tables.items])
LevelSpaces == FlattenSeq([k \in DOMAIN level |-> pages[k].spaces.items])

\* Mutant: a level replaces what the levels above it found.
ForgetLevel ==
    /\ phase = "listing"
    /\ \A k \in DOMAIN level : Complete(k)
    /\ LevelSpaces # <<>>
    /\ found' = LevelTables
    /\ level' = LevelSpaces
    /\ pages' = [k \in DOMAIN LevelSpaces |-> FirstPages]
    /\ UNCHANGED <<call, catalog, phase, loading, culprit>>

NextLevel ==
    /\ phase = "listing"
    /\ \A k \in DOMAIN level : Complete(k)
    /\ LevelSpaces # <<>>
    /\ found' = found \o LevelTables
    /\ level' = LevelSpaces
    /\ pages' = [k \in DOMAIN LevelSpaces |-> FirstPages]
    /\ UNCHANGED <<call, catalog, phase, loading, culprit>>

\* Only identifiers `exposes` accepts are admitted, skipped or loaded.
exposed_only(entries) == Selected(entries, {e \in ToSet(entries) : e.table \in Exposed})

ListingEnds ==
    /\ phase = "listing"
    /\ \A k \in DOMAIN level : Complete(k)
    /\ LevelSpaces = <<>>
    /\ picks' = exposed_only(found \o LevelTables)
    /\ answers' = [k \in DOMAIN picks' |-> "none"]
    /\ phase' = "loading"
    /\ UNCHANGED <<call, catalog, listing, asked, culprit>>

-----------------------------------------------------------------------------
(* load_listed_tables, and the admission of a full listing                 *)

Settled(k) == answers[k] \in {"admitted", "skipped"}

Due(k) ==
    /\ phase = "loading"
    /\ answers[k] = "none"
    /\ Started(k, {i \in DOMAIN picks : Settled(i)}, window)

Answered(k, answer) == answers' = [answers EXCEPT ![k] = answer]
AsksFor(k) == asked' = asked \cup {picks[k].table}

LoadRest(k) ==
    /\ Due(k)
    /\ kind \in {"rest", "rest_sigv4"}
    /\ Answered(k, admit_on_session(status[picks[k].table]))
    /\ AsksFor(k)
    /\ UNCHANGED <<call, catalog, phase, listing, picks, culprit>>

\* get_table_info and admit; a full listing already carries the answer.
LoadUnity(k) ==
    /\ Due(k)
    /\ kind = "unity"
    /\ IF picks[k].info # "name"
         THEN Answered(k, admission(picks[k].info)) /\ UNCHANGED asked
         ELSE LET s == status[picks[k].table]
              IN  /\ Answered(k, IF s \in {"absent", "broken"} THEN "failed" ELSE admission(s))
                  /\ AsksFor(k)
    /\ UNCHANGED <<call, catalog, phase, listing, picks, culprit>>

\* get_table, before the admission of a picked Glue table.
GetTable(k) ==
    /\ Due(k)
    /\ kind = "glue"
    /\ picks[k].info = "name"
    /\ LET s == status[picks[k].table]
       IN  IF s = "absent" THEN Answered(k, "failed") /\ UNCHANGED picks
           ELSE picks' = [picks EXCEPT ![k].info = s] /\ UNCHANGED answers
    /\ AsksFor(k)
    /\ UNCHANGED <<call, catalog, phase, listing, culprit>>

\* admit: the metadata file of a table dropped meanwhile may be gone.
AdmitGlue(k) ==
    /\ Due(k)
    /\ kind = "glue"
    /\ picks[k].info # "name"
    /\ IF route(picks[k].info) = "iceberg"
         THEN /\ \/ Answered(k, "admitted") /\ picks[k].info # "broken"
                 \/ /\ picks[k].info = "broken" \/ status[picks[k].table] = "absent"
                    /\ Answered(k, "failed")
              /\ AsksFor(k)
         ELSE /\ Answered(k, IF route(picks[k].info) = "parquet" THEN "admitted" ELSE "skipped")
              /\ UNCHANGED asked
    /\ UNCHANGED <<call, catalog, phase, listing, picks, culprit>>

\* try_collect hands on the first failure in listing order.
LoadsFail(k) ==
    /\ phase = "loading"
    /\ answers[k] = "failed" /\ \A i \in 1 .. k - 1 : Settled(i)
    /\ phase' = "failed"
    /\ culprit' = picks[k].table
    /\ UNCHANGED <<call, catalog, listing, loading>>

Return ==
    /\ phase = "loading"
    /\ \A k \in DOMAIN picks : Settled(k)
    /\ phase' = "done"
    /\ UNCHANGED <<call, catalog, listing, loading, culprit>>

Returned == phase \in {"done", "failed"} /\ UNCHANGED vars

ListingStep ==
    \/ \E k \in DOMAIN level, what \in {"tables", "spaces"} : Page(k, what) \/ SpaceGone(k, what)
    \/ ListingFails \/ NextLevel \/ ListingEnds

LoadingStep ==
    \/ \E k \in DOMAIN picks : \/ LoadRest(k) \/ LoadUnity(k) \/ GetTable(k)
                               \/ AdmitGlue(k) \/ LoadsFail(k)
    \/ Return

Next ==
    \/ ListingStep \/ LoadingStep \/ Returned
    \/ \E t \in Tables, s \in Statuses : s \in Stored[t] /\ TableChanges(t, s)
    \/ \E ns \in Spaces : SpaceChanges(ns)
    \/ \E k \in DOMAIN level, what \in {"tables", "spaces"} : PageFails(k, what)

Spec == Init /\ [][Next]_vars

\* Every catalog request returns (module CatalogHttp, and the operation timeout
\* of the Glue client), and the runtime polls the call.
FairSpec == Spec /\ WF_vars(ListingStep \/ LoadingStep)

-----------------------------------------------------------------------------
\* CatalogListing::from_iter: the admitted tables and the skipped ones.
Listed(answer) ==
    LET kept == Selected([k \in DOMAIN picks |-> k], {k \in DOMAIN picks : answers[k] = answer})
    IN  [i \in DOMAIN kept |-> picks[kept[i]].table]

Times(t, s) == Cardinality({i \in DOMAIN s : s[i] = t})

\* How the client's kind takes a table that does not change.
Takes(s) ==
    CASE kind \in {"rest", "rest_sigv4"} -> admit_on_session(s)
      [] kind = "unity" -> admission(s)
      [] kind = "glue" -> IF route(s) = "skip" THEN "skipped" ELSE "admitted"

InReach(t) == descend \/ SpaceOf(t) = Root

\* However the pages, the levels and the loads interleave with other clients,
\* a table that stays as it is during the call is returned exactly once, under
\* the heading its kind gives it, and no table is returned that never existed
\* meanwhile (CatalogClient::list_tables: "Includes tables in descendant
\* namespaces").
SteadyListedOnce ==
    phase = "done" =>
        \A t \in Tables :
            LET times == Times(t, Listed("admitted")) + Times(t, Listed("skipped"))
            IN  /\ t \in Exposed /\ InReach(t) /\ held[t] = {status[t]} /\ status[t] # "absent" =>
                     times = 1 /\ Times(t, Listed(Takes(status[t]))) = 1
                /\ held[t] = {"absent"} => times = 0

\* The namespaces level by level, and the tables in that order.
LevelAt[d \in Nat] ==
    IF d = 0 THEN <<Root>>
    ELSE FlattenSeq([k \in DOMAIN LevelAt[d - 1] |-> ChildrenIn[LevelAt[d - 1][k]]])

BreadthFirst == FlattenSeq([d \in 1 .. Cardinality(Spaces) |-> LevelAt[d - 1]])

TablesInOrder == FlattenSeq([k \in DOMAIN BreadthFirst |-> TablesIn[BreadthFirst[k]]])

InOrder(answer) ==
    Selected(TablesInOrder, {t \in Exposed : /\ InReach(t) /\ status[t] # "absent"
                                             /\ Takes(status[t]) = answer})

\* Both ways to list agree: over a catalog nobody changes the result, order
\* included, depends on neither the mode, the pages nor the order of answers
\* (TableAdmission: "so they agree on admission and skip reason").
ListingsAgree ==
    phase = "done" /\ changes = 0 =>
        \A answer \in {"admitted", "skipped"} : Listed(answer) = InOrder(answer)

\* A table the predicate rejects costs no load and fails no call, and on Iceberg
\* REST neither does one that is dropped after it was listed
\* (CatalogClient::list_tables: "a rejected table can neither fail the call nor
\* cost a load").
OnlyExposedCount ==
    /\ asked \subseteq Exposed
    /\ culprit # NoTable =>
         /\ culprit \in Exposed
         /\ \/ "broken" \in held[culprit]
            \/ kind \in {"unity", "glue"} /\ "absent" \in held[culprit]

\* Every call returns.
CallReturns == <>(phase \in {"done", "failed"})
=============================================================================
