--------------------------- MODULE VirtualSchema ---------------------------
(***************************************************************************)
(* The life of one virtual schema: CREATE, REFRESH, REFRESH TABLES, SET    *)
(* and DROP (crates/lakehouse-engine/src/adapter/mod.rs, scoped_refresh.rs *)
(* and skipped_tables.rs) over a catalog that changes meanwhile.           *)
(*                                                                         *)
(* The adapter keeps nothing between requests: Exasol persists the virtual *)
(* tables, the properties and the adapter notes, and runs one such request *)
(* on a schema at a time.  A request lists the identifiers page by page,   *)
(* loads the ones in its scope, and only then answers.                     *)
(***************************************************************************)
EXTENDS Integers, Sequences, FiniteSets, FiniteSetsExt, SequencesExt, Selection

CONSTANTS
    Order,      \* every catalog identifier, in the catalog's listing order
    Names,      \* the Exasol table names
    Flatten,    \* identifier -> Exasol name: two identifiers may share one
    Filters,    \* the values of TABLE_INCLUDE and TABLE_EXCLUDE
    Exposed,    \* filter -> the names it exposes: what its globs match
    Factors,    \* the values of PARALLELISM_FACTOR
    EntryLen,   \* identifier -> length of its skip entry in the notes
    BaseLen,    \* length of the notes around an empty skip list
    OmittedLen, \* length of the omitted-count entry, its digits taken as constant
    MaxLen,     \* ADAPTER_NOTES_MAX_BYTES
    MaxChanges, \* bound on changes of the catalog
    MaxOmitted  \* bound on the omitted count a partial refresh starts from

Idents == ToSet(Order)
Loadable == {"v1", "v2"}    \* the table's current columns
Statuses == Loadable \cup {"absent", "rejected", "broken"}
Unset == "unset"
DEFAULT_PARALLELISM_FACTOR == "default"

\* The catalog lists an identifier once, and each has one Exasol name.
ASSUME CatalogAssumption ==
    /\ Order \in Seq(Idents) /\ IsInjective(Order)
    /\ Flatten \in [Idents -> Names]

\* Exasol's JSON limit leaves room for the other notes and the omitted count,
\* and a skip entry, with its reason, is longer than the omitted count.
ASSUME LengthAssumption ==
    /\ MaxLen \in Nat /\ BaseLen \in Nat /\ OmittedLen \in Nat \ {0}
    /\ EntryLen \in [Idents -> Nat]
    /\ BaseLen + OmittedLen <= MaxLen
    /\ \A i \in Idents : EntryLen[i] >= OmittedLen

VARIABLES
    catalog,    \* identifier -> status
    changes,    \* how often the catalog changed
    exists,     \* the virtual schema exists
    props,      \* its persisted properties [filter, factor]
    tables,     \* Exasol name -> [ident, columns], its virtual tables and their notes
    notes,      \* its schema-level adapter notes [entries, omitted, factor]
    phase,      \* "idle", "listing" or "loading"
    request,    \* the request under way [kind, scope, props]
    listed,     \* the identifiers listed so far
    cursor,     \* the listing's position in Order
    loaded,     \* identifier -> what its load answered
    outcome,    \* how the last request ended
    quiet,      \* the catalog has not changed since the request began
    skips       \* identifiers whose last load in a served request was a skip

schema == <<exists, props, tables, notes, skips>>
progress == <<phase, request, listed, cursor, loaded, outcome>>
vars == <<catalog, changes, schema, progress, quiet>>

NoProps == [filter |-> Unset, factor |-> Unset]
NoNotes == [entries |-> <<>>, omitted |-> 0, factor |-> Unset]
NoRequest == [kind |-> "none", scope |-> {}, props |-> NoProps]

-----------------------------------------------------------------------------
\* TableFilter::exposes: every name without a filter.
exposes(p, n) == p.filter = Unset \/ n \in Exposed[p.filter]

\* The request's value wins and a null removes the property.
merge_set_properties(old, change) ==
    [k \in DOMAIN old |-> CASE change[k] = "keep" -> old[k]
                            [] change[k] = "null" -> Unset
                            [] OTHER -> change[k]]

\* The tuning note a request writes: the property, or its default.
resolve_tuning_notes(p) ==
    IF p.factor = Unset THEN DEFAULT_PARALLELISM_FACTOR ELSE p.factor

IsPartial == request.kind = "refresh_tables"

\* Mutant: only the identifier of the existing virtual table is loaded.
ByNote ==
    {i \in ToSet(listed) : /\ Flatten[i] \in request.scope
                           /\ Flatten[i] \in DOMAIN tables => tables[Flatten[i]].ident = i}

\* ScopedRefresh::selection: every exposed identifier whose name is requested.
\* A hidden identifier is dropped when it is listed; the loads that follow answer
\* in any order.
selection == {i \in ToSet(listed) : Flatten[i] \in request.scope}

Admitted == {i \in DOMAIN loaded : loaded[i] \in Loadable}
Skipped == {i \in DOMAIN loaded : loaded[i] = "skipped"}

\* reject_name_collisions, over the loaded tables only.
Collides == \E i, j \in Admitted : i # j /\ Flatten[i] = Flatten[j]

\* A requested identifier is a skip if its load was one, any other one if the
\* persisted list has it.
SkipsKnown ==
    {i \in Idents : IF Flatten[i] \in request.scope THEN i \in Skipped
                    ELSE i \in ToSet(notes.entries)}

\* Mutant: a partial refresh loses the count of the skips left out before it.
MergeForgetsOmitted ==
    [entries |-> Selected(listed, SkipsKnown), omitted |-> 0]

\* SkippedTables::listed, or ScopedRefresh::merge_skipped_tables over the
\* persisted list; the entries come in listing order.
merge_skipped_tables ==
    IF IsPartial
    THEN [entries |-> Selected(listed, SkipsKnown), omitted |-> notes.omitted]
    ELSE [entries |-> Selected(listed, Skipped), omitted |-> 0]

omitted_entry_len(n) == IF n = 0 THEN 0 ELSE OmittedLen

\* The running length of the first entries.
kept_len(entries, kept) ==
    LET upto[k \in 0 .. Len(entries)] ==
          IF k = 0 THEN 0 ELSE upto[k - 1] + EntryLen[entries[k]]
    IN  upto[kept]

\* The length of the notes when the first kept entries stay.
NotesLen(skipped, kept) ==
    BaseLen + kept_len(skipped.entries, kept)
            + omitted_entry_len(skipped.omitted + Len(skipped.entries) - kept)

\* Mutant: the notes stay one byte short of the limit.
FitStrictly(skipped) ==
    LET kept == Max({0} \cup {k \in DOMAIN skipped.entries :
                                \A j \in 1 .. k : NotesLen(skipped, j) < MaxLen})
    IN  [entries |-> SubSeq(skipped.entries, 1, kept),
         omitted |-> skipped.omitted + Len(skipped.entries) - kept]

\* fit_skipped_tables: entries are added until the first that does not fit.
fit_skipped_tables(skipped) ==
    LET kept == Max({0} \cup {k \in DOMAIN skipped.entries :
                                \A j \in 1 .. k : NotesLen(skipped, j) <= MaxLen})
    IN  [entries |-> SubSeq(skipped.entries, 1, kept),
         omitted |-> skipped.omitted + Len(skipped.entries) - kept]

\* build_adapter_notes.
NewNotes ==
    LET fitted == fit_skipped_tables(merge_skipped_tables)
    IN  [entries |-> fitted.entries, omitted |-> fitted.omitted,
         factor |-> resolve_tuning_notes(request.props)]

\* build_listing_virtual_tables: one table per admitted identifier.
Declared ==
    [n \in {Flatten[i] : i \in Admitted} |->
        LET i == CHOOSE j \in Admitted : Flatten[j] = n
        IN  [ident |-> i, columns |-> loaded[i]]]

\* What Exasol keeps: a partial answer replaces its scope, any other answer all.
Persisted ==
    LET kept == IF IsPartial THEN DOMAIN tables \ request.scope ELSE {}
    IN  [n \in kept \cup DOMAIN Declared |-> IF n \in kept THEN tables[n] ELSE Declared[n]]

-----------------------------------------------------------------------------
Init ==
    /\ catalog \in [Idents -> Statuses]
    /\ changes = 0
    /\ exists = FALSE /\ props = NoProps /\ tables = <<>> /\ notes = NoNotes /\ skips = {}
    /\ phase = "idle" /\ request = NoRequest
    /\ listed = <<>> /\ cursor = 0 /\ loaded = <<>>
    /\ outcome = "none" /\ quiet = TRUE

\* Writers create, drop, alter and break tables at any time.
CatalogChanges(i, status) ==
    /\ changes < MaxChanges
    /\ catalog[i] # status
    /\ catalog' = [catalog EXCEPT ![i] = status]
    /\ changes' = changes + 1
    /\ quiet' = (quiet /\ phase = "idle")
    /\ UNCHANGED <<schema, progress>>

Begin(kind, scope, p) ==
    /\ phase = "idle"
    /\ phase' = "listing"
    /\ request' = [kind |-> kind, scope |-> scope, props |-> p]
    /\ outcome' = "none"
    /\ UNCHANGED <<catalog, changes, schema, listed, cursor, loaded, quiet>>

CreateVirtualSchema(p) == ~exists /\ Begin("create", Names, p)
Refresh == exists /\ Begin("refresh", Names, props)
RefreshTables(requested) ==
    exists /\ notes.omitted < MaxOmitted /\ Begin("refresh_tables", requested, props)
SetProperties(change) ==
    exists /\ Begin("set_properties", Names, merge_set_properties(props, change))

DropVirtualSchema ==
    /\ phase = "idle" /\ exists
    /\ exists' = FALSE
    /\ props' = NoProps /\ tables' = <<>> /\ notes' = NoNotes /\ skips' = {}
    /\ UNCHANGED <<catalog, changes, progress, quiet>>

\* Mutant: a hidden identifier stays in the listing.
ListHidden ==
    /\ phase = "listing" /\ cursor < Len(Order)
    /\ cursor' = cursor + 1
    /\ LET i == Order[cursor + 1]
       IN  listed' = IF catalog[i] # "absent" THEN Append(listed, i) ELSE listed
    /\ UNCHANGED <<catalog, changes, schema, phase, request, loaded, outcome, quiet>>

\* The next page of list_table_idents, and the filter on what it names.
ListPage ==
    /\ phase = "listing" /\ cursor < Len(Order)
    /\ cursor' = cursor + 1
    /\ LET i == Order[cursor + 1]
       IN  listed' = IF catalog[i] # "absent" /\ exposes(request.props, Flatten[i])
                     THEN Append(listed, i) ELSE listed
    /\ UNCHANGED <<catalog, changes, schema, phase, request, loaded, outcome, quiet>>

StartLoads ==
    /\ phase = "listing" /\ cursor = Len(Order)
    /\ phase' = "loading"
    /\ UNCHANGED <<catalog, changes, schema, request, listed, cursor, loaded, outcome, quiet>>

Unloaded == selection \ DOMAIN loaded

\* admit_on_session: a 404 and a 400 skip the table; loads answer in any order.
Load(i) ==
    /\ phase = "loading"
    /\ i \in Unloaded
    /\ catalog[i] # "broken"
    /\ loaded' = [j \in DOMAIN loaded \cup {i} |->
                    IF j # i THEN loaded[j]
                    ELSE IF catalog[i] \in Loadable THEN catalog[i] ELSE "skipped"]
    /\ UNCHANGED <<catalog, changes, schema, phase, request, listed, cursor, outcome, quiet>>

\* Nothing of a request outlives its answer.
End(reason) ==
    /\ phase' = "idle" /\ request' = NoRequest
    /\ listed' = <<>> /\ cursor' = 0 /\ loaded' = <<>>
    /\ outcome' = reason
    /\ quiet' = TRUE
    /\ UNCHANGED <<catalog, changes>>

\* A request that fails leaves what Exasol persists as it was.
Fail(reason) == End(reason) /\ UNCHANGED schema

\* Any other answer to a load fails the request.
LoadFails(i) ==
    /\ phase = "loading" /\ i \in Unloaded /\ catalog[i] = "broken"
    /\ Fail("load_failed")

\* The CONNECTION, the session or a page of the listing fails.
ListingFails ==
    /\ phase = "listing"
    /\ Fail("listing_failed")

Collision ==
    /\ phase = "loading" /\ Unloaded = {} /\ Collides
    /\ Fail("collision")

\* The answer, and what Exasol makes of it.
Respond ==
    /\ phase = "loading" /\ Unloaded = {} /\ ~Collides
    /\ End("served")
    /\ exists' = TRUE
    /\ props' = request.props
    /\ tables' = Persisted
    /\ notes' = NewNotes
    /\ skips' = Skipped \cup (IF IsPartial
                              THEN {i \in skips : i \in ToSet(listed) /\ Flatten[i] \notin request.scope}
                              ELSE {})

Change == [filter : {"keep", "null"} \cup Filters, factor : {"keep", "null"} \cup Factors]

Next ==
    \/ \E i \in Idents, status \in Statuses : CatalogChanges(i, status)
    \/ \E f \in Filters \cup {Unset}, x \in Factors \cup {Unset} :
         CreateVirtualSchema([filter |-> f, factor |-> x])
    \/ Refresh
    \/ \E requested \in (SUBSET Names) \ {{}} : RefreshTables(requested)
    \/ \E change \in Change : SetProperties(change)
    \/ DropVirtualSchema
    \/ ListPage
    \/ StartLoads
    \/ \E i \in Idents : Load(i) \/ LoadFails(i)
    \/ ListingFails
    \/ Collision
    \/ Respond

Spec == Init /\ [][Next]_vars

-----------------------------------------------------------------------------
\* The shape of what Exasol persists: a table is named after the identifier in
\* its note.
TypeOK ==
    /\ catalog \in [Idents -> Statuses]
    /\ phase \in {"idle", "listing", "loading"}
    /\ listed \in Seq(Idents) /\ cursor \in 0 .. Len(Order)
    /\ request.scope \subseteq Names
    /\ DOMAIN tables \subseteq Names
    /\ \A n \in DOMAIN tables : /\ tables[n].ident \in Idents
                                /\ tables[n].columns \in Loadable
                                /\ Flatten[tables[n].ident] = n
    /\ notes.entries \in Seq(Idents) /\ IsInjective(notes.entries)
    /\ notes.omitted \in Nat
    /\ skips \subseteq Idents
    /\ ~exists => DOMAIN tables = {} /\ notes = NoNotes

\* The filter the schema persists hides a table everywhere: no virtual table and
\* no skip entry survives an ALTER ... SET that hides it, and no REFRESH TABLES
\* brings it back (docs/catalogs.md, "When the filter applies").
HiddenStaysHidden ==
    \A n \in Names : ~exposes(props, n) =>
        n \notin DOMAIN tables /\ \A i \in ToSet(notes.entries) : Flatten[i] # n

\* A table is served or recorded as skipped, never both; SKIPPED_TABLES_OMITTED
\* bounds the skips the list leaves out, and without it the list is complete: a
\* partial refresh loses no skip and keeps none of a table it now serves.
SkipsAccounted ==
    /\ \A n \in DOMAIN tables : tables[n].ident \notin ToSet(notes.entries)
    /\ ToSet(notes.entries) \subseteq skips
    /\ Cardinality(skips \ ToSet(notes.entries)) <= notes.omitted

\* The notes fit the length past which Exasol rejects them (sqlCode 04000), and
\* the cap drops no entry it could keep: the list is the longest prefix that fits
\* with the count of what it leaves out.
LongestPrefixKept ==
    [][outcome' = "served" /\ phase = "loading" =>
         /\ NotesLen(notes', Len(notes'.entries)) <= MaxLen
         /\ \A k \in Len(notes'.entries) + 1 .. Len(merge_skipped_tables.entries) :
              NotesLen(merge_skipped_tables, k) > MaxLen]_vars

\* The identifiers that serve name n under properties p right now.
Serving(p, n) == {i \in Idents : Flatten[i] = n /\ exposes(p, n) /\ catalog[i] \in Loadable}

\* A served request over a catalog that stood still leaves every name in its
\* scope as the catalog has it and every other name alone, and a request fails
\* over a table or a collision only when that is in its scope: REFRESH TABLES
\* resolves a name exactly as REFRESH does.  The tuning note that pushdowns read
\* follows the property persisted with it.
RefreshIsExact ==
    [][/\ outcome' = "served" /\ phase = "loading" =>
            notes'.factor = resolve_tuning_notes(props')
       /\ outcome' = "served" /\ phase = "loading" /\ quiet =>
            /\ \A n \in request.scope :
                 /\ n \in DOMAIN tables' <=> Serving(request.props, n) # {}
                 /\ n \in DOMAIN tables' =>
                      /\ Serving(request.props, n) = {tables'[n].ident}
                      /\ tables'[n].columns = catalog[tables'[n].ident]
            /\ \A n \in DOMAIN tables \ request.scope : n \in DOMAIN tables' /\ tables'[n] = tables[n]
       /\ outcome' = "load_failed" /\ phase = "loading" =>
            \E i \in Idents : /\ catalog[i] = "broken" /\ Flatten[i] \in request.scope
                              /\ exposes(request.props, Flatten[i])
       /\ outcome' = "collision" /\ phase = "loading" /\ quiet =>
            \E n \in request.scope : Cardinality(Serving(request.props, n)) > 1]_vars
=============================================================================
