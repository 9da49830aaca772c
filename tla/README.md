# A TLA+ development for lakehouse-engine-rs

The repository is an Exasol virtual schema adapter and its scan function. The
adapter answers Exasol's requests about a virtual schema (create, refresh, set,
drop, push down) from an Iceberg REST, Unity or Glue catalog or a storage
directory; the scan function reads the planned files with DataFusion and emits
rows or partial aggregates, and Exasol runs the SQL the adapter wrote around the
scan calls. This directory models that, component by component. The source files
are named relative to `src/crates/`; `PROJECT.json` maps every definition to the
lines it models.

## Inventory

| Component | State | Operations | What is hard | What makes it correct |
|---|---|---|---|---|
| Statement state (`lakehouse-engine/src/adapter/statement_state.rs`, `permission.rs`, `pushdown/scan_resolution.rs`, `scan_catalog.rs`) | per virtual schema: catalog client, session cell, admitted tables, one load cell per table | `get_or_build`, `authorize`, `session`, `loaded_table` | overlapping pushdowns, concurrent legs, failures while a cell is filled | one client, one session, one snapshot, no ungranted read, no request stuck |
| Catalog HTTP (`lakehouse-catalog/src/catalog_http.rs`) | attempts made, window, current answer | `send_capped`, `exchange`, `wait_before_retry` | time-outs, Retry-After, bodies broken mid-answer, late timers | retries only when due and only inside the window; always returns |
| Catalog listing (`lakehouse-catalog/src/client.rs`, `namespace.rs`, `unity/client.rs`, `glue/`) | level, page tokens, loads in flight | `list_tables`, `list_table_idents`, `load_listed_tables` | pages, levels and loads interleave with other clients' changes; trailing tokens | every steady table returned once, both ways to list agree, only exposed tables count |
| Unity bearer (`lakehouse-catalog/src/unity/auth.rs`) | one cached token | `bearer`, `mint` | concurrent mints stored in any order | no bearer expires under a request |
| File planning (`pushdown/format/`, `adapter/parquet_directory.rs`, `direct_storage.rs`, `iceberg_predicate.rs`) | declared columns, opened table | `open`, `prune` per format | the table changes between CREATE, open and prune; three-valued logic; lists with repeats | the planned files hold exactly the matching rows of one snapshot |
| File sharding (`adapter/sharding.rs`, `exasol.rs`) | shards and their bytes | `group_count`, `partition_files_by_bytes` | zero sizes, more shards than files, the group limit | each file once, no empty shard, locally optimal |
| Single-table pushdown (`adapter/pushdown/`) | request, plan | `handle_pushdown`, `classify_request_shape`, `build_dispatch_sql`, `empty_result_sql` | many routes and fallbacks, LIMIT and OFFSET below a merge, partials of unequal shards | the answer is the query's; positional shape; no needless failure |
| Joins (`pushdown/joins/`, `scan/join_scan.rs`) | resolved legs | `plan_join`, broadcast and N-scan builders | windows and filters on the right side, column attribution | the answer is the join's |
| Scan call (`scan/`: `mod.rs`, `raw_scan.rs`, `scan_table.rs`, `emit.rs`, `row_deletes.rs`, `deletion_vectors.rs`, `field_id_projection.rs`, `partition_values.rs`, `store_router.rs`, `object_store.rs`) | permits, memory reservation, position sets, access plans, batches emitted | register, collect deletes, build access plans, bind columns, emit | concurrent reads share permits and memory; a batch may fail after others left; two sides share a store | exactly the live rows, each value from its column, each file with its own side's credential |
| Virtual schema requests (`adapter/mod.rs`, `scoped_refresh.rs`, `skipped_tables.rs`, `table_filter.rs`) | nothing between requests; Exasol persists tables, properties, notes | create, refresh, partial refresh, set, drop | the catalog changes between listing and load; notes at their limit | exact refresh, hidden stays hidden, skips accounted for |
| Numerics and types (`scan/exasol_numeric.rs`, `convert.rs`, `types/`), expression rendering (`vs-expression`) | none | pure functions, text generation | boundaries | value-preserving |
| Credentials (`creds.rs`, `sts.rs`, `vended.rs`, `sigv4.rs`, `scan/sealed.rs`), export (`export.rs`), capabilities and properties | none | parsing, signing, sequential I/O | | |

How they interact: `dispatch` maps a pushdown's user, gets the statement state
and runs the request on its runtime. The request resolves each table reference
through the state (session, permission check, shared load), prunes and lists the
files, shards them and builds the SQL. Exasol runs one scan call per shard and
the outer SELECT. Every catalog call goes through catalog HTTP, Unity's with the
shared bearer. Schema requests list and load through the same clients but keep
no state.

## Modules

**`StatementState`** has one variable per piece of shared state (`states`,
`ready`/`resolver` for the session cell, `admitted`, `cell`/`loader` for the load
cells) and the progress of each request (`stage`) and each table reference
(`leg`). An action is the code between two awaits: the lock is never held over an
await, so `Lookup` and `BuildSucceeds` are separate steps and two requests can
both build (`OrInsert` keeps the first). `FailRequest` is `try_join_all`'s drop of
the other legs: a dropped initialiser gives its `OnceCell` back. `Commit` is an
external writer. A client is named by the request that built it. `allowed`,
`auths` and `view` are history. `Statements` are the sets of pushdowns that are issued
together; `Init` chooses one and the other requests stay `absent`.

**`StatementReads`** is the abstract specification: per schema one version of each
table, gated tables only after a permit, an answer only when all references read.
`StatementState!ImplementsPromise` maps the kept client's admissions and cells
to it.

**`CatalogHttp`** follows one request. Time is in ticks; a step that takes time
advances `now` by its whole duration, and a sleep may end up to `MaxOversleep`
late. The body is read after the headers with a fresh read timeout per part.

**`CatalogListing`** is one call on one of the four client kinds, in full
(`list_tables`) or for picked tables (`list_table_idents`, then
`load_listed_tables`). `level` is the breadth-first level being listed, with two
paged listings per namespace (`try_join!`); `buffered` becomes a window over the
elements in order (`Started`), so results are kept and the first failure is found
in listing order. `Page`, `LoadRest`, `LoadUnity`, `GetTable` and `AdmitGlue` are
the requests, one action each; `TableChanges` and `SpaceChanges` are other clients.
A page covers fixed positions of the catalog's order and names what exists there
now. Glue's own API is taken to return an empty page only at the end, where it may
still return a token; the REST kinds may return an empty page anywhere. `held`,
`asked` and `culprit` are history.

**`UnityAuth`** is the bearer shared by the requests of a session: the look-up
under the lock, the mint outside of it, the store in any order. Of a request's way
through catalog HTTP only the bounds remain (`MintTime`, `SendTime`). Time is
unbounded, so it has a proof and no run.

**`FilePruning`** holds the filter's three-valued meaning and the translations:
the Iceberg and Delta predicates (a predicate the filter implies; a conjunct that
does not translate is dropped, and a widened predicate is never negated) and the
partition predicate that evaluates a filter over carried values. Values are even
numbers; an odd literal falls between two of them and one above `Largest` is
outside the type. A filter is a tree over comparisons, nested up to `MaxDepth`
(`Trees`); a predicate is a tree of the same connectives over bounds on a field's id
(`Predicates`). What the code does by recursion over a node is a recursive function on
these sets. **`FilePlan`** declares a table's columns (CREATE), opens it and prunes it,
for Iceberg, Delta (each column-mapping mode), Unity, Glue and direct storage,
while writers commit. `declared_schema`, `opens` and `prune` are each a whole
phase of the code, so an action is one phase; the Delta replay, the directory
listing, the Glue partitions, the spelling check, the protocol check and the
nullability check are operators of their own. Notes that leave no column to read, or that
refuse a partition column, fail `Open` before the table matters (`ensure_scannable`).
An IN without literals and a connective without operands constrain nothing. What the writers of a table keep to is a
section of its own: `WellFormed` (column names of their own, the rows of a file alike,
no NULL in a required column, a Delta path written once and its removes complete, a
directory partitioned by the keys of its paths, one Glue partition per location) and
`Evolves` (no column is dropped, what files call a column stays, a mapping mode is
never taken back). `Commit` takes only such changes.

**`Sharding`** places one file per step, the heaviest first, on the lightest shard,
the first of equals.

**`PushdownPlan`** takes a request over a two-column table of nullable values,
routes it as `handle_pushdown` and `build_dispatch_sql` do, lets every shard emit,
and evaluates the outer SELECT. A plan is what the SQL says, not its text: a
clause is `"rendered"`, `"declined"` (only Exasol's dialect renders it), or
`"nowhere"`. Ties and unordered limits are free choices in the scans and in
Exasol. Averages and variances are integers in units of `1/Unit` and `1/Unit^2`.
`MaxShards` bounds the shards of a pushdown; `RequestsAssumption` says what Exasol
sends (an offset comes with an order and never with a single-group aggregate, which
selects and sorts by aggregates alone). A request over a table whose every column is
refused (`ensure_scannable`), or that names a refused column, is a hard error; the parse
comes first, so that the empty relation never answers it.

**`Joins`** takes a tree of inner joins over two tables that share their column
names, a self-join included. `ResolveLegs` prunes each leg by its own raw conjuncts,
leaving files in any way that pruning may (a dropped file has no row that passes);
`RefuseLeg` fails the join when the notes of one leg leave no column to read;
`PlanJoin` is `plan_join` from the refusal gate on: the empty relation, the
broadcast when it is eligible and renders, the N-scan plan otherwise; the scan calls
run in any order; `Answer` is Exasol's outer SELECT, including whether its names
resolve. A column node carries the table name and alias that the request sends and,
for the properties alone, the leg it means (`of`). An expression is an operator over
columns and the dialects that render it: `"both"`; `"typed"`, which DataFusion
renders but the type screen hands back; `"exasol"`; `"nowhere"`. `Blank` is a value
that is not NULL where it is read and NULL once emitted (`''`, NaN). A file counts
as one byte; an ordered window is a set whose order the answer records.
`RequestsAssumption` says what Exasol sends: a join tree has one condition less than
legs, no two legs have the same table and alias, and a column node names a column of
some leg's table and either the alias of the leg it means, any alias when that table
occurs once, or, meaning none, an alias that no leg of it has (`NodeOf`).
`ContentsAssumption` says that tables are finite.

**`RowDeletes`** says what a scan reads to apply row-position deletes (positional
delete files by row group, Delta sidecar and inline vectors, merged Puffin
requests) and how positions become an access plan. **`FieldBinding`** says which
column of a file each logical field reads: by field id, physical name, name
mapping, name or letter case, the members of a struct alike (one level of them; list
and map members are left out), with defaults and
partition values. **`ScanCall`** composes the two into one call: registration and
the shared-store check, the tasks of both sides (`waiting`, `reading`, `decoding`,
`done`) on one semaphore and one memory pool, the unions, the access plans, and the
batches. `StoreFails` is a failed store request; `Abort` is the drop of a join set
after a failure. A position set's size is one plus its cardinality. A side's root is the
directories of its `table_root`, `<<>>` at the root of a container and `NoRoot`, above no
path, when the text is empty. A side without a logical schema stands for one whose columns
do not matter: the schema that `raw_scan` infers from the first file is not modelled, and
the planner refuses the tables that would need it.

**`VirtualSchema`** lists identifiers page by page, loads those in scope in any
order, and answers; writers change the catalog at any time (`CatalogChanges`).
The globs of a filter are the set of names that they match (`Exposed`), and the entry
that counts the omitted skips has one length, whatever its digits (`OmittedLen`).
What Exasol persists is `exists`, `props`, `tables` and `notes`; `skips` and
`quiet` are history. The clients behind its listing are `CatalogListing`.

**`Selection`** is the loop that both keep names with: the elements of a sequence
that are in a set, in order, as a recursive function.

The `MC*` modules only give constants their values. `StatementStateProofs`
(with `CatalogHttp` and the bearer of `UnityAuth`), `CatalogListingProofs`,
`FilePlanProofs`, `PushdownPlanProofs`, `JoinsProofs` (with the split of `Sharding`), `ScanCallProofs` and
`VirtualSchemaProofs` hold the proofs, `Induction` the lemmas that they share. `TypeOK`
of `PushdownPlan`, `Joins`, `VirtualSchema` and `FilePlan` states the shape of their
variables and is no property of a run.

## Runs

| Run | Asks | Bounds and why they are enough |
|---|---|---|
| `statement` | type, one client, no ungranted read, one snapshot, every request ends, refinement of `StatementReads` | three statements of two pushdowns. A join and a single-table scan share a table of one gated schema: two builders, two checks, two loaders and a waiter can meet. A self-join opens the session from a load, beside a malformed identifier. A kind without a session, beside a gated schema of a kind that has no check. One commit per table |
| `catalog_http` | window, final results, termination | the code's real policy in ticks of 125 ms; durations at 0, half and the whole read timeout; Retry-After at the last value that fits and the first that does not |
| `catalog_listing` | steady tables once, both ways to list agree, only exposed tables count, the call returns | four namespaces on three levels, four tables of which one is hidden and broken, pages of one position, a window of two, two changes by other clients: a table or namespace can vanish and come back between two pages, two levels or a listing and its load |
| `file_plan` | the planned files answer the filter, each once; a required column has no NULL; a refusal does not depend on the filter; a fresh declaration is served | nineteen tables of five formats and two commits of the writers: a rename that frees a name and its reuse, a relaxed column, a re-added file with a vector, a removed file, odd directory entries, and tables of which every column, one column or a partition column is refused; every atom, pairs under AND and OR, and their negations, for which `MaxDepth` is 2 |
| `sharding` | each file once, none empty, local optimum | up to five files of sizes 0 to 3, clusters to 2 x 2, a group limit of 3, below the file count and the cluster's width, so that every clamp binds |
| `pushdown` | the answer is the query's, positional shape, fails exactly when it must | all tables of up to three rows of five contents over up to two shards and a pruned one: unequal and empty shards, ties, NULL keys and values; LIMIT 0 and 1, OFFSET 1; either column or both refused |
| `joins` | the answer is the join's and its names resolve, fails exactly when it must | two-table and self-joins, one of them half aliased, thresholds 0 and 1, five filters, ten windows and fourteen odd clauses, a leg without a readable column among them, over five contents: ties, NULL and blank values, a side that is or becomes empty; chains of three legs with conditions between each pair, on one leg or on none |
| `scan_call` | exactly the live rows, values from their columns, memory, credentials, nothing unapplied served, nothing but a store failure or a full pool fails a sound call, the call ends | calls of one and two sides with 0 to 2 connections (0 is clamped), a pool that fits and pools that do not, at most one store failure; every mechanism, sound and unsound; Puffin blobs one inside the other, as far apart as one request may bridge with the length it may have (`MaxGap`, `MaxRequest`), and further; a side without a root; six evolved schemas, one with a malformed default, over files of each age, and partitioned files |
| `virtual_schema` | hidden tables, skips, exact refresh, notes | three identifiers of which two collide, one filter, two catalog changes, notes that hold one or two entries |
| `pushdown_refusal` | the documented scope of a refused column; violated | COUNT(\*) requests |
| `join_blank_keys`, `join_empty_types` | what the documents say of two cases; violated | the smallest requests that reach them |

`pushdown_refusal` shows a disagreement between the specification and the code.
`specs/delta/delta-type-mapping/spec.md` says the refusal of a whole table is the
only case in which a refused column fails a request that does not name it.
`referenced_columns` scans the table's first column when a request names none,
and does not ask whether it is refused: `SELECT COUNT(*) ... HAVING COUNT(*) IN
(...)` goes to the wrapper and its scan fails on the unresolved column. The
request fails; no wrong data is returned. A leg of a join that no clause names has
the same fate: `referenced_leg_columns` scans its whole row.

`join_blank_keys`: a broadcast compares join keys in DataFusion, before they are
emitted, so `''` equals `''` and NaN equals NaN. Exasol sees NULL for both, and the
N-scan plan, which joins in Exasol, drops the pair; which plan runs depends on the
files' sizes. `specs/pushdown-joins/pushdown-planning-join/spec.md` promises rows equal
to native Exasol evaluation. `join_empty_types`: when a leg has no files the select
list is typed over all legs' columns concatenated, without leg aliases, so a name
that two legs share takes the first leg's type; the plans with files take its own leg's, as
`specs/file-planning/pushdown-planning-empty-result/spec.md` asks.

One observation has no run. `iceberg_predicate.rs:58` narrows a numeric literal to the
nearest `f32` for a float column (`Datum::float(f as f32)`) without the exactness check
that `delta_predicate.rs` makes. 0.1 becomes a slightly larger number, so `a > 0.1`
becomes a predicate that is false of a row holding that very number, which, widened,
passes; a file whose largest value it is may be left out. Line 1 of the file says that
every emitted predicate is implied by the user's. In `FilePruning` an odd literal on a
float column rounds to one of its even neighbours; with `a > 1` or `a < 3` among the
filters of `file_plan`, TLC finds `AnswerIsSnapshot` violated on the float table, as the
proof of it predicts (`NarrowsNothing`, below).

Deadlock is checked in every run but `scan_call`, whose calls end; `CallEnds` says
that they end where they should.

Fairness. `StatementState` assumes weak fairness of each request and of each
reference: a catalog call always returns, because its time-outs and retries are
bounded (which `catalog_http` shows), and the runtime polls every leg. Nothing is
assumed of writers, and no outcome is forced: a call may always fail.
`CatalogHttp` assumes that a request keeps moving: reqwest's read timeout ends
every wait and the runtime's timer ends every sleep. `CatalogListing` assumes that
the call makes its next step when it can; other clients and failing requests need
never act, and `CallReturns` holds because the catalog's order is finite and each
page gets further in it. `ScanCall` assumes that some enabled task runs: the
semaphore is fair to nobody in the model, and the call ends all the same.

## Proofs

The theorems hold for every value of the constants under the named assumptions of
the modules, which TLC also evaluates in the runs. Each inductive invariant was
checked with TLC before it was proved.

`StatementStateProofs` (`StatementAssumption`) proves, for every set of schemas,
requests, references and tables, that the type is kept and `GatedReadsAllowed`,
`OneClientPerSchema`, `OneSessionPerSchema`, `SharedSnapshot` and `LoadersLive`
always hold, for any set of statements and any number of requests in flight. The
properties are not inductive: that a reference reads an allowed table depends on
which client its request uses and on that client's admissions. The invariant `IInv`
adds that an opened request uses the client its schema kept (`UsesKept`), that
active legs belong to resolving requests (`ActiveLegs`), that a reading leg of a
gated schema is admitted and the admitted are allowed (`ReadsAdmitted`), that a
planned reference has its cell's version (`CellsAgree`), that a loader is alive
(`LoadersLive`), and that nobody opens a session into a filled cell and a schema
that authenticated keeps the client that holds the session (`SessionsAgree`).

`Refinement`, in the same module, proves that every behaviour is one of
`StatementReads`. A request's promise is pending until it answers or fails
(`AbsOutcome`), what is permitted and which version each table has are what the kept
client allowed and loaded (`AbsPermitted`, `AbsSnapshot`), so the step that keeps a
client must map to a stutter. It does because a client that nobody keeps has
neither answers nor loads (`FreshClients`); an answered request's reads are reads of
the promise because no reference has a view before it read (`UnreadViews`) and the
legs follow their request (`LegsFollow`).

The same module proves of `CatalogHttp` (`PolicyAssumption`) the type, `RetriesDueInWindow` and
`ReturnedIsFinal` for every policy, duration and lateness. What the invariant needs
beyond them is what the current answer may be in each phase (`OutcomeKnown`), and
that the powers of the backoff are numbers at all (`DoublingType`).

`VirtualSchemaProofs` (`CatalogAssumption`, `LengthAssumption`) proves `TypeOK`,
`HiddenStaysHidden`, `SkipsAccounted`, and the action properties `LongestPrefixKept`
and `RefreshIsExact`, for any order of requests and catalog changes. `ProgressInv`
says what a request knows so far: the listing holds exposed names of the pages read,
each once (`ListedOK`), only listed names in scope are loaded (`LoadedOK`), and while
the catalog stands still listing and loads tell it as it is (`QuietOK`). The byte
limit is about a running sum: dropping one more entry never lengthens the notes
while an entry is at least as long as the omitted count, which is why
`LengthAssumption` says so.

`CatalogListingProofs` (`ListingAssumption`, `TreeAssumption`) proves
`SteadyListedOnce`, `OnlyExposedCount` and `ListingsAgree` for every namespace tree, page
size, window and sequence of changes by other clients. `ListingOK` says that the
level holds distinct namespaces of one depth, among them each that a steady table
needs (`Needed`) at that depth, that the steady tables above it were found, and that a
listing covers the steady names in the positions it has passed (`JobOK`); `LoadingOK`, that
the picks hold each exposed steady table once and every answer fits its pick.
`ListingsAgree` adds the order (`OrderOK`): level, listings, found tables and picks follow the
walk by levels. `FlattenSeq` keeps the order of its parts (`FlatInOrder`), so a level in the
order of the walk has children and tables in it (`NextLevelOrder`, `WalkOfTables`); no
namespace lies as deep as there are namespaces, so the walk meets them all (`DepthBound`);
and two sequences of the same names in one order are equal (`OneOrder`).

`ScanCallProofs` (`ScanCallAssumption`) proves `TypeOK`, permits included,
`MemoryAccounted`, `OwnCredential`, `ExactlyLiveRows`, `UnappliedNeverServed`,
`ValuesAsWritten` and `ServableIsServed` for every number of sides, files, row groups, delete mechanisms, connections and pool
size. `GoodSides` says which tasks a side has in each
stage, that what they found are finite sets of row numbers of assigned files, that a
file has one union and one plan task, and that the side's reservation is the sum over
its tasks, gathered sets and plans. A step of a task moves that sum by the task's own
difference; where the unions start, a sum over tasks and their files is added up again
by file (`SumExchange`). `Permits` says that only `Acquire` makes a holder.
`Registered` says that nothing is read before every file list is checked and the
sides' paths are told apart. `OwnCredential` speaks of keys because a request carries
only the key: an absolute Delta sidecar in another container can have the key of a
listed file.

`ExactlyLiveRows` and `UnappliedNeverServed` rest on a second invariant, `LInv`. Each read of a side has a `Share` of
what the mechanisms delete: the rows of its row groups that name a file of the list,
or the positions of its vectors. `Progress` says that an unfinished read has found its
share of the row groups it has decoded, and met nothing malformed in them; `CollectOK`
says, stage by stage, that the sets gathered so far are the shares of the finished
reads, then that the unions are the whole, then that every file with deletes has the
access plan of its union. `Streamed` says that a side past its reads has applied every
mechanism, that no side streams before all do, and that the emitted rows are the live
rows of the row groups taken off `todo`. Two facts about the operators carry it.
`ExpectedIs`: the reads cover the mechanisms, every vector is a member of one request
(`merge_blob_ranges` loses none, `MergedRequests`), every row group that the statistics
do not exclude is in the tail of its open or a read of its own. `PlanSelects`: the
selectors that `build_access_plan` makes of a row group, run by run, select its rows
without the deleted ones; the runs are counted from the starts of the alternations
(`RunsCut`, `RunsAgree`) and their lengths sum to the first rows (`RunStarts`).

`SideConsistent`, in the assumption, is what these two take from the writers of a
table: a file list has a file once, the `file_path` statistics of a delete file's row
group bound its rows, and a delete file is listed with every file of the list it
names. The code trusts all three: it keys the plans by path, it skips a row group by
its statistics, and it applies a row of a delete file to whichever assigned file the row
names, be the delete file listed with it or not.

`RowsAsWritten` is about `FieldBinding`: every value of an emitted row is the one its
column was written with. The argument is about one file. What claims a column (an id, a
physical name, a name mapping, a name, a letter case) is followed arm by arm
(`ClaimHits`), and a field so claimed is stored as that column (`HitsAreStored`), so
that no two columns read one field and no column reads another's (`ClaimsTell`);
conversely a stored column is found (`HoldersClaim`), so that a default or null is read
only where the file has none. The members of a struct bind by the same rules under
their parent (`MembersBind`). `SchemaConsistent`, in the assumption, is what the formats
and the listing promise: a file stores a column once and under a key of that column, a
name mapping gives a name one id, a virtual table has no two columns of the same
letters, all its columns bind by keys or none does, and of a column without keys the
only field with its letters is it. A name in a file without field ids is thus one
column's for good: a dropped column's name that another column reuses is excluded
(`KeysTell`). The code binds such a field to the current column, as the comment on
`bind_columns` says, because a name mapping keys current names. Members are taken to be stored under their exact
key or spelling: for a member in another letter case the theorem says nothing.

`ServableServed` goes through every place where a step can fail the call and shows that
sound files leave only the reservation. A request finds its object: the router sends
the key of a listed path, or of one under the side's root, to a side with the same store
(`RouteIs`, `ReachableFound`), a Delta sidecar included, which no check of the scan sees.
A vector lies in the bytes its request read, because blobs join in the order of their
starts and a request ends at the furthest end of what it holds (`JoinSpans`); it holds
what was declared and no batch is malformed, because the side is not `Unappliable`. A file
opens, because no two fields and no two columns have the same letters, and every column
read has a value (`SoundReadable`). `Spawned` is the only addition to the invariants: a
task that waits has something to read, and a plan is for a data file of the side.
`PoolFull` says that a task's next reservation does not fit the pool at that moment; how
large a pool is always enough is not stated. The attempt showed that `Sound` must not let a
struct field stand under a column without members, which the code refuses to read; it
now asks for members there.

`PushdownPlanProofs` (`RequestsAssumption`, `TablesAssumption`) proves
`DeclinesExactlyUnanswerable`, `PositionalShape` and `AnswerIsTheQuery` for every
request, every finite table, every number of shards and every choice among ties. The
invariant `IInv` is small: the plan is the one the request calls for, pruned rows do not
match, and what a scan emitted and Exasol answered are among the things the plan allows.
The rest is about the operators, plan by plan (`PlanCases`).

- Row scans. `Windows` allows any order of equals, so a window is described by ranks: a
  row at place i has fewer than i rows before it and at least i not after it. With a
  pushed limit every shard keeps its own first rows; whatever precedes a kept row is
  kept (`TopInside`), so the ranks among the kept rows of all shards agree with the
  ranks among all rows as far as the limit reaches (`TopMerge`). It needs that the
  scan and Exasol sort alike, which a nested column does not; `detect_topn` excludes it
  (`PushedKeys`). Orders that are not pushed are applied to all matching rows
  (`DeclinedOrder`), and so are the clauses of a fallback (`WrapperAnswer`).
- Merges. The shards cut a group's rows into pieces (`Pieces`); `MergeAggregate` says
  that the merged partials are the aggregate over the whole. Counts and sums add up
  over pieces (`SumParts`); SUM, MIN and MAX skip the pieces without a value
  (`KnownTotals`, `LeastKnown`, `GreatestKnown`). For variances, `StatMerged` is Chan's
  identity: a piece's deviation around the grand mean is linear in its squares, its
  total and its size (`MergedPart`), and the shift by the least mean cancels. Unit must
  be a multiple of every row count, so that means are exact; rounding in the code's
  doubles is not modelled.
- Groups. A group is emitted by exactly the shards that hold rows of it, so HAVING over
  the merged count and sort keys over merged values are the query's
  (`MergedGroupsAre`). A single group has one row or none, whose order does not matter
  (`OneElement`).

`JoinsProofs` (`RequestsAssumption`, `ContentsAssumption`) proves
`DeclinesExactlyUnservable` and `AnswerIsJoin` for every tree of joins, every contents,
every outcome of pruning and every order of the scans. As for a single table, the
invariant `IInv` only says that pruning dropped no matching row, that the plan is the
one the request calls for and that the emitted rows and the answer are allowed ones.

- `Attribution`: a column node resolves to the leg it means, or the join is refused. It
  rests on the aliases: two legs of one table differ in them, and a node without one
  resolves only when a single leg has its table.
- N scans. Each conjunct is applied on its leg or in the wrapper (`ConjunctPlaced`), and
  each condition at the first leg where all its columns are in scope
  (`ConditionPlaced`); every column that the wrapper names is emitted by its leg
  (`NScanResolves`). So the wrapper joins the join (`NScanJoined`).
- Broadcast. The shards of the fact leg cut the join in pieces (`ShardJoinIs`), of which
  each sends its first rows. The sort keys make a weak order (`WeakOrder`), so the first
  rows of the pieces' first rows are first rows of all (`TopMerge`, `BroadcastRows`).
- Values. A scan compares what it reads; Exasol, what was emitted, in which a blank is
  NULL. A predicate over emitted values is the one that is meant (`EmittedTrue`); over
  read values it is when a blank decides no comparison of it (`ReadTrue`).

`AnswersTheJoin` therefore assumes `NoBlankCompared`: no equality that a scan may be
given has blanks on both sides, and no inequality on either. The contents of run `joins`
satisfy it (`StoredAssumption` of `MCJoins`), blanks in other places included; those of
`join_blank_keys` do not, and the run shows that the answer is then not the join.

The same module proves of `Sharding` (`ShardingAssumption`), for every file list, node
count and factor, that each file is in exactly one shard, none is empty, no single move
helps and the group count is in reach. `HeaviestFirst` (what is unplaced weighs at most
what was placed) carries the local optimum; `EmptyFirst` (while a shard is empty the
others hold one file at most) carries `NoneEmpty`.

`StatementStateProofs` also proves of `UnityAuth` that no bearer expires while its request may still be
sent, for any number of callers and any clock, under `Timely`: the refresh skew
covers the way of a token to its caller and the time over which a request is sent
again, and every token lives longer than the skew. The code's numbers satisfy the
first part: the skew is 60 s; the headers of a mint arrive within the 10 s read
timeout of their attempt and its small body soon after, and no request is sent
again later than the 30 s window. A token that lives 60 s or less is used once and
never from the cache, and may expire under its own request: that is outside the
theorem. The inductive invariant adds that the cached token outlives a request
first sent just before its refresh point (`CacheSound`) and relates what a caller
holds to when it was sent (`BearerSound`).

`FilePlanProofs` (`DepthAssumption`, `SourcesAssumption`, `FiltersAssumption`) proves the
five properties of run `file_plan`, for every set of well-formed tables, every change
the writers make, every filter and every bound on the commits: `EachFilePlannedOnce`,
`RefusalIgnoresFilter`, `FreshDeclarationServed`, `RequiredNeverNull` and
`AnswerIsSnapshot`, the last under `NarrowsNothing`.

- Filters. A recursive function on trees is determined by its equation, level by level
  (`LevelsAre`, `TreeRecursion`, `TreeUnique`). `TranslateSound`: wherever the filter is true of a row
  the statistics cover, the translated predicate may be true; and where an exact
  translation's filter is false it may be false, which is what lets a NOT negate it. A
  dropped conjunct loses the second half and `exact` with it. `KeepsSound` says the same
  of the partition predicate: the truth value of a row is among those reached.
- Listings. `ByPath` enumerates a set with distinct paths; of a Delta log, the first
  selected add of a path in the newest-first replay is its latest, unless the
  statistics skip it (`ReplayShows`); the files of a directory or of Glue's locations
  are listed once.
- Declarations. The properties speak of two moments, the declaration and the prune, so
  `IInv` ties them: the declared fields are bound to columns of the table as it is now
  (`BoundTo`), by id for Iceberg (`BoundIceberg`), by the recorded key or, without one, by the
  name in the files for Delta (`BoundDelta`), by name for directories (`BoundPlain`). Every
  commit keeps it (`EvolutionKeepsBound`) and every declaration makes it
  (`DeclaresBound`). A Glue table's files may be newer than the opened schema, so for it
  `IInv` says `Consistent` and not `WellFormed`.
- Plans. A plan that is not refused has one entry for each file chosen by the filter
  (`PrunePlans`); a declared field reads through an entry the value its column has
  (`ReadsTrue`); a file with a matching row is chosen (`MatchingChosen`).

`NarrowsNothing` excludes the narrowing described above and nothing else: a number compared
with a float column of an Iceberg table that `f32` does not hold. `TranslateSound` fails
without it, which is how the case was found to matter.

Induction over data. The library's induction theorems take an operator, which the
provers cannot instantiate; `Induction` states them with sets instead, from the least
element of a set of numbers (`NatSetInduction`, and the same for the subsets of a
finite set), and shows that a step function has iterates. A recursive function is a
CHOOSE of its equation, so that its iterates show what it computes: `Selected`, the
running length of the notes, the backoff's powers, `FlattenSeq`, and by levels the functions
on filters. `SumFunction` is a
fold over a set in whatever order; the lemmas `Sum*` show that it is the sum in any
order, and what taking, adding, splitting, restricting and exchanging do to it.

Only model-checked:

- liveness (`EveryRequestEnds`, `EveryRequestReturns`, `CallReturns`, `CallEnds`):
  no fairness and no ENABLED in the prover.

## Not modelled

Expression rendering, type mapping and numeric kernels (`exasol_numeric.rs`,
`convert.rs`), decoding of manifests, checkpoints, Parquet and vector blobs,
list and map members and structs in structs (`FieldBinding` has one level of members),
credential parsing, vended credentials, signing and sealing, telemetry and
logging, capabilities and property parsing, export, the end-to-end harness: pure
functions over wide data, text or I/O without interleaving, where a model would
restate the code. `ScanCall` does not check an absolute Delta sidecar under another
store root: the code sends its key to the side's own store. `FilePlan` leaves out
literals that are not small integers, columns that are dropped after they were declared, two
Glue partitions at one location, a directory's columns that widen between files or collide
in their letters, and `hive_partitioning=false` (these only refuse or fold more at CREATE),
`CatalogListing` malformed answers and the
metadata of Glue's Parquet tables. Joins leave out grouping and HAVING (an aggregate is COUNT(\*)), the sharding of
a side's files and the resolution of a side, which `Sharding` and `StatementState`
model. Several adapters serving different statements share nothing and are not
composed.

## Plan

1. Proofs: a pool size, computed from the file list, that no scan call can exceed.
2. Numeric semantics as pure operators: decimal precision and division.
3. Export, and the vended credentials that a scan call carries past their expiry.
