--------------------------- MODULE StatementState ---------------------------
(***************************************************************************)
(* What the pushdown requests of one SQL statement share while they are    *)
(* planned (crates/lakehouse-engine/src/adapter/statement_state.rs,        *)
(* permission.rs, pushdown/scan_resolution.rs, and the pushdown arm of     *)
(* adapter/mod.rs dispatch).                                               *)
(*                                                                         *)
(* One adapter VM serves a statement.  Per virtual schema it keeps one     *)
(* catalog client with one lazily opened session, the tables that a        *)
(* permission check of the statement admitted, and one shared load per     *)
(* table.  A request is one pushdown; its references are the legs of its   *)
(* join (or its only table), which resolve concurrently (try_join_all).    *)
(* A catalog client is named by the request that built it.                 *)
(***************************************************************************)
EXTENDS Naturals, FiniteSets

CONSTANTS
    Schemas,      \* virtual schemas the statement reads through
    RestSchemas,  \* those of the Iceberg REST kind, whose client has a session
    Gated,        \* those with PERMISSION_CHECK = 'LAKEKEEPER'
    Tables,       \* catalog table identifiers
    Malformed,    \* identifiers that the kind's identifier rule refuses
    Requests,     \* pushdown requests a statement may issue
    Statements,   \* the sets of requests that are issued together
    Refs,         \* table references of all requests
    SchemaOf,     \* the virtual schema a request names
    RequestOf,    \* the request a reference belongs to
    TableOf,      \* the table a reference names
    Nobody,       \* no request and no reference
    MaxInFlight,  \* requests the VM may serve at once
    MaxVersion    \* bound on the commits of other writers

ASSUME StatementAssumption ==
    /\ RestSchemas \subseteq Schemas
    /\ Gated \subseteq Schemas
    /\ Malformed \subseteq Tables
    /\ Statements \subseteq SUBSET Requests
    /\ SchemaOf \in [Requests -> Schemas]
    /\ RequestOf \in [Refs -> Requests]
    /\ TableOf \in [Refs -> Tables]
    /\ Nobody \notin Requests \cup Refs
    /\ Requests \cap Refs = {}
    /\ MaxInFlight \in Nat \ {0}
    /\ MaxVersion \in Nat \ {0}

VARIABLES
    stage,     \* where each request is; absent: not of this statement
    states,    \* STATEMENT_STATES: per schema, the client kept, or Nobody
    using,     \* the client a request works with
    ready,     \* clients whose session cell is filled
    resolver,  \* per client, who fills its session cell right now
    batch,     \* identifiers of the request's batch-check in flight
    admitted,  \* per client, the tables admitted for the statement
    cell,      \* per client and table, the loaded version (the OnceCell)
    loader,    \* per client and table, the reference that fills the cell
    leg,       \* where each reference is
    current,   \* the catalog's current version of each table (external)
    allowed,   \* history: tables some check answer allowed, per client
    auths,     \* history: sessions opened per schema
    view       \* history: the version each reference planned its files from

vars == <<stage, states, using, ready, resolver, batch, admitted, cell, loader,
          leg, current, allowed, auths, view>>

Unloaded == 0
Versions == 1 .. MaxVersion

RefsOf(r) == {f \in Refs : RequestOf[f] = r}
Identifiers(r) == {TableOf[f] : f \in RefsOf(r)}
ClientOf(f) == using[RequestOf[f]]
IsGated(r) == SchemaOf[r] \in Gated
InFlight ==
    {r \in Requests : stage[r] \notin {"absent", "idle", "answered", "failed"}}

Opened(r) == stage[r] \in {"opened", "checking", "resolving", "answered"}

TypeOK ==
    /\ stage \in [Requests -> {"absent", "idle", "building", "opened", "checking",
                               "resolving", "answered", "failed"}]
    /\ states \in [Schemas -> Requests \cup {Nobody}]
    /\ using \in [Requests -> Requests \cup {Nobody}]
    /\ ready \in [Requests -> BOOLEAN]
    /\ resolver \in [Requests -> Requests \cup Refs \cup {Nobody}]
    /\ batch \in [Requests -> SUBSET Tables]
    /\ admitted \in [Requests -> SUBSET Tables]
    /\ cell \in [Requests -> [Tables -> Versions \cup {Unloaded}]]
    /\ loader \in [Requests -> [Tables -> Refs \cup {Nobody}]]
    /\ leg \in [Refs -> {"idle", "start", "waiting", "loading", "planning",
                         "done", "dropped"}]
    /\ current \in [Tables -> Versions]
    /\ allowed \in [Requests -> SUBSET Tables]
    /\ auths \in [Schemas -> Nat]
    /\ view \in [Refs -> Versions \cup {Unloaded}]
    /\ \A r \in Requests : Opened(r) => using[r] \in Requests

Init ==
    /\ \E issued \in Statements :
         stage = [r \in Requests |-> IF r \in issued THEN "idle" ELSE "absent"]
    /\ states = [s \in Schemas |-> Nobody]
    /\ using = [r \in Requests |-> Nobody]
    /\ ready = [r \in Requests |-> FALSE]
    /\ resolver = [r \in Requests |-> Nobody]
    /\ batch = [r \in Requests |-> {}]
    /\ admitted = [r \in Requests |-> {}]
    /\ cell = [r \in Requests |-> [t \in Tables |-> Unloaded]]
    /\ loader = [r \in Requests |-> [t \in Tables |-> Nobody]]
    /\ leg = [f \in Refs |-> "idle"]
    /\ current = [t \in Tables |-> 1]
    /\ allowed = [r \in Requests |-> {}]
    /\ auths = [s \in Schemas |-> 0]
    /\ view = [f \in Refs |-> Unloaded]

-----------------------------------------------------------------------------
(* A request that ends with an error.  try_join_all drops the other legs,  *)
(* and a dropped initializer of a OnceCell gives the cell back unfilled.   *)

\* Mutant: a dropped leg leaves the cells it was filling taken.
FailKeepsCells(r) ==
    /\ stage' = [stage EXCEPT ![r] = "failed"]
    /\ leg' = [f \in Refs |-> IF f \in RefsOf(r) THEN "dropped" ELSE leg[f]]
    /\ UNCHANGED <<states, using, ready, resolver, batch, admitted, cell, loader,
                   current, allowed, auths, view>>

FailRequest(r) ==
    /\ stage' = [stage EXCEPT ![r] = "failed"]
    /\ leg' = [f \in Refs |-> IF f \in RefsOf(r) THEN "dropped" ELSE leg[f]]
    /\ loader' = [c \in Requests |->
                    [t \in Tables |-> IF loader[c][t] \in RefsOf(r)
                                        THEN Nobody ELSE loader[c][t]]]
    /\ resolver' = [c \in Requests |->
                      IF resolver[c] \in RefsOf(r) \cup {r}
                        THEN Nobody ELSE resolver[c]]
    /\ UNCHANGED <<states, using, ready, batch, admitted, cell, current,
                   allowed, auths, view>>

-----------------------------------------------------------------------------
(* dispatch and StatementStates::get_or_build                              *)

\* check_for: no current user, or USER_MAPPING maps it to no principal.
RefuseUser(r) ==
    /\ stage[r] = "idle"
    /\ Cardinality(InFlight) < MaxInFlight
    /\ IsGated(r)
    /\ FailRequest(r)

\* The lookup under the lock; a miss starts a build outside the lock.
Lookup(r) ==
    /\ stage[r] = "idle"
    /\ Cardinality(InFlight) < MaxInFlight
    /\ LET kept == states[SchemaOf[r]]
       IN  /\ stage' = [stage EXCEPT ![r] = IF kept = Nobody THEN "building"
                                                             ELSE "opened"]
           /\ using' = [using EXCEPT ![r] = kept]
    /\ UNCHANGED <<states, ready, resolver, batch, admitted, cell, loader, leg,
                   current, allowed, auths, view>>

\* Mutants: the built client replaces the kept one, or is never inserted.
LastInsertWins(kept, built) == built
NeverInserted(kept, built) == kept

\* The build succeeds; entry().or_insert keeps the first client inserted.
OrInsert(kept, built) == IF kept = Nobody THEN built ELSE kept

BuildSucceeds(r) ==
    /\ stage[r] = "building"
    /\ IsGated(r) => SchemaOf[r] \in RestSchemas     \* require_supported_kind
    /\ LET kept == OrInsert(states[SchemaOf[r]], r)
       IN  /\ states' = [states EXCEPT ![SchemaOf[r]] = kept]
           /\ using' = [using EXCEPT ![r] = kept]
    /\ stage' = [stage EXCEPT ![r] = "opened"]
    /\ UNCHANGED <<ready, resolver, batch, admitted, cell, loader, leg, current,
                   allowed, auths, view>>

\* The CONNECTION is missing, the kind is refused, or the role not assumed.
BuildFails(r) ==
    /\ stage[r] = "building"
    /\ FailRequest(r)

-----------------------------------------------------------------------------
(* TableScanResolver::for_request                                          *)

StartLegs(r) == [f \in Refs |-> IF f \in RefsOf(r) THEN "start" ELSE leg[f]]

Unchecked(r) == Identifiers(r) \ admitted[using[r]]

RefuseIdentifier(r) ==
    /\ stage[r] = "opened"
    /\ Identifiers(r) \cap Malformed # {}
    /\ FailRequest(r)

\* Nothing to check: the gate is off, or earlier requests checked it all.
SkipCheck(r) ==
    /\ stage[r] = "opened"
    /\ Identifiers(r) \cap Malformed = {}
    /\ IsGated(r) => Unchecked(r) = {}
    /\ stage' = [stage EXCEPT ![r] = "resolving"]
    /\ leg' = StartLegs(r)
    /\ UNCHANGED <<states, using, ready, resolver, batch, admitted, cell,
                   loader, current, allowed, auths, view>>

StartCheck(r) ==
    /\ stage[r] = "opened"
    /\ Identifiers(r) \cap Malformed = {}
    /\ IsGated(r)
    /\ Unchecked(r) # {}
    /\ stage' = [stage EXCEPT ![r] = "checking"]
    /\ batch' = [batch EXCEPT ![r] = Unchecked(r)]
    /\ UNCHANGED <<states, using, ready, resolver, admitted, cell, loader, leg,
                   current, allowed, auths, view>>

\* Mutant: one allowing decision admits the whole batch.
AnyAllows(tables, decisions) == tables \cap decisions # {}

\* PermissionGate::verdict: one table without an allowing decision refuses all.
Verdict(tables, decisions) == tables \subseteq decisions

\* The answer of lakekeeper_batch_check: one decision per identifier asked.
CheckAnswer(r) ==
    /\ stage[r] = "checking"
    /\ ready[using[r]]
    /\ \E decisions \in SUBSET batch[r] :
         /\ Verdict(batch[r], decisions)
         /\ allowed' = [allowed EXCEPT ![using[r]] = @ \cup decisions]
         /\ admitted' = [admitted EXCEPT ![using[r]] = @ \cup batch[r]]
    /\ stage' = [stage EXCEPT ![r] = "resolving"]
    /\ leg' = StartLegs(r)
    /\ UNCHANGED <<states, using, ready, resolver, batch, cell, loader, current,
                   auths, view>>

\* A table is denied, or the batch-check answers with an error.
CheckRefuses(r) ==
    /\ stage[r] = "checking"
    /\ ready[using[r]]
    /\ FailRequest(r)

-----------------------------------------------------------------------------
(* IcebergRestCatalogClient::session, a OnceCell: `a` is the request whose *)
(* batch-check, or the reference whose load, awaits it.                    *)

BeginSession(a, c) ==
    /\ ~ready[c]
    /\ resolver[c] = Nobody
    /\ resolver' = [resolver EXCEPT ![c] = a]
    /\ UNCHANGED <<stage, states, using, ready, batch, admitted, cell, loader,
                   leg, current, allowed, auths, view>>

SessionOpens(a, c) ==
    /\ resolver[c] = a
    /\ resolver' = [resolver EXCEPT ![c] = Nobody]
    /\ ready' = [ready EXCEPT ![c] = TRUE]
    /\ auths' = [auths EXCEPT ![SchemaOf[c]] = @ + 1]
    /\ UNCHANGED <<stage, states, using, batch, admitted, cell, loader, leg,
                   current, allowed, view>>

\* The OAuth2 grant or /v1/config fails for the one that resolves it.
SessionFails(a, c, r) ==
    /\ resolver[c] = a
    /\ FailRequest(r)

CheckSession(r) ==
    /\ stage[r] = "checking"
    /\ \/ BeginSession(r, using[r])
       \/ SessionOpens(r, using[r])
       \/ SessionFails(r, using[r], r)

LoadSession(f) ==
    /\ leg[f] = "loading"
    /\ SchemaOf[RequestOf[f]] \in RestSchemas
    /\ \/ BeginSession(f, ClientOf(f))
       \/ SessionOpens(f, ClientOf(f))
       \/ SessionFails(f, ClientOf(f), RequestOf[f])

-----------------------------------------------------------------------------
(* TableScanResolver::resolve and StatementCatalog::loaded_table           *)

RequireAdmitted(f) ==
    IsGated(RequestOf[f]) => TableOf[f] \in admitted[ClientOf(f)]

\* require_admitted, then the declared schema, then the table's cell.
EnterLeg(f) ==
    /\ leg[f] = "start"
    /\ RequireAdmitted(f)
    /\ leg' = [leg EXCEPT ![f] = "waiting"]
    /\ UNCHANGED <<stage, states, using, ready, resolver, batch, admitted, cell,
                   loader, current, allowed, auths, view>>

\* A table no check covered, or column notes that do not parse.
LegRefused(f) ==
    /\ leg[f] = "start"
    /\ FailRequest(RequestOf[f])

\* get_or_try_init on an empty cell: one initializer at a time.
BeginLoad(f) ==
    LET c == ClientOf(f)
        t == TableOf[f]
    IN  /\ leg[f] = "waiting"
        /\ cell[c][t] = Unloaded
        /\ loader[c][t] = Nobody
        /\ loader' = [loader EXCEPT ![c][t] = f]
        /\ leg' = [leg EXCEPT ![f] = "loading"]
        /\ UNCHANGED <<stage, states, using, ready, resolver, batch, admitted,
                       cell, current, allowed, auths, view>>

\* Mutant: the loaded table is used but not kept for later references.
LoadUnshared(f) ==
    LET c == ClientOf(f)
        t == TableOf[f]
    IN  /\ leg[f] = "loading"
        /\ SchemaOf[RequestOf[f]] \in RestSchemas => ready[c]
        /\ loader' = [loader EXCEPT ![c][t] = Nobody]
        /\ leg' = [leg EXCEPT ![f] = "planning"]
        /\ view' = [view EXCEPT ![f] = current[t]]
        /\ UNCHANGED <<stage, states, using, ready, resolver, batch, admitted,
                       cell, current, allowed, auths>>

\* load_for_scan answers with the version current at that moment.
LoadAnswer(f) ==
    LET c == ClientOf(f)
        t == TableOf[f]
    IN  /\ leg[f] = "loading"
        /\ SchemaOf[RequestOf[f]] \in RestSchemas => ready[c]
        /\ cell' = [cell EXCEPT ![c][t] = current[t]]
        /\ loader' = [loader EXCEPT ![c][t] = Nobody]
        /\ leg' = [leg EXCEPT ![f] = "planning"]
        /\ view' = [view EXCEPT ![f] = current[t]]
        /\ UNCHANGED <<stage, states, using, ready, resolver, batch, admitted,
                       current, allowed, auths>>

LoadFails(f) ==
    /\ leg[f] = "loading"
    /\ SchemaOf[RequestOf[f]] \in RestSchemas => ready[ClientOf(f)]
    /\ FailRequest(RequestOf[f])

\* get_or_try_init on a filled cell.
ShareLoad(f) ==
    LET loadedVersion == cell[ClientOf(f)][TableOf[f]]
    IN  /\ leg[f] = "waiting"
        /\ loadedVersion # Unloaded
        /\ leg' = [leg EXCEPT ![f] = "planning"]
        /\ view' = [view EXCEPT ![f] = loadedVersion]
        /\ UNCHANGED <<stage, states, using, ready, resolver, batch, admitted,
                       cell, loader, current, allowed, auths>>

\* ResolvedScan::resolve prunes the loaded table with the reference's filter.
PlanLeg(f) ==
    /\ leg[f] = "planning"
    /\ leg' = [leg EXCEPT ![f] = "done"]
    /\ UNCHANGED <<stage, states, using, ready, resolver, batch, admitted, cell,
                   loader, current, allowed, auths, view>>

PlanFails(f) ==
    /\ leg[f] = "planning"
    /\ FailRequest(RequestOf[f])

-----------------------------------------------------------------------------
\* Every leg resolved: the pushdown SQL is built, or the shape is refused.
Answer(r) ==
    /\ stage[r] = "resolving"
    /\ \A f \in RefsOf(r) : leg[f] = "done"
    /\ stage' = [stage EXCEPT ![r] = "answered"]
    /\ UNCHANGED <<states, using, ready, resolver, batch, admitted, cell,
                   loader, leg, current, allowed, auths, view>>

BuildSqlFails(r) ==
    /\ stage[r] = "resolving"
    /\ \A f \in RefsOf(r) : leg[f] = "done"
    /\ FailRequest(r)

\* Another writer commits to a table while the statement is planned; a
\* malformed identifier names none.
Commit(t) ==
    /\ t \notin Malformed
    /\ current[t] < MaxVersion
    /\ current' = [current EXCEPT ![t] = @ + 1]
    /\ UNCHANGED <<stage, states, using, ready, resolver, batch, admitted, cell,
                   loader, leg, allowed, auths, view>>

\* The statement is planned and the VM ends.
StatementEnds ==
    /\ \A r \in Requests : stage[r] \in {"absent", "answered", "failed"}
    /\ UNCHANGED vars

RequestStep(r) ==
    \/ RefuseUser(r) \/ Lookup(r) \/ BuildSucceeds(r) \/ BuildFails(r)
    \/ RefuseIdentifier(r) \/ SkipCheck(r) \/ StartCheck(r)
    \/ CheckAnswer(r) \/ CheckRefuses(r) \/ CheckSession(r)
    \/ Answer(r) \/ BuildSqlFails(r)

LegStep(f) ==
    \/ EnterLeg(f) \/ LegRefused(f) \/ BeginLoad(f) \/ LoadSession(f)
    \/ LoadAnswer(f) \/ LoadFails(f) \/ ShareLoad(f)
    \/ PlanLeg(f) \/ PlanFails(f)

Next ==
    \/ \E r \in Requests : RequestStep(r)
    \/ \E f \in Refs : LegStep(f)
    \/ \E t \in Tables : Commit(t)
    \/ StatementEnds

Spec == Init /\ [][Next]_vars

\* Every catalog call returns (its timeouts and retries are bounded, module
\* CatalogHttp), and the runtime polls every leg, so each actor keeps moving.
Fairness ==
    /\ \A r \in Requests : WF_vars(RequestStep(r))
    /\ \A f \in Refs : WF_vars(LegStep(f))

FairSpec == Spec /\ Fairness

-----------------------------------------------------------------------------
Reads(f) == leg[f] \in {"waiting", "loading", "planning", "done"}
Planned(f) == leg[f] \in {"planning", "done"}

\* Two requests on one virtual schema that got past get_or_build work with one
\* client, also when both missed the lookup and both built one.
OneClientPerSchema ==
    \A r, q \in Requests :
        Opened(r) /\ Opened(q) /\ SchemaOf[r] = SchemaOf[q] => using[r] = using[q]

\* A statement authenticates at most once per virtual schema, however its
\* requests and legs interleave and whichever of them fail.
OneSessionPerSchema == \A s \in Schemas : auths[s] <= 1

\* Under the permission check no reference reaches its table's load, nor
\* shares another's, before an answer of this statement allowed that table.
GatedReadsAllowed ==
    \A f \in Refs :
        Reads(f) /\ IsGated(RequestOf[f]) => TableOf[f] \in allowed[ClientOf(f)]

\* Every reference to a table through one virtual schema plans its files from
\* one version, whatever other writers commit meanwhile.
SharedSnapshot ==
    \A f, g \in Refs :
        /\ Planned(f) /\ Planned(g)
        /\ TableOf[f] = TableOf[g]
        /\ SchemaOf[RequestOf[f]] = SchemaOf[RequestOf[g]]
        => view[f] = view[g]

\* At most one reference loads a table of a client, and a failed or dropped
\* one never leaves the cell taken.
LoadersLive ==
    \A c \in Requests, t \in Tables :
        loader[c][t] # Nobody =>
            /\ leg[loader[c][t]] = "loading"
            /\ ClientOf(loader[c][t]) = c
            /\ TableOf[loader[c][t]] = t

\* Every pushdown of the statement ends, answered or with an error.
EveryRequestEnds ==
    \A r \in Requests : <>(stage[r] \in {"absent", "answered", "failed"})

-----------------------------------------------------------------------------
(* The refinement: the kept client's admissions and cells are what the     *)
(* statement sees; every other step of the machinery is a stutter.         *)

AbsOutcome ==
    [r \in Requests |-> IF stage[r] \in {"answered", "failed"} THEN stage[r]
                                                               ELSE "pending"]
AbsPermitted ==
    [s \in Schemas |-> IF states[s] = Nobody THEN {} ELSE allowed[states[s]]]
AbsSnapshot ==
    [s \in Schemas |-> IF states[s] = Nobody THEN [t \in Tables |-> Unloaded]
                                             ELSE cell[states[s]]]

Promise == INSTANCE StatementReads WITH
    outcome <- AbsOutcome, permitted <- AbsPermitted, snapshot <- AbsSnapshot

\* The machinery implements the promise of StatementReads.
ImplementsPromise == Promise!AbsSpec
=============================================================================
