--------------------------- MODULE StatementReads ---------------------------
(***************************************************************************)
(* What the statement state of the adapter promises, without clients,      *)
(* sessions, cells or batches: per virtual schema a statement sees one     *)
(* version of each table, fixed by the first reference that reads it; a    *)
(* gated schema's tables are read only after they were allowed; a request  *)
(* is answered only when every reference of it has read its table.         *)
(* (specs/file-planning/pushdown-statement-state/spec.md)                  *)
(***************************************************************************)
EXTENDS Naturals

CONSTANTS Schemas, Gated, Tables, Requests, Refs, SchemaOf, RequestOf, TableOf,
          MaxVersion

VARIABLES
    outcome,    \* "pending", "answered" or "failed" per request
    permitted,  \* per schema, the tables allowed to this statement
    snapshot,   \* per schema and table, the version the statement sees, or 0
    view,       \* per reference, the version it read, or 0
    current     \* the catalog's version of each table

absVars == <<outcome, permitted, snapshot, view, current>>

AbsInit ==
    /\ outcome = [r \in Requests |-> "pending"]
    /\ permitted = [s \in Schemas |-> {}]
    /\ snapshot = [s \in Schemas |-> [t \in Tables |-> 0]]
    /\ view = [f \in Refs |-> 0]
    /\ current = [t \in Tables |-> 1]

Permit(s, ts) ==
    /\ permitted' = [permitted EXCEPT ![s] = @ \cup ts]
    /\ UNCHANGED <<outcome, snapshot, view, current>>

Read(f) ==
    LET r == RequestOf[f]
        s == SchemaOf[r]
        t == TableOf[f]
        seen == IF snapshot[s][t] = 0 THEN current[t] ELSE snapshot[s][t]
    IN  /\ outcome[r] = "pending"
        /\ view[f] = 0
        /\ s \in Gated => t \in permitted[s]
        /\ snapshot' = [snapshot EXCEPT ![s][t] = seen]
        /\ view' = [view EXCEPT ![f] = seen]
        /\ UNCHANGED <<outcome, permitted, current>>

Succeed(r) ==
    /\ outcome[r] = "pending"
    /\ \A f \in Refs : RequestOf[f] = r => view[f] # 0
    /\ outcome' = [outcome EXCEPT ![r] = "answered"]
    /\ UNCHANGED <<permitted, snapshot, view, current>>

Refuse(r) ==
    /\ outcome[r] = "pending"
    /\ outcome' = [outcome EXCEPT ![r] = "failed"]
    /\ UNCHANGED <<permitted, snapshot, view, current>>

Advance(t) ==
    /\ current[t] < MaxVersion
    /\ current' = [current EXCEPT ![t] = @ + 1]
    /\ UNCHANGED <<outcome, permitted, snapshot, view>>

AbsNext ==
    \/ \E s \in Schemas, ts \in SUBSET Tables : Permit(s, ts)
    \/ \E f \in Refs : Read(f)
    \/ \E r \in Requests : Succeed(r) \/ Refuse(r)
    \/ \E t \in Tables : Advance(t)

AbsSpec == AbsInit /\ [][AbsNext]_absVars
=============================================================================
