-------------------------- MODULE MCStatementState --------------------------
(* Three small statements for StatementState, one of them per behaviour.   *)
EXTENDS StatementState, TLC

CONSTANTS s1, s2, s3, s4, t1, t2, t3, r1, r2, r3, r4, r5, r6,
          f1, f2, f3, f4, f5, f6, f7, f8

\* s1, a gated Iceberg REST schema: r1 joins t1 with t2, r2 reads t1 again.
\* s2, the same without a gate: r3 joins t1 with itself, r4 names a malformed
\* identifier.  s3, whose kind has no session: r5 reads t1.  s4, gated though
\* its kind has no permission check: r6 is refused.
MCStatements == {{r1, r2}, {r3, r4}, {r5, r6}}
MCSchemaOf == (r1 :> s1) @@ (r2 :> s1) @@ (r3 :> s2) @@ (r4 :> s2)
              @@ (r5 :> s3) @@ (r6 :> s4)
MCRequestOf == (f1 :> r1) @@ (f2 :> r1) @@ (f3 :> r2) @@ (f4 :> r3)
               @@ (f5 :> r3) @@ (f6 :> r4) @@ (f7 :> r5) @@ (f8 :> r6)
MCTableOf == (f1 :> t1) @@ (f2 :> t2) @@ (f3 :> t1) @@ (f4 :> t1)
             @@ (f5 :> t1) @@ (f6 :> t3) @@ (f7 :> t1) @@ (f8 :> t1)
=============================================================================
