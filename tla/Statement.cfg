SPECIFICATION FairSpec
CONSTANTS
  s1 = s1
  s2 = s2
  s3 = s3
  s4 = s4
  t1 = t1
  t2 = t2
  t3 = t3
  r1 = r1
  r2 = r2
  r3 = r3
  r4 = r4
  r5 = r5
  r6 = r6
  f1 = f1
  f2 = f2
  f3 = f3
  f4 = f4
  f5 = f5
  f6 = f6
  f7 = f7
  f8 = f8
  Nobody = Nobody
  Schemas = {s1, s2, s3, s4}
  RestSchemas = {s1, s2}
  Gated = {s1, s4}
  Tables = {t1, t2, t3}
  Malformed = {t3}
  Requests = {r1, r2, r3, r4, r5, r6}
  Statements <- MCStatements
  Refs = {f1, f2, f3, f4, f5, f6, f7, f8}
  SchemaOf <- MCSchemaOf
  RequestOf <- MCRequestOf
  TableOf <- MCTableOf
  MaxInFlight = 2
  MaxVersion = 2
INVARIANTS
  TypeOK
  OneClientPerSchema
  GatedReadsAllowed
  SharedSnapshot
PROPERTIES
  EveryRequestEnds
  ImplementsPromise
