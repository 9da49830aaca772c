------------------------ MODULE StatementStateProofs ------------------------
(* What the pushdowns of a statement share, and the requests they send.     *)
(*                                                                          *)
(* Safety of the statement state for every set of schemas, tables, requests *)
(* and references: the invariant is strengthened by what ties a reference   *)
(* to the one client its schema keeps.  The retry discipline of one catalog *)
(* request (CatalogHttp) follows, and why no bearer that the requests of a  *)
(* Unity session share expires while it may be sent (UnityAuth).            *)
EXTENDS StatementState, CatalogHttp, Induction

\* A request past get_or_build works with the client its schema keeps, and
\* that client was built for the schema.
UsesKept ==
    /\ \A r \in Requests : Opened(r) => using[r] = states[SchemaOf[r]]
    /\ \A s \in Schemas : states[s] # Nobody => SchemaOf[states[s]] = s

\* A reference moves only while its request resolves, and stays where it is
\* once the request is answered.
ActiveLegs ==
    \A f \in Refs : leg[f] \in {"start", "waiting", "loading", "planning", "done"}
                      => stage[RequestOf[f]] \in {"resolving", "answered"}

\* What was admitted was allowed, and what is read was admitted.
ReadsAdmitted ==
    /\ \A c \in Requests : admitted[c] \subseteq allowed[c]
    /\ \A f \in Refs : Reads(f) /\ IsGated(RequestOf[f])
                         => TableOf[f] \in admitted[ClientOf(f)]

\* A cell is empty while somebody fills it, and a planned reference saw what
\* the cell of its client still holds.
CellsAgree ==
    /\ \A f \in Refs : leg[f] = "loading" =>
         /\ loader[ClientOf(f)][TableOf[f]] = f
         /\ cell[ClientOf(f)][TableOf[f]] = Unloaded
    /\ \A f \in Refs : Planned(f) =>
         /\ view[f] = cell[ClientOf(f)][TableOf[f]]
         /\ view[f] # Unloaded

\* Only the kept client authenticates, and only into an empty session cell.
SessionsAgree ==
    /\ \A c \in Requests : resolver[c] # Nobody => ~ready[c]
    /\ \A s \in Schemas :
         auths[s] = 0 \/ (auths[s] = 1 /\ states[s] # Nobody /\ ready[states[s]])

IInv == /\ TypeOK
        /\ UsesKept
        /\ ActiveLegs
        /\ ReadsAdmitted
        /\ CellsAgree
        /\ LoadersLive
        /\ SessionsAgree


\* A failing request gives back every cell it was filling.
LEMMA FailKeeps ==
  ASSUME IInv, NEW r \in Requests, FailRequest(r)
  PROVE  IInv'
<1> USE StatementAssumption
<1>1. TypeOK'
  BY DEF IInv, TypeOK, Opened, FailRequest
<1>2. UsesKept'
  BY DEF IInv, TypeOK, UsesKept, Opened, FailRequest
<1>3. ActiveLegs'
  BY DEF IInv, TypeOK, ActiveLegs, RefsOf, FailRequest
<1>4. ReadsAdmitted'
  BY DEF IInv, TypeOK, ActiveLegs, ReadsAdmitted, Opened, Reads, ClientOf,
         IsGated, RefsOf, FailRequest
<1>5. CellsAgree'
  BY DEF IInv, TypeOK, ActiveLegs, CellsAgree, Planned, ClientOf, RefsOf, Opened,
         FailRequest
<1>6. LoadersLive'
  BY DEF IInv, TypeOK, LoadersLive, ClientOf, RefsOf, FailRequest
<1>7. SessionsAgree'
  BY DEF IInv, TypeOK, UsesKept, SessionsAgree, FailRequest
<1> QED
  BY <1>1, <1>2, <1>3, <1>4, <1>5, <1>6, <1>7 DEF IInv

\* A hit shares the kept client.
LEMMA LookupKeeps ==
  ASSUME IInv, NEW r \in Requests, Lookup(r)
  PROVE  IInv'
<1> USE StatementAssumption
<1>1. TypeOK'
  <2> DEFINE kept == states[SchemaOf[r]]
  <2>1. kept \in Requests \cup {Nobody}
    BY DEF IInv, TypeOK
  <2>2. stage' \in [Requests -> {"absent", "idle", "building", "opened", "checking",
                                 "resolving", "answered", "failed"}]
    BY <2>1 DEF IInv, TypeOK, Lookup
  <2>3. using' \in [Requests -> Requests \cup {Nobody}]
    BY <2>1 DEF IInv, TypeOK, Lookup
  <2>4. ASSUME NEW q \in Requests, Opened(q)'  PROVE using'[q] \in Requests
    <3>1. CASE q = r
      BY <2>1, <2>4, <3>1 DEF IInv, TypeOK, Lookup, Opened
    <3>2. CASE q # r
      BY <2>4, <3>2 DEF IInv, TypeOK, Lookup, Opened
    <3> QED
      BY <3>1, <3>2
  <2> QED
    BY <2>2, <2>3, <2>4 DEF IInv, TypeOK, Lookup
<1>2. UsesKept'
  BY DEF IInv, TypeOK, UsesKept, Opened, Lookup
<1>3. ActiveLegs'
  BY DEF IInv, TypeOK, ActiveLegs, Lookup
<1>4. ReadsAdmitted'
  BY DEF IInv, TypeOK, ActiveLegs, ReadsAdmitted, Opened, Reads, ClientOf,
         IsGated, Lookup
<1>5. CellsAgree'
  BY DEF IInv, TypeOK, ActiveLegs, CellsAgree, Planned, ClientOf, Lookup
<1>6. LoadersLive'
  <2>1. \A f \in Refs : leg[f] = "loading" => ClientOf(f)' = ClientOf(f)
    BY DEF IInv, TypeOK, ActiveLegs, ClientOf, Lookup
  <2> QED
    BY <2>1 DEF IInv, TypeOK, LoadersLive, Lookup
<1>7. SessionsAgree'
  BY DEF IInv, TypeOK, UsesKept, SessionsAgree, Lookup
<1> QED
  BY <1>1, <1>2, <1>3, <1>4, <1>5, <1>6, <1>7 DEF IInv

\* A finished build is kept only if nothing was.
LEMMA BuildKeeps ==
  ASSUME IInv, NEW r \in Requests, BuildSucceeds(r)
  PROVE  IInv'
<1> USE StatementAssumption
<1> DEFINE kept == OrInsert(states[SchemaOf[r]], r)
<1>a. \A f \in Refs : leg[f] \in {"start", "waiting", "loading", "planning", "done"}
                         => RequestOf[f] # r
  BY DEF IInv, ActiveLegs, BuildSucceeds
<1>1. TypeOK'
  <2>1. kept \in Requests
    BY DEF IInv, TypeOK, OrInsert
  <2>2. /\ states' \in [Schemas -> Requests \cup {Nobody}]
        /\ using' \in [Requests -> Requests \cup {Nobody}]
        /\ stage' \in [Requests -> {"absent", "idle", "building", "opened", "checking",
                                    "resolving", "answered", "failed"}]
    BY <2>1 DEF IInv, TypeOK, BuildSucceeds
  <2>3. ASSUME NEW q \in Requests, Opened(q)'  PROVE using'[q] \in Requests
    BY <2>1, <2>3 DEF IInv, TypeOK, BuildSucceeds, Opened
  <2> QED
    BY <2>2, <2>3 DEF IInv, TypeOK, BuildSucceeds
<1>2. UsesKept'
  <2>1. \A q \in Requests : Opened(q) /\ SchemaOf[q] = SchemaOf[r]
                              => states[SchemaOf[r]] # Nobody
    BY DEF IInv, TypeOK, UsesKept
  <2>2. kept \in Requests /\ SchemaOf[kept] = SchemaOf[r]
    BY DEF IInv, TypeOK, UsesKept, OrInsert
  <2>3. /\ states' = [states EXCEPT ![SchemaOf[r]] = kept]
        /\ using' = [using EXCEPT ![r] = kept]
        /\ stage' = [stage EXCEPT ![r] = "opened"]
    BY DEF BuildSucceeds
  <2>4. ASSUME NEW q \in Requests, Opened(q)'
        PROVE  using'[q] = states'[SchemaOf[q]]
    <3>1. CASE q = r
      BY <2>3, <3>1 DEF IInv, TypeOK
    <3>2. CASE q # r /\ SchemaOf[q] = SchemaOf[r]
      BY <2>1, <2>3, <2>4, <3>2 DEF IInv, TypeOK, UsesKept, Opened, OrInsert
    <3>3. CASE q # r /\ SchemaOf[q] # SchemaOf[r]
      BY <2>3, <2>4, <3>3 DEF IInv, TypeOK, UsesKept, Opened
    <3> QED
      BY <3>1, <3>2, <3>3
  <2>5. ASSUME NEW s \in Schemas, states'[s] # Nobody
        PROVE  SchemaOf[states'[s]] = s
    BY <2>2, <2>3, <2>5 DEF IInv, TypeOK, UsesKept
  <2> QED
    BY <2>4, <2>5 DEF UsesKept
<1>3. ActiveLegs'
  BY DEF IInv, TypeOK, ActiveLegs, BuildSucceeds, OrInsert
<1>4. ReadsAdmitted'
  BY DEF IInv, TypeOK, ActiveLegs, ReadsAdmitted, Opened, Reads, ClientOf,
         IsGated, BuildSucceeds, OrInsert
<1>5. CellsAgree'
  <2>1. \A f \in Refs : leg[f] \in {"loading", "planning", "done"}
                           => ClientOf(f)' = ClientOf(f)
    BY <1>a DEF IInv, TypeOK, BuildSucceeds, ClientOf
  <2> QED
    BY <2>1 DEF IInv, CellsAgree, BuildSucceeds, Planned, Unloaded
<1>6. LoadersLive'
  <2>1. \A f \in Refs : leg[f] = "loading" => ClientOf(f)' = ClientOf(f)
    BY <1>a DEF IInv, TypeOK, BuildSucceeds, ClientOf
  <2> QED
    BY <2>1 DEF IInv, TypeOK, LoadersLive, BuildSucceeds
<1>7. SessionsAgree'
  BY DEF IInv, TypeOK, UsesKept, SessionsAgree, BuildSucceeds, OrInsert
<1> QED
  BY <1>1, <1>2, <1>3, <1>4, <1>5, <1>6, <1>7 DEF IInv

\* With nothing left to check the legs start.
LEMMA SkipCheckKeeps ==
  ASSUME IInv, NEW r \in Requests, SkipCheck(r)
  PROVE  IInv'
<1> USE StatementAssumption
<1>1. TypeOK'
  BY DEF IInv, TypeOK, Opened, SkipCheck, StartLegs
<1>2. UsesKept'
  BY DEF IInv, TypeOK, UsesKept, Opened, SkipCheck, StartLegs
<1>3. ActiveLegs'
  BY DEF IInv, TypeOK, ActiveLegs, RefsOf, SkipCheck, StartLegs
<1>4. ReadsAdmitted'
  BY DEF IInv, TypeOK, ActiveLegs, ReadsAdmitted, Opened, Reads, ClientOf,
         IsGated, RefsOf, SkipCheck, StartLegs
<1>5. CellsAgree'
  BY DEF IInv, TypeOK, ActiveLegs, CellsAgree, Planned, ClientOf, RefsOf,
         SkipCheck, StartLegs
<1>6. LoadersLive'
  <2>1. \A f \in Refs : leg[f] = "loading" => RequestOf[f] # r
    BY DEF IInv, ActiveLegs, SkipCheck
  <2>2. \A f \in Refs : leg[f] = "loading" => leg'[f] = "loading"
    BY <2>1 DEF IInv, TypeOK, SkipCheck, StartLegs, RefsOf
  <2> QED
    BY <2>2 DEF IInv, TypeOK, LoadersLive, ClientOf, SkipCheck
<1>7. SessionsAgree'
  BY DEF IInv, TypeOK, UsesKept, SessionsAgree, SkipCheck, StartLegs
<1> QED
  BY <1>1, <1>2, <1>3, <1>4, <1>5, <1>6, <1>7 DEF IInv

\* A batch-check only remembers what it asked for.
LEMMA StartCheckKeeps ==
  ASSUME IInv, NEW r \in Requests, StartCheck(r)
  PROVE  IInv'
<1> USE StatementAssumption
<1>1. TypeOK'
  BY DEF IInv, TypeOK, Opened, StartCheck, Unchecked, Identifiers, RefsOf
<1>2. UsesKept'
  BY DEF IInv, TypeOK, UsesKept, Opened, StartCheck
<1>3. ActiveLegs'
  BY DEF IInv, TypeOK, ActiveLegs, StartCheck
<1>4. ReadsAdmitted'
  BY DEF IInv, TypeOK, ActiveLegs, ReadsAdmitted, Opened, Reads, ClientOf,
         IsGated, StartCheck
<1>5. CellsAgree'
  BY DEF IInv, TypeOK, ActiveLegs, CellsAgree, Planned, ClientOf, StartCheck
<1>6. LoadersLive'
  BY DEF IInv, TypeOK, LoadersLive, ClientOf, StartCheck
<1>7. SessionsAgree'
  BY DEF IInv, TypeOK, UsesKept, SessionsAgree, StartCheck
<1> QED
  BY <1>1, <1>2, <1>3, <1>4, <1>5, <1>6, <1>7 DEF IInv

\* What the answer admits it allowed.
LEMMA CheckAnswerKeeps ==
  ASSUME IInv, NEW r \in Requests, CheckAnswer(r)
  PROVE  IInv'
<1> USE StatementAssumption
<1>1. TypeOK'
  BY DEF IInv, TypeOK, Opened, CheckAnswer, StartLegs, Verdict
<1>2. UsesKept'
  BY DEF IInv, TypeOK, UsesKept, Opened, CheckAnswer, StartLegs
<1>3. ActiveLegs'
  BY DEF IInv, TypeOK, ActiveLegs, RefsOf, CheckAnswer, StartLegs
<1>4. ReadsAdmitted'
  BY DEF IInv, TypeOK, ActiveLegs, ReadsAdmitted, Opened, Reads, ClientOf,
         IsGated, RefsOf, CheckAnswer, StartLegs, Verdict
<1>5. CellsAgree'
  BY DEF IInv, TypeOK, ActiveLegs, CellsAgree, Planned, ClientOf, RefsOf,
         CheckAnswer, StartLegs
<1>6. LoadersLive'
  <2>1. \A f \in Refs : leg[f] = "loading" => RequestOf[f] # r
    BY DEF IInv, ActiveLegs, CheckAnswer
  <2>2. \A f \in Refs : leg[f] = "loading" => leg'[f] = "loading"
    BY <2>1 DEF IInv, TypeOK, CheckAnswer, StartLegs, RefsOf
  <2> QED
    BY <2>2 DEF IInv, TypeOK, LoadersLive, ClientOf, CheckAnswer
<1>7. SessionsAgree'
  BY DEF IInv, TypeOK, UsesKept, SessionsAgree, CheckAnswer, StartLegs
<1> QED
  BY <1>1, <1>2, <1>3, <1>4, <1>5, <1>6, <1>7 DEF IInv

\* An answer leaves the statement's state alone.
LEMMA AnswerKeeps ==
  ASSUME IInv, NEW r \in Requests, Answer(r)
  PROVE  IInv'
<1> USE StatementAssumption
<1>1. TypeOK'
  BY DEF IInv, TypeOK, Opened, Answer
<1>2. UsesKept'
  BY DEF IInv, TypeOK, UsesKept, Opened, Answer
<1>3. ActiveLegs'
  BY DEF IInv, TypeOK, ActiveLegs, Answer
<1>4. ReadsAdmitted'
  BY DEF IInv, TypeOK, ActiveLegs, ReadsAdmitted, Opened, Reads, ClientOf,
         IsGated, Answer
<1>5. CellsAgree'
  BY DEF IInv, TypeOK, ActiveLegs, CellsAgree, Planned, ClientOf, Answer
<1>6. LoadersLive'
  BY DEF IInv, TypeOK, LoadersLive, ClientOf, Answer
<1>7. SessionsAgree'
  BY DEF IInv, TypeOK, UsesKept, SessionsAgree, Answer
<1> QED
  BY <1>1, <1>2, <1>3, <1>4, <1>5, <1>6, <1>7 DEF IInv

\* Only an empty session cell gets an initializer.
LEMMA BeginSessionKeeps ==
  ASSUME IInv, NEW a \in Requests \cup Refs, NEW c \in Requests, BeginSession(a, c)
  PROVE  IInv'
<1> USE StatementAssumption
<1>1. TypeOK'
  BY DEF IInv, TypeOK, Opened, BeginSession
<1>2. UsesKept'
  BY DEF IInv, TypeOK, UsesKept, Opened, BeginSession
<1>3. ActiveLegs'
  BY DEF IInv, TypeOK, ActiveLegs, BeginSession
<1>4. ReadsAdmitted'
  BY DEF IInv, TypeOK, ActiveLegs, ReadsAdmitted, Opened, Reads, ClientOf,
         IsGated, BeginSession
<1>5. CellsAgree'
  BY DEF IInv, TypeOK, ActiveLegs, CellsAgree, Planned, ClientOf, BeginSession
<1>6. LoadersLive'
  BY DEF IInv, TypeOK, LoadersLive, ClientOf, BeginSession
<1>7. SessionsAgree'
  BY DEF IInv, TypeOK, UsesKept, SessionsAgree, BeginSession
<1> QED
  BY <1>1, <1>2, <1>3, <1>4, <1>5, <1>6, <1>7 DEF IInv

\* The session that opens is the kept client's, and its cell was empty.
LEMMA SessionOpensKeeps ==
  ASSUME IInv, NEW a \in Requests \cup Refs, NEW r \in Requests, Opened(r), SessionOpens(a, using[r])
  PROVE  IInv'
<1> USE StatementAssumption
<1>1. TypeOK'
  <2>1. auths' \in [Schemas -> Nat]
    <3>1. SchemaOf[using[r]] \in Schemas /\ auths \in [Schemas -> Nat]
      BY DEF IInv, TypeOK
    <3>2. auths[SchemaOf[using[r]]] + 1 \in Nat
      BY <3>1
    <3> QED
      BY <3>1, <3>2 DEF SessionOpens
  <2>2. resolver' \in [Requests -> Requests \cup Refs \cup {Nobody}]
    BY DEF IInv, TypeOK, SessionOpens
  <2>3. ready' \in [Requests -> BOOLEAN]
    <3>1. ready \in [Requests -> BOOLEAN] /\ ready' = [ready EXCEPT ![using[r]] = TRUE]
      BY DEF IInv, TypeOK, SessionOpens
    <3> QED
      BY <3>1, Zenon
  <2> QED
    BY <2>1, <2>2, <2>3 DEF IInv, TypeOK, SessionOpens, Opened
<1>2. UsesKept'
  BY DEF IInv, TypeOK, UsesKept, Opened, SessionOpens
<1>3. ActiveLegs'
  BY DEF IInv, TypeOK, ActiveLegs, SessionOpens
<1>4. ReadsAdmitted'
  BY DEF IInv, TypeOK, ActiveLegs, ReadsAdmitted, Opened, Reads, ClientOf,
         IsGated, SessionOpens
<1>5. CellsAgree'
  BY DEF IInv, TypeOK, ActiveLegs, CellsAgree, Planned, ClientOf, SessionOpens
<1>6. LoadersLive'
  BY DEF IInv, TypeOK, LoadersLive, ClientOf, SessionOpens
<1>7. SessionsAgree'
  <2> DEFINE c == using[r]
             own == SchemaOf[r]
  <2>1. c \in Requests /\ c = states[own] /\ SchemaOf[c] = own /\ own \in Schemas
    BY DEF IInv, TypeOK, UsesKept
  <2>2. c # Nobody /\ a # Nobody
    BY <2>1
  <2>3. /\ ready' = [ready EXCEPT ![c] = TRUE]
        /\ auths' = [auths EXCEPT ![own] = @ + 1]
        /\ resolver' = [resolver EXCEPT ![c] = Nobody]
        /\ UNCHANGED states
    BY <2>1 DEF SessionOpens
  <2>4. auths[own] = 0
    BY <2>1, <2>2 DEF IInv, SessionsAgree, SessionOpens
  <2>5. \A d \in Requests : resolver'[d] # Nobody => ~ready'[d]
    BY <2>1, <2>3 DEF IInv, TypeOK, SessionsAgree
  <2>6. ASSUME NEW s \in Schemas
        PROVE  auths'[s] = 0 \/ (auths'[s] = 1 /\ states'[s] # Nobody /\ ready'[states'[s]])
    <3>1. CASE s = own
      BY <2>1, <2>2, <2>3, <2>4, <3>1 DEF IInv, TypeOK
    <3>2. CASE s # own
      <4>1. auths'[s] = auths[s]
        BY <2>1, <2>3, <3>2 DEF IInv, TypeOK
      <4>2. ASSUME states[s] # Nobody  PROVE states[s] \in Requests /\ states[s] # c
        BY <2>1, <3>2, <4>2 DEF IInv, TypeOK, UsesKept
      <4> QED
        BY <2>3, <4>1, <4>2 DEF IInv, TypeOK, SessionsAgree
    <3> QED
      BY <3>1, <3>2
  <2> QED
    BY <2>5, <2>6 DEF SessionsAgree
<1> QED
  BY <1>1, <1>2, <1>3, <1>4, <1>5, <1>6, <1>7 DEF IInv

\* A gated leg enters only with an admitted table.
LEMMA EnterLegKeeps ==
  ASSUME IInv, NEW f \in Refs, EnterLeg(f)
  PROVE  IInv'
<1> USE StatementAssumption
<1>1. TypeOK'
  BY DEF IInv, TypeOK, Opened, EnterLeg, RequireAdmitted
<1>2. UsesKept'
  BY DEF IInv, TypeOK, UsesKept, Opened, EnterLeg
<1>3. ActiveLegs'
  BY DEF IInv, TypeOK, ActiveLegs, EnterLeg
<1>4. ReadsAdmitted'
  BY DEF IInv, TypeOK, ActiveLegs, ReadsAdmitted, Opened, Reads, ClientOf,
         IsGated, EnterLeg, RequireAdmitted
<1>5. CellsAgree'
  BY DEF IInv, TypeOK, ActiveLegs, CellsAgree, Planned, ClientOf, EnterLeg
<1>6. LoadersLive'
  BY DEF IInv, TypeOK, LoadersLive, ClientOf, EnterLeg
<1>7. SessionsAgree'
  BY DEF IInv, TypeOK, UsesKept, SessionsAgree, EnterLeg
<1> QED
  BY <1>1, <1>2, <1>3, <1>4, <1>5, <1>6, <1>7 DEF IInv

\* A load starts on an empty cell that nobody fills.
LEMMA BeginLoadKeeps ==
  ASSUME IInv, NEW f \in Refs, BeginLoad(f)
  PROVE  IInv'
<1> USE StatementAssumption
<1>1. TypeOK'
  BY DEF IInv, TypeOK, Opened, BeginLoad
<1>2. UsesKept'
  BY DEF IInv, TypeOK, UsesKept, Opened, BeginLoad
<1>3. ActiveLegs'
  BY DEF IInv, TypeOK, ActiveLegs, BeginLoad
<1>4. ReadsAdmitted'
  BY DEF IInv, TypeOK, ActiveLegs, ReadsAdmitted, Opened, Reads, ClientOf,
         IsGated, BeginLoad
<1>5. CellsAgree'
  <2> DEFINE c == ClientOf(f)
             t == TableOf[f]
  <2>1. c \in Requests /\ t \in Tables
    BY DEF IInv, TypeOK, ActiveLegs, BeginLoad, ClientOf, Opened
  <2>2. /\ loader' = [loader EXCEPT ![c][t] = f]
        /\ leg' = [leg EXCEPT ![f] = "loading"]
        /\ UNCHANGED <<using, cell, view>>
        /\ cell[c][t] = Unloaded
        /\ loader[c][t] = Nobody
    BY DEF BeginLoad
  <2>3. loader'[c][t] = f
    BY <2>1, <2>2 DEF IInv, TypeOK
  <2>4. ASSUME NEW g \in Refs, leg'[g] = "loading"
        PROVE  /\ loader'[ClientOf(g)][TableOf[g]] = g
               /\ cell[ClientOf(g)][TableOf[g]] = Unloaded
    <3>1. CASE g = f
      BY <2>2, <2>3, <3>1
    <3>2. CASE g # f
      <4>1. leg[g] = "loading"
        BY <2>2, <2>4, <3>2 DEF IInv, TypeOK
      <4>2. /\ loader[ClientOf(g)][TableOf[g]] = g
            /\ cell[ClientOf(g)][TableOf[g]] = Unloaded
            /\ ClientOf(g) \in Requests
            /\ TableOf[g] \in Tables
        BY <4>1 DEF IInv, TypeOK, CellsAgree, ActiveLegs, ClientOf, Opened
      <4>3. ~(ClientOf(g) = c /\ TableOf[g] = t)
        BY <2>2, <4>2
      <4> QED
        BY <2>1, <2>2, <4>2, <4>3 DEF IInv, TypeOK
    <3> QED
      BY <3>1, <3>2
  <2>5. \A g \in Refs : ClientOf(g)' = ClientOf(g)
    BY <2>2 DEF ClientOf
  <2>6. \A g \in Refs : Planned(g)' => Planned(g)
    BY <2>2 DEF IInv, TypeOK, Planned
  <2> QED
    BY <2>2, <2>4, <2>5, <2>6 DEF IInv, CellsAgree
<1>6. LoadersLive'
  BY DEF IInv, TypeOK, LoadersLive, ClientOf, BeginLoad
<1>7. SessionsAgree'
  BY DEF IInv, TypeOK, UsesKept, SessionsAgree, BeginLoad
<1> QED
  BY <1>1, <1>2, <1>3, <1>4, <1>5, <1>6, <1>7 DEF IInv

\* A load fills an empty cell, so no planned reference sees it change.
LEMMA LoadAnswerKeeps ==
  ASSUME IInv, NEW f \in Refs, LoadAnswer(f)
  PROVE  IInv'
<1> USE StatementAssumption
<1> DEFINE c == ClientOf(f)
           t == TableOf[f]
<1>1. TypeOK'
  <2>1. c \in Requests /\ t \in Tables
    BY DEF IInv, TypeOK, ActiveLegs, LoadAnswer, ClientOf, Opened
  <2>2. current[t] \in Versions
    BY <2>1 DEF IInv, TypeOK
  <2>3. cell' \in [Requests -> [Tables -> Versions \cup {Unloaded}]]
    BY <2>1, <2>2 DEF IInv, TypeOK, LoadAnswer
  <2>4. /\ loader' \in [Requests -> [Tables -> Refs \cup {Nobody}]]
        /\ view' \in [Refs -> Versions \cup {Unloaded}]
        /\ leg' \in [Refs -> {"idle", "start", "waiting", "loading", "planning",
                              "done", "dropped"}]
    BY <2>1, <2>2 DEF IInv, TypeOK, LoadAnswer
  <2> QED
    BY <2>3, <2>4 DEF IInv, TypeOK, LoadAnswer, Opened
<1>2. UsesKept'
  BY DEF IInv, TypeOK, UsesKept, Opened, LoadAnswer
<1>3. ActiveLegs'
  BY DEF IInv, TypeOK, ActiveLegs, LoadAnswer
<1>4. ReadsAdmitted'
  BY DEF IInv, TypeOK, ActiveLegs, ReadsAdmitted, Opened, Reads, ClientOf,
         IsGated, LoadAnswer
<1>5. CellsAgree'
  <2>1. c \in Requests /\ t \in Tables
    BY DEF IInv, TypeOK, ActiveLegs, LoadAnswer, ClientOf, Opened
  <2>2. /\ cell' = [cell EXCEPT ![c][t] = current[t]]
        /\ loader' = [loader EXCEPT ![c][t] = Nobody]
        /\ leg' = [leg EXCEPT ![f] = "planning"]
        /\ view' = [view EXCEPT ![f] = current[t]]
        /\ UNCHANGED using
        /\ leg[f] = "loading"
    BY DEF LoadAnswer
  <2>3. current[t] \in Versions /\ current[t] # Unloaded
    BY <2>1 DEF IInv, TypeOK, Versions, Unloaded
  <2>4. loader[c][t] = f /\ cell[c][t] = Unloaded
    BY <2>2 DEF IInv, CellsAgree
  <2>5. \A g \in Refs : leg[g] \in {"loading", "planning", "done"} =>
           ClientOf(g) \in Requests /\ TableOf[g] \in Tables
    BY DEF IInv, TypeOK, ActiveLegs, ClientOf, Opened
  <2>6. ASSUME NEW g \in Refs, leg'[g] = "loading"
        PROVE  /\ loader'[ClientOf(g)][TableOf[g]] = g
               /\ cell'[ClientOf(g)][TableOf[g]] = Unloaded
    <3>1. g # f /\ leg[g] = "loading"
      BY <2>2, <2>6 DEF IInv, TypeOK
    <3>2. /\ loader[ClientOf(g)][TableOf[g]] = g
          /\ cell[ClientOf(g)][TableOf[g]] = Unloaded
      BY <3>1 DEF IInv, CellsAgree
    <3>3. ~(ClientOf(g) = c /\ TableOf[g] = t)
      BY <2>4, <3>1, <3>2
    <3> QED
      BY <2>1, <2>2, <2>5, <3>1, <3>2, <3>3 DEF IInv, TypeOK
  <2>7. ASSUME NEW g \in Refs, Planned(g)'
        PROVE  view'[g] = cell'[ClientOf(g)][TableOf[g]] /\ view'[g] # Unloaded
    <3>1. CASE g = f
      BY <2>1, <2>2, <2>3, <3>1 DEF IInv, TypeOK
    <3>2. CASE g # f
      <4>1. Planned(g)
        BY <2>2, <2>7, <3>2 DEF IInv, TypeOK, Planned
      <4>2. view[g] = cell[ClientOf(g)][TableOf[g]] /\ view[g] # Unloaded
        BY <4>1 DEF IInv, CellsAgree
      <4>3. ~(ClientOf(g) = c /\ TableOf[g] = t)
        BY <2>4, <4>2
      <4> QED
        BY <2>1, <2>2, <2>5, <3>2, <4>1, <4>2, <4>3 DEF IInv, TypeOK, Planned
    <3> QED
      BY <3>1, <3>2
  <2>8. \A g \in Refs : ClientOf(g)' = ClientOf(g)
    BY <2>2 DEF ClientOf
  <2> QED
    BY <2>6, <2>7, <2>8 DEF CellsAgree
<1>6. LoadersLive'
  BY DEF IInv, TypeOK, LoadersLive, ClientOf, LoadAnswer
<1>7. SessionsAgree'
  BY DEF IInv, TypeOK, UsesKept, SessionsAgree, LoadAnswer
<1> QED
  BY <1>1, <1>2, <1>3, <1>4, <1>5, <1>6, <1>7 DEF IInv

\* A later reference plans from what the cell holds.
LEMMA ShareLoadKeeps ==
  ASSUME IInv, NEW f \in Refs, ShareLoad(f)
  PROVE  IInv'
<1> USE StatementAssumption
<1>1. TypeOK'
  <2>1. ClientOf(f) \in Requests /\ TableOf[f] \in Tables
    BY DEF IInv, TypeOK, ActiveLegs, ShareLoad, ClientOf, Opened
  <2>2. cell[ClientOf(f)][TableOf[f]] \in Versions \cup {Unloaded}
    BY <2>1 DEF IInv, TypeOK
  <2>3. /\ view' \in [Refs -> Versions \cup {Unloaded}]
        /\ leg' \in [Refs -> {"idle", "start", "waiting", "loading", "planning",
                              "done", "dropped"}]
    BY <2>2 DEF IInv, TypeOK, ShareLoad
  <2> QED
    BY <2>3 DEF IInv, TypeOK, ShareLoad, Opened
<1>2. UsesKept'
  BY DEF IInv, TypeOK, UsesKept, Opened, ShareLoad
<1>3. ActiveLegs'
  BY DEF IInv, TypeOK, ActiveLegs, ShareLoad
<1>4. ReadsAdmitted'
  BY DEF IInv, TypeOK, ActiveLegs, ReadsAdmitted, Opened, Reads, ClientOf,
         IsGated, ShareLoad
<1>5. CellsAgree'
  BY DEF IInv, TypeOK, ActiveLegs, CellsAgree, Planned, ClientOf, ShareLoad
<1>6. LoadersLive'
  BY DEF IInv, TypeOK, LoadersLive, ClientOf, ShareLoad
<1>7. SessionsAgree'
  BY DEF IInv, TypeOK, UsesKept, SessionsAgree, ShareLoad
<1> QED
  BY <1>1, <1>2, <1>3, <1>4, <1>5, <1>6, <1>7 DEF IInv

\* Planning a leg reads nothing new.
LEMMA PlanLegKeeps ==
  ASSUME IInv, NEW f \in Refs, PlanLeg(f)
  PROVE  IInv'
<1> USE StatementAssumption
<1>1. TypeOK'
  BY DEF IInv, TypeOK, Opened, PlanLeg
<1>2. UsesKept'
  BY DEF IInv, TypeOK, UsesKept, Opened, PlanLeg
<1>3. ActiveLegs'
  BY DEF IInv, TypeOK, ActiveLegs, PlanLeg
<1>4. ReadsAdmitted'
  BY DEF IInv, TypeOK, ActiveLegs, ReadsAdmitted, Opened, Reads, ClientOf,
         IsGated, PlanLeg
<1>5. CellsAgree'
  BY DEF IInv, TypeOK, ActiveLegs, CellsAgree, Planned, ClientOf, PlanLeg
<1>6. LoadersLive'
  BY DEF IInv, TypeOK, LoadersLive, ClientOf, PlanLeg
<1>7. SessionsAgree'
  BY DEF IInv, TypeOK, UsesKept, SessionsAgree, PlanLeg
<1> QED
  BY <1>1, <1>2, <1>3, <1>4, <1>5, <1>6, <1>7 DEF IInv

\* A commit of another writer reaches no filled cell.
LEMMA CommitKeeps ==
  ASSUME IInv, NEW t \in Tables, Commit(t)
  PROVE  IInv'
<1> USE StatementAssumption
<1>1. TypeOK'
  BY DEF IInv, TypeOK, Opened, Commit, Versions
<1>2. UsesKept'
  BY DEF IInv, TypeOK, UsesKept, Opened, Commit
<1>3. ActiveLegs'
  BY DEF IInv, TypeOK, ActiveLegs, Commit
<1>4. ReadsAdmitted'
  BY DEF IInv, TypeOK, ActiveLegs, ReadsAdmitted, Opened, Reads, ClientOf,
         IsGated, Commit
<1>5. CellsAgree'
  BY DEF IInv, TypeOK, ActiveLegs, CellsAgree, Planned, ClientOf, Commit
<1>6. LoadersLive'
  BY DEF IInv, TypeOK, LoadersLive, ClientOf, Commit
<1>7. SessionsAgree'
  BY DEF IInv, TypeOK, UsesKept, SessionsAgree, Commit
<1> QED
  BY <1>1, <1>2, <1>3, <1>4, <1>5, <1>6, <1>7 DEF IInv

-----------------------------------------------------------------------------
\* The statement state's invariant holds initially.
LEMMA InitEstablishes == Init => IInv
<1> SUFFICES ASSUME Init PROVE IInv
  OBVIOUS
<1> USE StatementAssumption
<1>1. TypeOK
  BY DEF Init, TypeOK, Opened, Unloaded, Versions
<1>2. UsesKept /\ ActiveLegs
  BY DEF Init, UsesKept, ActiveLegs, Opened
<1>3. ReadsAdmitted /\ CellsAgree /\ LoadersLive
  BY DEF Init, ReadsAdmitted, CellsAgree, LoadersLive, Reads, Planned
<1>4. SessionsAgree
  BY DEF Init, SessionsAgree
<1> QED
  BY <1>1, <1>2, <1>3, <1>4 DEF IInv

\* Every step of a request, a reference or another writer keeps it.
LEMMA StepKeeps == IInv /\ [Next]_vars => IInv'
<1> SUFFICES ASSUME IInv, [Next]_vars PROVE IInv'
  OBVIOUS
<1> USE StatementAssumption
<1>1. ASSUME NEW r \in Requests, RequestStep(r) PROVE IInv'
  <2>1. CASE \/ RefuseUser(r) \/ BuildFails(r) \/ RefuseIdentifier(r)
             \/ CheckRefuses(r) \/ BuildSqlFails(r)
    BY <2>1, FailKeeps DEF RefuseUser, BuildFails, RefuseIdentifier,
                           CheckRefuses, BuildSqlFails
  <2>2. CASE CheckSession(r)
    <3>1. Opened(r) /\ using[r] \in Requests /\ r \in Requests \cup Refs
      BY <2>2 DEF CheckSession, Opened, IInv, TypeOK
    <3>2. CASE BeginSession(r, using[r])
      BY <3>1, <3>2, BeginSessionKeeps
    <3>3. CASE SessionOpens(r, using[r])
      BY <3>1, <3>3, SessionOpensKeeps
    <3>4. CASE SessionFails(r, using[r], r)
      BY <3>4, FailKeeps DEF SessionFails
    <3> QED
      BY <2>2, <3>2, <3>3, <3>4 DEF CheckSession
  <2> QED
    BY <1>1, <2>1, <2>2, LookupKeeps, BuildKeeps, SkipCheckKeeps,
       StartCheckKeeps, CheckAnswerKeeps, AnswerKeeps DEF RequestStep
<1>2. ASSUME NEW f \in Refs, LegStep(f) PROVE IInv'
  <2>1. RequestOf[f] \in Requests
    OBVIOUS
  <2>2. CASE LegRefused(f) \/ LoadFails(f) \/ PlanFails(f)
    BY <2>1, <2>2, FailKeeps DEF LegRefused, LoadFails, PlanFails
  <2>3. CASE LoadSession(f)
    <3>1. Opened(RequestOf[f]) /\ ClientOf(f) \in Requests /\ f \in Requests \cup Refs
      BY <2>1, <2>3 DEF LoadSession, Opened, ClientOf, IInv, TypeOK, ActiveLegs
    <3>2. CASE BeginSession(f, ClientOf(f))
      BY <3>1, <3>2, BeginSessionKeeps
    <3>3. CASE SessionOpens(f, ClientOf(f))
      BY <2>1, <3>1, <3>3, SessionOpensKeeps DEF ClientOf
    <3>4. CASE SessionFails(f, ClientOf(f), RequestOf[f])
      BY <2>1, <3>4, FailKeeps DEF SessionFails
    <3> QED
      BY <2>3, <3>2, <3>3, <3>4 DEF LoadSession
  <2> QED
    BY <1>2, <2>2, <2>3, EnterLegKeeps, BeginLoadKeeps, LoadAnswerKeeps,
       ShareLoadKeeps, PlanLegKeeps DEF LegStep
<1>3. ASSUME UNCHANGED vars PROVE IInv'
  BY <1>3 DEF vars, IInv, TypeOK, UsesKept, ActiveLegs, ReadsAdmitted,
              CellsAgree, LoadersLive, SessionsAgree, Opened, Reads, Planned,
              ClientOf
<1> QED
  BY <1>1, <1>2, <1>3, CommitKeeps DEF Next, StatementEnds

\* The statement state's inductive invariant holds in every reachable state.
THEOREM Invariance == Spec => []IInv
<1> QED
  BY InitEstablishes, StepKeeps, PTL DEF Spec

\* Type correctness of the statement state, for every value of the constants.
THEOREM TypeCorrect == Spec => []TypeOK
<1>1. IInv => TypeOK
  BY DEF IInv
<1> QED
  BY <1>1, Invariance, PTL

\* The permission check: no gated reference reads a table that no answer of the
\* statement's batch-checks allowed (scan_resolution.rs, permission.rs).
THEOREM GatedReads == Spec => []GatedReadsAllowed
<1>1. IInv => GatedReadsAllowed
  BY StatementAssumption
     DEF IInv, TypeOK, ActiveLegs, ReadsAdmitted, GatedReadsAllowed, Reads,
         ClientOf, Opened
<1> QED
  BY <1>1, Invariance, PTL

\* get_or_build: requests of one schema that passed it share one client.
THEOREM OneClient == Spec => []OneClientPerSchema
<1>1. IInv => OneClientPerSchema
  BY DEF IInv, UsesKept, OneClientPerSchema
<1> QED
  BY <1>1, Invariance, PTL

\* session(): a schema's client authenticates at most once in the statement.
THEOREM OneSession == Spec => []OneSessionPerSchema
<1>1. IInv => OneSessionPerSchema
  BY DEF IInv, SessionsAgree, OneSessionPerSchema
<1> QED
  BY <1>1, Invariance, PTL

\* loaded_table: all references of a schema to a table plan from one version.
THEOREM OneSnapshot == Spec => []SharedSnapshot
<1>1. ASSUME IInv PROVE SharedSnapshot
  <2>1. \A f \in Refs : Planned(f) =>
           view[f] = cell[states[SchemaOf[RequestOf[f]]]][TableOf[f]]
    BY <1>1, StatementAssumption
       DEF IInv, UsesKept, ActiveLegs, CellsAgree, Planned, ClientOf, Opened
  <2> QED
    BY <2>1 DEF SharedSnapshot
<1> QED
  BY <1>1, Invariance, PTL

\* OnceCell: a fill under way belongs to a request that still runs, so a request
\* that fails or is dropped always gives the session and its load cells back.
THEOREM CellsGivenBack == Spec => []LoadersLive
<1>1. IInv => LoadersLive
  BY DEF IInv
<1> QED
  BY <1>1, Invariance, PTL

-----------------------------------------------------------------------------
(* The refinement of StatementReads.  Three more facts about a reachable    *)
(* state make every step a step of the promise or a stutter.                *)

\* A client that its schema does not keep was never used.
FreshClients ==
    \A c \in Requests : states[SchemaOf[c]] # c =>
        allowed[c] = {} /\ cell[c] = [t \in Tables |-> Unloaded]

\* A reference that has not planned its files has seen no version.
UnreadViews ==
    \A f \in Refs : leg[f] \in {"idle", "start", "waiting", "loading"}
                      => view[f] = Unloaded

\* Every leg of an answered request is done, and only failing drops a leg.
LegsFollow ==
    \A f \in Refs : /\ stage[RequestOf[f]] = "answered" => leg[f] = "done"
                    /\ leg[f] = "dropped" => stage[RequestOf[f]] = "failed"

RInv == IInv /\ FreshClients /\ UnreadViews /\ LegsFollow

\* A statement that has not begun maps to the promise's initial states.
LEMMA InitRefines == Init => RInv /\ Promise!AbsInit
<1> SUFFICES ASSUME Init PROVE RInv /\ Promise!AbsInit
  OBVIOUS
<1> USE StatementAssumption
<1>1. IInv
  BY InitEstablishes
<1>2. FreshClients /\ UnreadViews /\ LegsFollow
  BY DEF Init, FreshClients, UnreadViews, LegsFollow
<1>3. Promise!AbsInit
  BY DEF Init, Promise!AbsInit, AbsOutcome, AbsPermitted, AbsSnapshot, Unloaded
<1> QED
  BY <1>1, <1>2, <1>3 DEF RInv

\* An opened request works with the client its schema keeps.
LEMMA OpenedKept ==
  ASSUME IInv, NEW r \in Requests, Opened(r)
  PROVE  /\ using[r] \in Requests /\ using[r] # Nobody
         /\ SchemaOf[r] \in Schemas
         /\ using[r] = states[SchemaOf[r]]
         /\ SchemaOf[using[r]] = SchemaOf[r]
<1> USE StatementAssumption
<1>1. using[r] \in Requests /\ SchemaOf[r] \in Schemas
  BY DEF IInv, TypeOK
<1>2. using[r] # Nobody
  BY <1>1
<1>3. using[r] = states[SchemaOf[r]]
  BY DEF IInv, UsesKept
<1>4. SchemaOf[states[SchemaOf[r]]] = SchemaOf[r]
  BY <1>1, <1>2, <1>3 DEF IInv, UsesKept
<1> QED
  BY <1>1, <1>2, <1>3, <1>4

\* A failing request was not answered, and drops no leg of an answered one.
LEMMA FailKeepsMore ==
  ASSUME RInv, NEW r \in Requests, FailRequest(r)
  PROVE  FreshClients' /\ UnreadViews' /\ LegsFollow'
<1> USE StatementAssumption
<1>1. FreshClients' /\ UnreadViews'
  BY DEF RInv, IInv, TypeOK, FreshClients, UnreadViews, FailRequest
<1>2. LegsFollow'
  BY DEF RInv, IInv, TypeOK, LegsFollow, FailRequest, RefsOf
<1> QED
  BY <1>1, <1>2

\* A step keeps the three facts.
LEMMA StepKeepsMore == RInv /\ [Next]_vars => RInv'
<1> SUFFICES ASSUME RInv, [Next]_vars PROVE RInv'
  OBVIOUS
<1> USE StatementAssumption
<1>1. IInv'
  BY StepKeeps DEF RInv
<1> SUFFICES FreshClients' /\ UnreadViews' /\ LegsFollow'
  BY <1>1 DEF RInv
<1>2. ASSUME NEW r \in Requests, RequestStep(r)
      PROVE  FreshClients' /\ UnreadViews' /\ LegsFollow'
  <2>1. CASE \/ RefuseUser(r) \/ BuildFails(r) \/ RefuseIdentifier(r)
             \/ CheckRefuses(r) \/ BuildSqlFails(r)
    BY <2>1, FailKeepsMore DEF RefuseUser, BuildFails, RefuseIdentifier,
                               CheckRefuses, BuildSqlFails
  <2>2. CASE Lookup(r)
    BY <2>2 DEF RInv, IInv, TypeOK, FreshClients, UnreadViews, LegsFollow, Lookup
  <2>3. CASE BuildSucceeds(r)
    <3>1. FreshClients'
      BY <2>3 DEF RInv, IInv, TypeOK, UsesKept, FreshClients, BuildSucceeds, OrInsert
    <3> QED
      BY <2>3, <3>1 DEF RInv, IInv, TypeOK, UnreadViews, LegsFollow, BuildSucceeds
  <2>4. CASE SkipCheck(r) \/ StartCheck(r)
    <3>1. \A f \in RefsOf(r) : leg[f] = "idle"
      BY <2>4 DEF RInv, IInv, TypeOK, ActiveLegs, LegsFollow, SkipCheck, StartCheck,
                  RefsOf
    <3> QED
      BY <2>4, <3>1 DEF RInv, IInv, TypeOK, FreshClients, UnreadViews, LegsFollow,
                        SkipCheck, StartCheck, StartLegs, RefsOf
  <2>5. CASE CheckAnswer(r)
    <3>1. \A f \in RefsOf(r) : leg[f] = "idle"
      BY <2>5 DEF RInv, IInv, TypeOK, ActiveLegs, LegsFollow, CheckAnswer, RefsOf
    <3>2. states[SchemaOf[using[r]]] = using[r]
      BY <2>5, OpenedKept DEF RInv, CheckAnswer, Opened
    <3>3. FreshClients'
      <4>1. states' = states /\ cell' = cell
            /\ \A c \in Requests : c # using[r] => allowed'[c] = allowed[c]
        BY <2>5 DEF RInv, IInv, TypeOK, CheckAnswer
      <4> QED
        BY <3>2, <4>1 DEF RInv, FreshClients
    <3> QED
      BY <2>5, <3>1, <3>3 DEF RInv, IInv, TypeOK, UnreadViews, LegsFollow,
                              CheckAnswer, StartLegs, RefsOf
  <2>6. CASE CheckSession(r)
    <3>1. CASE SessionFails(r, using[r], r)
      BY <3>1, FailKeepsMore DEF SessionFails
    <3>2. CASE BeginSession(r, using[r]) \/ SessionOpens(r, using[r])
      BY <3>2 DEF RInv, FreshClients, UnreadViews, LegsFollow, BeginSession,
                  SessionOpens
    <3> QED
      BY <2>6, <3>1, <3>2 DEF CheckSession
  <2>7. CASE Answer(r)
    BY <2>7 DEF RInv, IInv, TypeOK, FreshClients, UnreadViews, LegsFollow, Answer,
                RefsOf
  <2> QED
    BY <1>2, <2>1, <2>2, <2>3, <2>4, <2>5, <2>6, <2>7 DEF RequestStep
<1>3. ASSUME NEW f \in Refs, LegStep(f)
      PROVE  FreshClients' /\ UnreadViews' /\ LegsFollow'
  <2>1. RequestOf[f] \in Requests
    OBVIOUS
  <2>2. CASE LegRefused(f) \/ LoadFails(f) \/ PlanFails(f)
    BY <2>1, <2>2, FailKeepsMore DEF LegRefused, LoadFails, PlanFails
  <2>3. CASE LoadSession(f)
    <3>1. CASE SessionFails(f, ClientOf(f), RequestOf[f])
      BY <2>1, <3>1, FailKeepsMore DEF SessionFails
    <3>2. CASE BeginSession(f, ClientOf(f)) \/ SessionOpens(f, ClientOf(f))
      BY <3>2 DEF RInv, FreshClients, UnreadViews, LegsFollow, BeginSession,
                  SessionOpens
    <3> QED
      BY <2>3, <3>1, <3>2 DEF LoadSession
  <2>4. CASE EnterLeg(f) \/ BeginLoad(f) \/ PlanLeg(f) \/ ShareLoad(f)
    BY <2>4 DEF RInv, IInv, TypeOK, FreshClients, UnreadViews, LegsFollow, EnterLeg,
                BeginLoad, PlanLeg, ShareLoad
  <2>5. CASE LoadAnswer(f)
    <3>1. states[SchemaOf[ClientOf(f)]] = ClientOf(f)
      BY <2>1, <2>5, OpenedKept DEF RInv, IInv, ActiveLegs, LoadAnswer, Opened,
                                    ClientOf
    <3>2. FreshClients'
      <4>1. states' = states /\ allowed' = allowed
            /\ \A c \in Requests : c # ClientOf(f) => cell'[c] = cell[c]
        BY <2>5 DEF RInv, IInv, TypeOK, LoadAnswer
      <4> QED
        BY <3>1, <4>1 DEF RInv, FreshClients
    <3> QED
      BY <2>5, <3>2 DEF RInv, IInv, TypeOK, UnreadViews, LegsFollow, LoadAnswer
  <2> QED
    BY <1>3, <2>2, <2>3, <2>4, <2>5 DEF LegStep
<1>4. ASSUME NEW t \in Tables, Commit(t)
      PROVE  FreshClients' /\ UnreadViews' /\ LegsFollow'
  BY <1>4 DEF RInv, FreshClients, UnreadViews, LegsFollow, Commit
<1>5. ASSUME UNCHANGED vars
      PROVE  FreshClients' /\ UnreadViews' /\ LegsFollow'
  BY <1>5 DEF RInv, FreshClients, UnreadViews, LegsFollow, vars
<1> QED
  BY <1>2, <1>3, <1>4, <1>5 DEF Next, StatementEnds


-----------------------------------------------------------------------------
\* What the promise sees of the clients changes only with them.
LEMMA SameReads ==
  ASSUME states' = states, allowed' = allowed, cell' = cell
  PROVE  AbsPermitted' = AbsPermitted /\ AbsSnapshot' = AbsSnapshot
BY DEF AbsPermitted, AbsSnapshot

\* A request that had not ended and fails is refused.
LEMMA FailRefuses ==
  ASSUME TypeOK, NEW r \in Requests, FailRequest(r),
         stage[r] \notin {"answered", "failed"}
  PROVE  Promise!Refuse(r)
<1>1. AbsPermitted' = AbsPermitted /\ AbsSnapshot' = AbsSnapshot
  BY SameReads DEF FailRequest
<1>2. AbsOutcome[r] = "pending"
  BY DEF AbsOutcome
<1>3. AbsOutcome' = [AbsOutcome EXCEPT ![r] = "failed"]
  BY DEF AbsOutcome, FailRequest, TypeOK
<1> QED
  BY <1>1, <1>2, <1>3 DEF Promise!Refuse, FailRequest

\* A step within one request's planning does not show.
LEMMA StageHidden ==
  ASSUME TypeOK, NEW r \in Requests, NEW next,
         stage[r] \notin {"answered", "failed"}, next \notin {"answered", "failed"},
         stage' = [stage EXCEPT ![r] = next]
  PROVE  AbsOutcome' = AbsOutcome
BY DEF AbsOutcome, TypeOK

\* Every step of a request is a step of the promise or does not show.
LEMMA RequestRefines ==
  ASSUME RInv, NEW r \in Requests, RequestStep(r)
  PROVE  [Promise!AbsNext]_(Promise!absVars)
<1> USE StatementAssumption
<1>0. TypeOK /\ IInv
  BY DEF RInv, IInv
<1>1. CASE \/ RefuseUser(r) \/ BuildFails(r) \/ RefuseIdentifier(r)
           \/ CheckRefuses(r) \/ BuildSqlFails(r)
  <2>1. FailRequest(r) /\ stage[r] \notin {"answered", "failed"}
    BY <1>1 DEF RefuseUser, BuildFails, RefuseIdentifier, CheckRefuses, BuildSqlFails
  <2> QED
    BY <1>0, <2>1, FailRefuses DEF Promise!AbsNext
<1>2. CASE Lookup(r) \/ SkipCheck(r) \/ StartCheck(r)
  <2>1. AbsOutcome' = AbsOutcome
    BY <1>0, <1>2, StageHidden DEF Lookup, SkipCheck, StartCheck
  <2>2. AbsPermitted' = AbsPermitted /\ AbsSnapshot' = AbsSnapshot
    BY <1>2, SameReads DEF Lookup, SkipCheck, StartCheck
  <2> QED
    BY <1>2, <2>1, <2>2 DEF Lookup, SkipCheck, StartCheck, Promise!absVars
<1>3. CASE BuildSucceeds(r)
  <2>1. AbsOutcome' = AbsOutcome
    BY <1>0, <1>3, StageHidden DEF BuildSucceeds
  <2>2. AbsPermitted' = AbsPermitted /\ AbsSnapshot' = AbsSnapshot
    <3>1. CASE states[SchemaOf[r]] # Nobody
      <4>1. states' = states
        BY <1>0, <1>3, <3>1 DEF BuildSucceeds, OrInsert, TypeOK
      <4> QED
        BY <1>3, <4>1, SameReads DEF BuildSucceeds
    <3>2. CASE states[SchemaOf[r]] = Nobody
      <4>1. states' = [states EXCEPT ![SchemaOf[r]] = r] /\ r # Nobody
        BY <1>3, <3>2 DEF BuildSucceeds, OrInsert
      <4>2. allowed[r] = {} /\ cell[r] = [t \in Tables |-> Unloaded]
        BY <3>2, <4>1 DEF RInv, FreshClients
      <4>3. allowed' = allowed /\ cell' = cell
        BY <1>3 DEF BuildSucceeds
      <4>4. ASSUME NEW z \in Schemas
            PROVE  AbsPermitted'[z] = AbsPermitted[z] /\ AbsSnapshot'[z] = AbsSnapshot[z]
        <5>1. CASE z = SchemaOf[r]
          <6>1. states'[z] = r /\ states[z] = Nobody
            BY <1>0, <3>2, <4>1, <5>1 DEF TypeOK
          <6> QED
            BY <4>1, <4>2, <4>3, <6>1 DEF AbsPermitted, AbsSnapshot
        <5>2. CASE z # SchemaOf[r]
          <6>1. states'[z] = states[z]
            BY <1>0, <4>1, <5>2 DEF TypeOK
          <6> QED
            BY <4>3, <6>1 DEF AbsPermitted, AbsSnapshot
        <5> QED
          BY <5>1, <5>2
      <4> QED
        BY <4>4 DEF AbsPermitted, AbsSnapshot
    <3> QED
      BY <3>1, <3>2
  <2> QED
    BY <1>3, <2>1, <2>2 DEF BuildSucceeds, Promise!absVars
<1>4. CASE CheckAnswer(r)
  <2> DEFINE s == SchemaOf[r]
  <2>1. using[r] \in Requests /\ using[r] # Nobody /\ using[r] = states[s]
        /\ SchemaOf[using[r]] = s /\ s \in Schemas
    BY <1>0, <1>4, OpenedKept DEF CheckAnswer, Opened
  <2>2. PICK decisions \in SUBSET batch[r] :
          allowed' = [allowed EXCEPT ![using[r]] = @ \cup decisions]
    BY <1>4 DEF CheckAnswer
  <2>3. decisions \in SUBSET Tables
    BY <1>0, <2>2 DEF TypeOK
  <2>4. AbsOutcome' = AbsOutcome
    BY <1>0, <1>4, StageHidden DEF CheckAnswer
  <2>5. AbsSnapshot' = AbsSnapshot
    BY <1>4 DEF CheckAnswer, AbsSnapshot
  <2>6. \A z \in Schemas : states[z] = using[r] => z = s
    BY <1>0, <2>1 DEF IInv, UsesKept
  <2>7. AbsPermitted' = [AbsPermitted EXCEPT ![s] = @ \cup decisions]
    <3>1. states' = states
      BY <1>4 DEF CheckAnswer
    <3>2. \A c \in Requests : allowed'[c] = IF c = using[r] THEN allowed[c] \cup decisions
                                                             ELSE allowed[c]
      BY <1>0, <2>1, <2>2, ZenonT(40) DEF TypeOK
    <3>3. ASSUME NEW z \in Schemas
          PROVE  AbsPermitted'[z] = IF z = s THEN AbsPermitted[z] \cup decisions
                                             ELSE AbsPermitted[z]
      <4>1. states[z] \in Requests \cup {Nobody}
        BY <1>0 DEF TypeOK
      <4>2. CASE z = s
        BY <2>1, <3>1, <3>2, <4>2 DEF AbsPermitted
      <4>3. CASE z # s
        BY <2>6, <3>1, <3>2, <4>1, <4>3 DEF AbsPermitted
      <4> QED
        BY <4>2, <4>3
    <3> QED
      BY <2>1, <3>3 DEF AbsPermitted
  <2>8. Promise!Permit(s, decisions)
    BY <1>4, <2>4, <2>5, <2>7 DEF Promise!Permit, CheckAnswer
  <2> QED
    BY <2>1, <2>3, <2>8 DEF Promise!AbsNext
<1>5. CASE CheckSession(r)
  <2>1. CASE SessionFails(r, using[r], r)
    <3>1. FailRequest(r) /\ stage[r] \notin {"answered", "failed"}
      BY <1>5, <2>1 DEF SessionFails, CheckSession
    <3> QED
      BY <1>0, <3>1, FailRefuses DEF Promise!AbsNext
  <2>2. CASE BeginSession(r, using[r]) \/ SessionOpens(r, using[r])
    BY <2>2, SameReads DEF BeginSession, SessionOpens, Promise!absVars, AbsOutcome
  <2> QED
    BY <1>5, <2>1, <2>2 DEF CheckSession
<1>6. CASE Answer(r)
  <2>1. \A f \in Refs : RequestOf[f] = r => view[f] # 0
    BY <1>0, <1>6 DEF Answer, RefsOf, IInv, CellsAgree, Planned, Unloaded
  <2>2. AbsPermitted' = AbsPermitted /\ AbsSnapshot' = AbsSnapshot
    BY <1>6, SameReads DEF Answer
  <2>3. AbsOutcome[r] = "pending" /\ AbsOutcome' = [AbsOutcome EXCEPT ![r] = "answered"]
    BY <1>0, <1>6, ZenonT(40) DEF AbsOutcome, Answer, TypeOK
  <2>4. Promise!Succeed(r)
    BY <1>6, <2>1, <2>2, <2>3 DEF Promise!Succeed, Answer
  <2> QED
    BY <2>4 DEF Promise!AbsNext
<1> QED
  BY <1>1, <1>2, <1>3, <1>4, <1>5, <1>6 DEF RequestStep

\* A reference that plans from the version v of its kept client reads it.
ReadsVersion(f, v) ==
    /\ leg[f] \in {"waiting", "loading"}
    /\ v = IF cell[ClientOf(f)][TableOf[f]] = Unloaded THEN current[TableOf[f]]
           ELSE cell[ClientOf(f)][TableOf[f]]
    /\ cell' = [cell EXCEPT ![ClientOf(f)][TableOf[f]] = v]
    /\ view' = [view EXCEPT ![f] = v]
    /\ UNCHANGED <<stage, states, allowed, current>>

\* A reference that plans its files from a version is a read of the promise.
LEMMA ViewReads ==
  ASSUME RInv, NEW f \in Refs, NEW v, ReadsVersion(f, v)
  PROVE  Promise!Read(f)
<1> USE StatementAssumption DEF ReadsVersion
<1> DEFINE r == RequestOf[f]
           s == SchemaOf[r]
           t == TableOf[f]
           c == ClientOf(f)
<1>0. TypeOK /\ IInv /\ r \in Requests /\ t \in Tables
  BY DEF RInv, IInv
<1>1. stage[r] = "resolving"
  BY <1>0 DEF RInv, IInv, ActiveLegs, LegsFollow
<1>2. c \in Requests /\ c # Nobody /\ c = states[s] /\ s \in Schemas /\ SchemaOf[c] = s
  BY <1>0, <1>1, OpenedKept DEF Opened, ClientOf
<1>3. AbsOutcome[r] = "pending" /\ AbsOutcome' = AbsOutcome
  BY <1>0, <1>1 DEF AbsOutcome
<1>4. view[f] = 0
  BY DEF RInv, UnreadViews, Unloaded
<1>5. AbsSnapshot[s] = cell[c] /\ AbsPermitted[s] = allowed[c]
  BY <1>2 DEF AbsSnapshot, AbsPermitted
<1>6. s \in Gated => t \in AbsPermitted[s]
  <2>1. Reads(f)
    BY DEF Reads
  <2>2. s \in Gated => t \in admitted[c] /\ admitted[c] \subseteq allowed[c]
    BY <1>2, <2>1 DEF RInv, IInv, ReadsAdmitted, IsGated
  <2> QED
    BY <1>5, <2>2
<1>7. AbsPermitted' = AbsPermitted
  BY DEF AbsPermitted
<1>8. AbsSnapshot' = [AbsSnapshot EXCEPT ![s][t] = v]
  <2>1. \A z \in Schemas : states[z] = c => z = s
    BY <1>0, <1>2 DEF IInv, UsesKept
  <2>2. cell'[c] = [cell[c] EXCEPT ![t] = v] /\ \A d \in Requests : d # c => cell'[d] = cell[d]
    BY <1>0, <1>2 DEF TypeOK
  <2>3. ASSUME NEW z \in Schemas
        PROVE  AbsSnapshot'[z] = IF z = s THEN [AbsSnapshot[s] EXCEPT ![t] = v]
                                          ELSE AbsSnapshot[z]
    <3>1. states[z] \in Requests \cup {Nobody}
      BY <1>0 DEF TypeOK
    <3>2. CASE z = s
      BY <1>2, <1>5, <2>2, <3>2 DEF AbsSnapshot
    <3>3. CASE z # s
      BY <2>1, <2>2, <3>1, <3>3 DEF AbsSnapshot
    <3> QED
      BY <3>2, <3>3
  <2>4. /\ AbsSnapshot = [z \in Schemas |-> AbsSnapshot[z]]
        /\ AbsSnapshot' = [z \in Schemas |-> AbsSnapshot'[z]]
    BY DEF AbsSnapshot
  <2> QED
    BY <1>2, <2>3, <2>4
<1>9. v = IF AbsSnapshot[s][t] = 0 THEN current[t] ELSE AbsSnapshot[s][t]
  BY <1>5 DEF Unloaded
<1> QED
  BY <1>3, <1>4, <1>6, <1>7, <1>8, <1>9 DEF Promise!Read

\* Every step of a reference is a step of the promise or does not show.
LEMMA LegRefines ==
  ASSUME RInv, NEW f \in Refs, LegStep(f)
  PROVE  [Promise!AbsNext]_(Promise!absVars)
<1> USE StatementAssumption
<1>0. TypeOK /\ IInv /\ RequestOf[f] \in Requests
  BY DEF RInv, IInv
<1>1. ASSUME FailRequest(RequestOf[f]), leg[f] \in {"start", "loading", "planning"}
      PROVE  Promise!AbsNext
  <2>1. stage[RequestOf[f]] \notin {"answered", "failed"}
    BY <1>0, <1>1 DEF RInv, IInv, ActiveLegs, LegsFollow
  <2> QED
    BY <1>0, <1>1, <2>1, FailRefuses DEF Promise!AbsNext
<1>2. CASE LegRefused(f) \/ LoadFails(f) \/ PlanFails(f)
  BY <1>1, <1>2 DEF LegRefused, LoadFails, PlanFails
<1>3. CASE LoadSession(f)
  <2>1. CASE SessionFails(f, ClientOf(f), RequestOf[f])
    BY <1>1, <1>3, <2>1 DEF LoadSession, SessionFails
  <2>2. CASE BeginSession(f, ClientOf(f)) \/ SessionOpens(f, ClientOf(f))
    BY <2>2, SameReads DEF BeginSession, SessionOpens, Promise!absVars, AbsOutcome
  <2> QED
    BY <1>3, <2>1, <2>2 DEF LoadSession
<1>4. CASE EnterLeg(f) \/ BeginLoad(f) \/ PlanLeg(f)
  BY <1>4, SameReads DEF EnterLeg, BeginLoad, PlanLeg, Promise!absVars, AbsOutcome
<1>5. CASE LoadAnswer(f)
  <2>1. cell[ClientOf(f)][TableOf[f]] = Unloaded
    BY <1>0, <1>5 DEF IInv, CellsAgree, LoadAnswer
  <2>2. ReadsVersion(f, current[TableOf[f]])
    BY <1>5, <2>1 DEF LoadAnswer, ReadsVersion
  <2>3. Promise!Read(f)
    BY <2>2, ViewReads
  <2> QED
    BY <2>3 DEF Promise!AbsNext
<1>6. CASE ShareLoad(f)
  <2> DEFINE v == cell[ClientOf(f)][TableOf[f]]
  <2>1. v # Unloaded /\ leg[f] = "waiting" /\ view' = [view EXCEPT ![f] = v]
        /\ UNCHANGED <<stage, states, allowed, current, cell>>
    BY <1>6 DEF ShareLoad
  <2>2. ClientOf(f) \in Requests
    BY <1>0, <2>1, OpenedKept DEF IInv, ActiveLegs, ClientOf, Opened
  <2>3. cell = [cell EXCEPT ![ClientOf(f)][TableOf[f]] = v]
    BY <1>0, <2>2 DEF TypeOK
  <2>4. ReadsVersion(f, v)
    BY <2>1, <2>3 DEF ReadsVersion
  <2>5. Promise!Read(f)
    BY <2>4, ViewReads
  <2> QED
    BY <2>5 DEF Promise!AbsNext
<1> QED
  BY <1>2, <1>3, <1>4, <1>5, <1>6 DEF LegStep

\* Every step of the statement state is a step of the promise or does not show.
LEMMA StepRefines == RInv /\ [Next]_vars => [Promise!AbsNext]_(Promise!absVars)
<1> SUFFICES ASSUME RInv, [Next]_vars PROVE [Promise!AbsNext]_(Promise!absVars)
  OBVIOUS
<1>1. ASSUME NEW t \in Tables, Commit(t) PROVE Promise!AbsNext
  <2>1. Promise!Advance(t)
    BY <1>1, SameReads DEF Commit, Promise!Advance, AbsOutcome
  <2> QED
    BY <2>1 DEF Promise!AbsNext
<1>2. CASE UNCHANGED vars
  BY <1>2 DEF vars, Promise!absVars, AbsOutcome, AbsPermitted, AbsSnapshot
<1> QED
  BY <1>1, <1>2, RequestRefines, LegRefines DEF Next, StatementEnds

\* The machinery of clients, sessions, cells and batches implements what
\* StatementReads promises of a statement: one version per table and schema, no
\* gated read without a permit, no answer with an unread reference.
THEOREM Refinement == Spec => ImplementsPromise
<1> QED
  BY InitRefines, StepKeepsMore, StepRefines, PTL DEF Spec, ImplementsPromise, Promise!AbsSpec

-----------------------------------------------------------------------------
(* One request to the catalog: the retry discipline, for every policy,     *)
(* every answer time and every Retry-After header (module CatalogHttp).    *)

\* The recursive definition of the backoff's powers defines a natural for each
\* retry, so that every backoff is a span of naturals.
LEMMA DoublingType == Doubling \in [Nat -> Nat]
<1> DEFINE F == [n \in Nat |-> [x \in Nat |-> 2 * x]]
           Recursive(f) == f = [n \in Nat |-> IF n = 0 THEN 1 ELSE 2 * f[n - 1]]
<1>1. PICK g : IteratesFrom(g, Nat, 1, F)
  <2>1. StepFunction(F, Nat) /\ 1 \in Nat
    BY DEF StepFunction
  <2> HIDE DEF F
  <2> QED
    BY <2>1, Iterates
<1>2. ASSUME NEW n \in Nat PROVE g[n] = IF n = 0 THEN 1 ELSE 2 * g[n - 1]
  <2>1. CASE n = 0
    BY <1>1, <2>1 DEF IteratesFrom
  <2>2. CASE n # 0
    <3>1. n - 1 \in Nat /\ (n - 1) + 1 = n
      BY <2>2
    <3>2. g[n] = F[n - 1][g[n - 1]] /\ g[n - 1] \in Nat
      BY <1>1, <3>1 DEF IteratesFrom
    <3> QED
      BY <2>2, <3>1, <3>2
  <2> QED
    BY <2>1, <2>2
<1>3. Recursive(g)
  BY <1>1, <1>2 DEF IteratesFrom
<1>4. Recursive(Doubling)
  <2>1. Doubling = CHOOSE f : Recursive(f)
    BY DEF Doubling
  <2> HIDE DEF Recursive
  <2> QED
    BY <1>3, <2>1
<1> DEFINE T == {n \in Nat : Doubling[n] \in Nat}
<1>5. 0 \in T
  BY <1>4
<1>6. ASSUME NEW n \in T PROVE n + 1 \in T
  <2>1. Doubling[n + 1] = 2 * Doubling[n]
    BY <1>4
  <2> QED
    BY <2>1
<1>7. T = Nat
  <2> HIDE DEF T
  <2>1. T \in SUBSET Nat
    BY DEF T
  <2> QED
    BY <1>5, <1>6, <2>1, NatSetInduction
<1> QED
  BY <1>4, <1>7

\* Every wait of a retry is a natural, at most the one stated or the whole
\* backoff.
LEMMA WaitsBounded ==
  ASSUME HttpTypeOK, NEW wait \in Waits(attempts_made)
  PROVE  /\ wait \in Nat
         /\ BackoffBase * Doubling[attempts_made - 1] \in Nat
         /\ wait <= IF stated # NoWait THEN stated
                    ELSE BackoffBase * Doubling[attempts_made - 1]
<1> DEFINE ceiling == BackoffBase * Doubling[attempts_made - 1]
<1> USE PolicyAssumption
<1>1. attempts_made - 1 \in Nat
  BY DEF HttpTypeOK
<1>2. ceiling \in Nat
  BY <1>1, DoublingType
<1>3. CASE stated # NoWait
  BY <1>2, <1>3 DEF HttpTypeOK, Waits
<1>4. CASE stated = NoWait
  <2> HIDE DEF ceiling
  <2>1. wait \in (ceiling \div 2) .. ceiling
    BY <1>4 DEF Waits, BackoffWaits, ceiling
  <2>2. wait \in Nat /\ wait <= ceiling
    BY <1>2, <2>1
  <2> QED
    BY <1>2, <1>4, <2>2 DEF ceiling
<1> QED
  BY <1>3, <1>4

\* A wait that fits ends early enough for the next attempt's read timeout.
LEMMA FitsInWindow ==
  ASSUME HttpTypeOK, NEW wait \in Nat
  PROVE  Fits(wait) <=> now + wait + ReadTimeout <= RetryWindow
BY PolicyAssumption DEF HttpTypeOK, Fits, TimeLeft

-----------------------------------------------------------------------------
\* Only an attempt that is under way has no outcome yet.
OutcomeKnown == phase = "sending" \/ outcome # "none"

HttpIInv == HttpTypeOK /\ OutcomeKnown /\ RetriesDueInWindow /\ ReturnedIsFinal

\* A request that has not been sent satisfies the invariant.
LEMMA HttpInitEstablishes == HttpInit => HttpIInv
BY PolicyAssumption
   DEF HttpInit, HttpIInv, HttpTypeOK, OutcomeKnown, RetriesDueInWindow, ReturnedIsFinal, NoWait

\* Sending and reading change neither the attempts made nor when the current
\* one began, and do not return.
LEMMA ExchangeKeeps ==
  ASSUME HttpIInv,
         \/ \E d \in Durations, status \in Statuses, after \in RetryAfters \cup {NoWait} :
              HeadersArrive(d, status, after)
         \/ TimesOut
         \/ \E d \in Durations, failure \in {"transient_failure", "final_failure"} :
              ConnectionFails(d, failure)
         \/ \E d \in Durations : BodyPart(d) \/ BodyBreaks(d)
         \/ BodyEnds
  PROVE  HttpIInv'
<1> USE PolicyAssumption
<1>1. \A d \in Durations : d \in Nat
  OBVIOUS
<1>2. HttpTypeOK'
  BY <1>1 DEF HttpIInv, HttpTypeOK, HeadersArrive, TimesOut, ConnectionFails, BodyPart,
         BodyBreaks, BodyEnds, Statuses, Failures
<1>3. OutcomeKnown'
  BY DEF HttpIInv, OutcomeKnown, HeadersArrive, TimesOut, ConnectionFails, BodyPart,
         BodyBreaks, BodyEnds, Statuses
<1>4. attempts_made' = attempts_made /\ began' = began /\ phase' # "returned"
  BY DEF HeadersArrive, TimesOut, ConnectionFails, BodyPart, BodyBreaks, BodyEnds
<1>5. RetriesDueInWindow' /\ ReturnedIsFinal'
  BY <1>4 DEF HttpIInv, RetriesDueInWindow, ReturnedIsFinal
<1> QED
  BY <1>2, <1>3, <1>5 DEF HttpIInv

\* A retry is counted and starts within the window.
LEMMA RetryKeeps ==
  ASSUME HttpIInv, NEW wait \in Waits(attempts_made), NEW late \in 0 .. MaxOversleep,
         Retry(wait, late)
  PROVE  HttpIInv'
<1> USE PolicyAssumption
<1>1. HttpTypeOK /\ wait \in Nat
  BY WaitsBounded DEF HttpIInv
<1>2. HttpTypeOK'
  BY <1>1 DEF HttpTypeOK, Retry, MayResend
<1>3. now + wait + ReadTimeout <= RetryWindow
  BY <1>1, FitsInWindow DEF Retry
<1>4. RetriesDueInWindow'
  BY <1>1, <1>3 DEF HttpTypeOK, Retry, RetriesDueInWindow
<1>5. OutcomeKnown' /\ ReturnedIsFinal'
  BY DEF Retry, OutcomeKnown, ReturnedIsFinal
<1> QED
  BY <1>2, <1>4, <1>5 DEF HttpIInv

\* Giving up on a transient outcome means that the drawn wait did not fit, so
\* that the longest one does not fit either.
LEMMA GiveUpKeeps ==
  ASSUME HttpIInv, GiveUp
  PROVE  HttpIInv'
<1> USE PolicyAssumption
<1> DEFINE longest == IF stated # NoWait THEN stated
                      ELSE BackoffBase * Doubling[attempts_made - 1]
<1>1. HttpTypeOK'
  BY DEF HttpIInv, HttpTypeOK, GiveUp
<1>2. OutcomeKnown' /\ RetriesDueInWindow' /\ outcome # "none"
  BY DEF HttpIInv, OutcomeKnown, RetriesDueInWindow, GiveUp
<1>3. ASSUME IsTransient(outcome), MayResend
      PROVE  now + ReadTimeout + longest > RetryWindow
  <2>1. PICK wait \in Waits(attempts_made) : ~Fits(wait)
    BY <1>3 DEF GiveUp
  <2>2. wait \in Nat /\ longest \in Nat /\ wait <= longest
    BY WaitsBounded DEF HttpIInv, HttpTypeOK, NoWait
  <2> HIDE DEF longest
  <2>3. ~(now + wait + ReadTimeout <= RetryWindow)
    BY <2>1, <2>2, FitsInWindow DEF HttpIInv
  <2> QED
    BY <2>2, <2>3 DEF HttpIInv, HttpTypeOK
<1>4. ReturnedIsFinal'
  BY <1>2, <1>3 DEF ReturnedIsFinal, IsTransient, MayResend, GiveUp
<1> QED
  BY <1>1, <1>2, <1>4 DEF HttpIInv

\* Every step of a request keeps the invariant, one case per action.
LEMMA HttpStepKeeps == HttpIInv /\ [HttpNext]_httpVars => HttpIInv'
<1> SUFFICES ASSUME HttpIInv, [HttpNext]_httpVars PROVE HttpIInv'
  OBVIOUS
<1>1. CASE UNCHANGED httpVars
  BY <1>1 DEF httpVars, HttpIInv, HttpTypeOK, OutcomeKnown, RetriesDueInWindow,
              ReturnedIsFinal, IsTransient, MayResend
<1>2. CASE HttpNext
  BY <1>1, <1>2, ExchangeKeeps, RetryKeeps, GiveUpKeeps DEF HttpNext, Returned
<1> QED
  BY <1>1, <1>2

\* The request's inductive invariant holds in every reachable state.
THEOREM HttpInvariance == HttpSpec => []HttpIInv
<1> QED
  BY HttpInitEstablishes, HttpStepKeeps, PTL DEF HttpSpec

\* Type correctness: in particular the attempts made never exceed the policy's.
THEOREM HttpTypeCorrect == HttpSpec => []HttpTypeOK
<1>1. HttpIInv => HttpTypeOK
  BY DEF HttpIInv
<1> QED
  BY <1>1, HttpInvariance, PTL

\* wait_before_retry: whatever waits the catalog states and however long its
\* answers take, a retry starts only where its headers are due in the window.
THEOREM RetriesInWindow == HttpSpec => []RetriesDueInWindow
<1>1. HttpIInv => RetriesDueInWindow
  BY DEF HttpIInv
<1> QED
  BY <1>1, HttpInvariance, PTL

\* send_capped: the caller gets an outcome, and a transient one only when
\* the attempts, the clone or the window ran out.
THEOREM FinalResult == HttpSpec => []ReturnedIsFinal
<1>1. HttpIInv => ReturnedIsFinal
  BY DEF HttpIInv
<1> QED
  BY <1>1, HttpInvariance, PTL

-----------------------------------------------------------------------------
(* The bearer the requests of a Unity session share: module UnityAuth, with *)
(* a clock of its own and what each caller holds.                           *)

CONSTANTS Callers, OAUTH_REFRESH_SKEW_SECS, MintTime, SendTime, Lifetimes
VARIABLES clock, cached, cache, refresh_at, holding, bearer, sent

Auth == INSTANCE UnityAuth WITH now <- clock, stage <- holding


\* A cached token is stored MintTime after its issue at the latest, and the skew
\* covers that and the time over which a request is re-sent.
LEMMA StoredInTime ==
    ASSUME Auth!Timely,
           NEW token \in Auth!Tokens, NEW t \in Nat, t <= token.born + MintTime
    PROVE  /\ t + Auth!Usable(token.life) \in Nat
           /\ t + Auth!Usable(token.life) + SendTime <= token.born + token.life
           /\ t + SendTime < token.born + token.life
<1>1. token.born \in Nat /\ token.life \in Nat /\ token.life > OAUTH_REFRESH_SKEW_SECS
  BY DEF Auth!Timely, Auth!Tokens
<1>2. Auth!Usable(token.life) = token.life - OAUTH_REFRESH_SKEW_SECS
  BY <1>1 DEF Auth!Usable, Auth!Timely
<1> QED
  BY <1>1, <1>2 DEF Auth!Timely

\* Before any request the invariant holds.
LEMMA AuthInit ==
    ASSUME Auth!Timely, Auth!Init PROVE Auth!IInv
BY DEF Auth!Init, Auth!IInv, Auth!TypeOK, Auth!CacheSound, Auth!BearerSound

\* Every look-up, mint, store and send keeps the invariant.
LEMMA AuthStep ==
    ASSUME Auth!Timely, Auth!IInv, [Auth!Next]_(Auth!vars) PROVE Auth!IInv'
<1> USE DEF Auth!IInv
<1>1. ASSUME NEW t \in Nat, Auth!Tick(t) PROVE Auth!IInv'
  BY <1>1 DEF Auth!Tick, Auth!TypeOK, Auth!CacheSound, Auth!BearerSound, Auth!Tokens, Auth!Timely
<1>2. ASSUME NEW c \in Callers, Auth!UseCached(c) PROVE Auth!IInv'
  <2>1. Auth!TypeOK'
    BY <1>2 DEF Auth!UseCached, Auth!TypeOK
  <2>2. Auth!CacheSound'
    BY <1>2 DEF Auth!UseCached, Auth!CacheSound
  <2>3. refresh_at \in Nat /\ cache.born \in Nat /\ cache.life \in Nat
    BY <1>2 DEF Auth!UseCached, Auth!TypeOK, Auth!Tokens, Auth!Timely
  <2>4. Auth!BearerSound'
    BY <1>2, <2>3 DEF Auth!UseCached, Auth!TypeOK, Auth!CacheSound, Auth!BearerSound, Auth!Timely
  <2> QED
    BY <2>1, <2>2, <2>4
<1>3. ASSUME NEW c \in Callers, Auth!BeginMint(c) PROVE Auth!IInv'
  BY <1>3 DEF Auth!BeginMint, Auth!TypeOK, Auth!CacheSound, Auth!BearerSound
<1>4. ASSUME NEW c \in Callers, NEW life \in Lifetimes, Auth!Issue(c, life) PROVE Auth!IInv'
  <2>1. [born |-> clock, life |-> life] \in Auth!Tokens
    BY DEF Auth!TypeOK, Auth!Tokens
  <2>2. Auth!TypeOK'
    BY <1>4, <2>1 DEF Auth!Issue, Auth!TypeOK
  <2>3. Auth!CacheSound'
    BY <1>4 DEF Auth!Issue, Auth!CacheSound
  <2>4. Auth!BearerSound'
    BY <1>4 DEF Auth!Issue, Auth!TypeOK, Auth!BearerSound, Auth!Timely
  <2> QED
    BY <2>2, <2>3, <2>4
<1>5. ASSUME NEW c \in Callers, Auth!MintFails(c) PROVE Auth!IInv'
  BY <1>5 DEF Auth!MintFails, Auth!TypeOK, Auth!CacheSound, Auth!BearerSound
<1>6. ASSUME NEW c \in Callers, Auth!StoreMinted(c) PROVE Auth!IInv'
  <2>1. bearer[c] \in Auth!Tokens /\ clock \in Nat /\ clock <= bearer[c].born + MintTime
    BY <1>6 DEF Auth!StoreMinted, Auth!TypeOK, Auth!BearerSound
  <2>2. /\ clock + Auth!Usable(bearer[c].life) \in Nat
        /\ clock + Auth!Usable(bearer[c].life) + SendTime <= bearer[c].born + bearer[c].life
        /\ clock + SendTime < bearer[c].born + bearer[c].life
    BY <2>1, StoredInTime
  <2>3. Auth!TypeOK'
    BY <1>6, <2>1, <2>2 DEF Auth!StoreMinted, Auth!TypeOK
  <2>4. Auth!CacheSound'
    BY <1>6, <2>2 DEF Auth!StoreMinted, Auth!CacheSound
  <2>5. Auth!BearerSound'
    BY <1>6, <2>1, <2>2 DEF Auth!StoreMinted, Auth!TypeOK, Auth!BearerSound, Auth!Timely
  <2> QED
    BY <2>3, <2>4, <2>5
<1>7. ASSUME NEW c \in Callers, Auth!Done(c) PROVE Auth!IInv'
  BY <1>7 DEF Auth!Done, Auth!TypeOK, Auth!CacheSound, Auth!BearerSound
<1>8. CASE UNCHANGED Auth!vars
  BY <1>8 DEF Auth!vars, Auth!TypeOK, Auth!CacheSound, Auth!BearerSound
<1> QED
  BY <1>1, <1>2, <1>3, <1>4, <1>5, <1>6, <1>7, <1>8 DEF Auth!Next

\* A sound bearer is still valid when its request may be sent.
LEMMA SoundIsLive ==
    ASSUME Auth!Timely, Auth!IInv PROVE Auth!BearerLive
<1> SUFFICES ASSUME NEW c \in Callers, holding[c] = "sending"
             PROVE  clock < bearer[c].born + bearer[c].life
  BY DEF Auth!BearerLive
<1>1. bearer[c].born \in Nat /\ bearer[c].life \in Nat
  BY DEF Auth!IInv, Auth!TypeOK, Auth!Tokens, Auth!Timely
<1>2. /\ clock <= sent[c] + SendTime
      /\ sent[c] + SendTime < bearer[c].born + bearer[c].life
  BY DEF Auth!IInv, Auth!BearerSound
<1>3. clock \in Nat /\ sent[c] \in Nat
  BY DEF Auth!IInv, Auth!TypeOK
<1> QED
  BY <1>1, <1>2, <1>3 DEF Auth!Timely

\* A request never carries an expired bearer, whatever its retries and however
\* the mints of concurrent requests race for the cache (OAuthTokenSource::bearer),
\* provided the skew covers a token's way to its caller and a request's retries.
THEOREM BearerNeverExpiresInFlight ==
    ASSUME Auth!Timely
    PROVE  Auth!Spec => []Auth!BearerLive
<1>1. Auth!Init => Auth!IInv
  BY AuthInit
<1>2. Auth!IInv /\ [Auth!Next]_(Auth!vars) => Auth!IInv'
  BY AuthStep
<1>3. Auth!IInv => Auth!BearerLive
  BY SoundIsLive
<1> QED
  BY <1>1, <1>2, <1>3, PTL DEF Auth!Spec
=============================================================================
