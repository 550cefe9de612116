--------------------------- MODULE McpServersProofs ---------------------------
(***************************************************************************)
(* Proofs about McpServers, for any number of concurrent handlers.         *)
(* The UPDATE of a handler merges two rows, the one it leaves behind and   *)
(* the one it has worked on, and a merge preserves what relates two        *)
(* columns only if the handler changes both of them or neither.  IInv      *)
(* states this of what every handler holds (Faithful).                     *)
(***************************************************************************)
EXTENDS McpServers, TLAPS

\* The columns that belong together do.
Consistent(s) ==
    /\ s.state = s.verifier
    /\ s.expires = IF declares THEN s.access ELSE 0

Holding == [op : Operations, step : Steps, read : Columns, work : Columns, refused : BOOLEAN]

\* A token that was read is there after the work, the same or another.
KeepsTokens(read, work) ==
    /\ read.access # 0 => work.access # 0
    /\ read.refresh # 0 => work.refresh # 0

\* What a handler holds: x.work differs from x.read only as its operation may.
Faithful(x) ==
    /\ Consistent(x.read) /\ Consistent(x.work)
    /\ x.op # "update" => x.work.enabled = x.read.enabled
    /\ IF x.op = "reset" \/ x.refused
       THEN x.work.access = 0 /\ x.work.refresh = 0
       ELSE KeepsTokens(x.read, x.work)
    /\ x.refused => x.op = "discover" /\ x.step \in {"call", "commit"}

IInv ==
    /\ TypeOK
    /\ Consistent(row)
    /\ \A h \in Handlers : Faithful(handlers[h])

-----------------------------------------------------------------------------
(* The records of the model. *)

LEMMA DomainOfRow ==
  ASSUME NEW s \in Columns
  PROVE  DOMAIN s = {"enabled", "status", "metadata", "client", "state",
                     "verifier", "access", "refresh", "expires"}
BY DEF Columns

LEMMA SavedColumns ==
  ASSUME TypeOK, NEW h \in Handlers
  PROVE  /\ Saved(h) \in Columns
         /\ \A c \in DOMAIN row :
              Saved(h)[c] = IF handlers[h].work[c] # handlers[h].read[c]
                            THEN handlers[h].work[c] ELSE row[c]
<1> DEFINE n == Saved(h)
<1>1. /\ row \in Columns
      /\ handlers[h].work \in Columns
      /\ handlers[h].read \in Columns
  BY DEF TypeOK
<1>2. DOMAIN row = {"enabled", "status", "metadata", "client", "state",
                    "verifier", "access", "refresh", "expires"}
  BY <1>1, DomainOfRow
<1>3. n = [enabled |-> n.enabled, status |-> n.status, metadata |-> n.metadata,
           client |-> n.client, state |-> n.state, verifier |-> n.verifier, access |-> n.access,
           refresh |-> n.refresh, expires |-> n.expires]
  BY <1>2 DEF Saved
<1>4. n.enabled \in BOOLEAN /\ n.status \in {"none", "OK", "ERROR", "AUTH_REQUIRED"}
  BY <1>1, <1>2 DEF Saved, Columns
<1>5. n.client \in Nat /\ n.state \in Nat /\ n.verifier \in Nat
  BY <1>1, <1>2 DEF Saved, Columns
<1>6. n.access \in Nat /\ n.refresh \in Nat /\ n.expires \in Nat
  BY <1>1, <1>2 DEF Saved, Columns
<1>7. n \in Columns
  <2>1. n.metadata \in SUBSET {"endpoints", "hint"}
    BY <1>1, <1>2 DEF Saved, Columns
  <2> HIDE DEF n
  <2> QED BY <1>3, <1>4, <1>5, <1>6, <2>1 DEF Columns
<1>8. \A c \in DOMAIN row :
         n[c] = IF handlers[h].work[c] # handlers[h].read[c]
                THEN handlers[h].work[c] ELSE row[c]
  BY DEF Saved
<1> QED BY <1>7, <1>8

\* Two rows that are consistent merge into a consistent one.
LEMMA MergeConsistent ==
  ASSUME TypeOK, NEW h \in Handlers,
         Consistent(row), Consistent(handlers[h].work), Consistent(handlers[h].read)
  PROVE  Consistent(Saved(h))
<1>1. {"state", "verifier", "access", "expires"} \subseteq DOMAIN row
  BY DomainOfRow DEF TypeOK
<1> QED BY <1>1, SavedColumns DEF Consistent

LEMMA HandlersHold ==
  TypeOK => \A h \in Handlers : /\ handlers[h] \in Holding
                                /\ handlers[h].op \in Operations
                                /\ handlers[h].step \in Steps
                                /\ handlers[h].read \in Columns
                                /\ handlers[h].work \in Columns
                                /\ handlers[h].refused \in BOOLEAN
BY DEF TypeOK, Holding

LEMMA IdleFaithful == Idle \in Holding /\ Faithful(Idle)
<1>1. NewServer \in Columns /\ Consistent(NewServer)
  BY DEF NewServer, Columns, Consistent
<1>2. Idle \in Holding
  BY <1>1 DEF Idle, Holding, Operations, Steps
<1> QED BY <1>1, <1>2 DEF Idle, Faithful, KeepsTokens

-----------------------------------------------------------------------------
(* What the steps of a handler have in common: it loads the row, works on  *)
(* it, or ends.                                                            *)

LEMMA OneHandler ==
  ASSUME IInv, NEW h \in Handlers, NEW x \in Holding, Faithful(x),
         handlers' = [handlers EXCEPT ![h] = x], declares' = declares
  PROVE  /\ handlers' \in [Handlers -> Holding]
         /\ \A g \in Handlers : Faithful(handlers[g])'
<1>1. handlers \in [Handlers -> Holding] BY DEF IInv, TypeOK, Holding
<1>2. handlers' \in [Handlers -> Holding] BY <1>1
<1>3. ASSUME NEW g \in Handlers
      PROVE  Faithful(handlers[g])'
  <2>1. handlers'[g] = x \/ handlers'[g] = handlers[g] BY <1>1
  <2>2. Faithful(handlers[g]) BY DEF IInv
  <2> QED BY <2>1, <2>2 DEF Faithful, Consistent
<1> QED BY <1>2, <1>3

LEMMA Loads ==
  ASSUME IInv, NEW h \in Handlers, NEW op \in Operations, NEW step \in Steps,
         NEW work \in Columns, Load(h, op, step, work), Consistent(work),
         op # "update" => work.enabled = row.enabled,
         IF op = "reset" THEN work.access = 0 /\ work.refresh = 0
                         ELSE KeepsTokens(row, work)
  PROVE  IInv'
<1> DEFINE x == [op |-> op, step |-> step, read |-> row, work |-> work, refused |-> FALSE]
<1>1. x \in Holding BY DEF IInv, TypeOK, Holding
<1>2. Faithful(x) BY DEF IInv, Faithful
<1>3. handlers' = [handlers EXCEPT ![h] = x] /\ declares' = declares BY DEF Load
<1>4. handlers' \in [Handlers -> Holding] /\ \A g \in Handlers : Faithful(handlers[g])'
  <2> HIDE DEF x
  <2> QED BY <1>1, <1>2, <1>3, OneHandler
<1>5. TypeOK' BY <1>4, BoundsAssumption DEF IInv, TypeOK, Load, Holding, grants
<1>6. Consistent(row)' BY DEF IInv, Load, Consistent
<1> QED BY <1>4, <1>5, <1>6 DEF IInv

LEMMA Works ==
  ASSUME IInv, NEW h \in Handlers, NEW step \in Steps, NEW work \in Columns,
         NEW refused \in BOOLEAN,
         handlers' = [handlers EXCEPT ![h].step = step, ![h].work = work,
                                      ![h].refused = refused],
         Faithful([op |-> handlers[h].op, step |-> step, read |-> handlers[h].read,
                   work |-> work, refused |-> refused]),
         UNCHANGED <<row, deleted, requests, expired, declares>>,
         registrations' \in Nat, links' \in Nat,
         responses' \in 0 .. MaxResponses, responses' >= responses
  PROVE  IInv'
<1> DEFINE x == [op |-> handlers[h].op, step |-> step, read |-> handlers[h].read,
                 work |-> work, refused |-> refused]
<1>0. TypeOK BY DEF IInv
<1>1. x \in Holding BY <1>0, HandlersHold DEF Holding
<1>2. handlers' = [handlers EXCEPT ![h] = x]
  <2>1. handlers \in [Handlers -> Holding] BY <1>0 DEF TypeOK, Holding
  <2>2. handlers' \in [Handlers -> Holding]
    BY <2>1 DEF Holding
  <2>3. \A g \in Handlers : g # h => handlers'[g] = handlers[g]
    BY <2>1
  <2>4. /\ handlers'[h].op = handlers[h].op /\ handlers'[h].read = handlers[h].read
        /\ handlers'[h].step = step /\ handlers'[h].work = work
        /\ handlers'[h].refused = refused
    BY <2>1 DEF Holding
  <2>5. handlers'[h] \in Holding BY <2>2
  <2>6. handlers'[h] = x
    BY <2>4, <2>5 DEF Holding
  <2> QED BY <2>1, <2>2, <2>3, <2>6
<1>3. handlers' \in [Handlers -> Holding] /\ \A g \in Handlers : Faithful(handlers[g])'
  <2>1. Faithful(x) OBVIOUS
  <2> HIDE DEF x
  <2> QED BY <1>1, <1>2, <2>1, OneHandler
<1>4. expired' \subseteq 1 .. responses' BY <1>0, BoundsAssumption DEF TypeOK
<1>5. TypeOK' BY <1>0, <1>3, <1>4 DEF TypeOK, Holding
<1>6. Consistent(row)' BY DEF IInv, Consistent
<1> QED BY <1>3, <1>5, <1>6 DEF IInv

LEMMA Becomes ==
  ASSUME IInv, NEW h \in Handlers, NEW step \in Steps, NEW work \in Columns,
         Become(h, step, work),
         Faithful([op |-> handlers[h].op, step |-> step, read |-> handlers[h].read,
                   work |-> work, refused |-> handlers[h].refused]),
         UNCHANGED <<row, deleted, requests, expired, declares>>,
         registrations' \in Nat, links' \in Nat,
         responses' \in 0 .. MaxResponses, responses' >= responses
  PROVE  IInv'
<1>1. handlers \in [Handlers -> Holding] /\ handlers[h].refused \in BOOLEAN
  BY HandlersHold DEF IInv, TypeOK, Holding
<1> DEFINE refused == handlers[h].refused
<1>2. handlers' = [handlers EXCEPT ![h].step = step, ![h].work = work,
                                   ![h].refused = refused]
  BY <1>1 DEF Become, Holding
<1>3. refused \in BOOLEAN BY <1>1
<1>4. Faithful([op |-> handlers[h].op, step |-> step, read |-> handlers[h].read,
                work |-> work, refused |-> refused])
  OBVIOUS
<1> HIDE DEF refused
<1> QED BY <1>2, <1>3, <1>4, Works

LEMMA Ends ==
  ASSUME IInv, NEW h \in Handlers, handlers' = [handlers EXCEPT ![h] = Idle],
         row' \in Columns, Consistent(row'), deleted' \in BOOLEAN,
         UNCHANGED <<requests, grants, expired, declares>>
  PROVE  IInv'
<1>1. handlers' \in [Handlers -> Holding] /\ \A g \in Handlers : Faithful(handlers[g])'
  BY IdleFaithful, OneHandler
<1>2. TypeOK' BY <1>1 DEF IInv, TypeOK, Holding, grants
<1>3. Consistent(row)' BY DEF Consistent
<1> QED BY <1>1, <1>2, <1>3 DEF IInv

-----------------------------------------------------------------------------
(* IInv is inductive: one lemma per kind of step. *)

LEMMA RowFacts ==
  IInv => /\ TypeOK /\ row \in Columns /\ Consistent(row)
          /\ \A h \in Handlers : Faithful(handlers[h])
BY DEF IInv, TypeOK

\* Edit, delete, reset and the beginning of the flows.
LEMMA LoadSteps ==
  ASSUME IInv, NEW h \in Handlers,
         \/ \E enabled \in BOOLEAN : UpdateServer(h, enabled)
         \/ DeleteServer(h) \/ ResetOAuth(h) \/ StartOAuth(h)
         \/ \E link \in 1 .. links : Callback(h, link)
         \/ DiscoverServerTools(h)
  PROVE  IInv'
<1>0. row \in Columns /\ Consistent(row) /\ KeepsTokens(row, row)
  BY RowFacts DEF KeepsTokens
<1>1. ASSUME NEW enabled \in BOOLEAN, UpdateServer(h, enabled) PROVE IInv'
  <2>1. [row EXCEPT !.enabled = enabled] \in Columns BY <1>0 DEF Columns
  <2>2. Consistent([row EXCEPT !.enabled = enabled])
        /\ KeepsTokens(row, [row EXCEPT !.enabled = enabled])
    BY <1>0 DEF Columns, Consistent, KeepsTokens
  <2> QED BY <1>1, <2>1, <2>2, Loads DEF UpdateServer, Operations, Steps
<1>2. CASE DeleteServer(h)
  BY <1>0, <1>2, Loads DEF DeleteServer, Operations, Steps
<1>3. CASE ResetOAuth(h)
  <2> DEFINE work == [Cleared(row) EXCEPT !.status = IF @ = "OK" THEN "AUTH_REQUIRED" ELSE @]
  <2>1. /\ work \in Columns /\ Consistent(work) /\ work.enabled = row.enabled
        /\ work.access = 0 /\ work.refresh = 0
    BY <1>0 DEF Columns, Consistent, Cleared
  <2>2. Load(h, "reset", "commit", work) BY <1>3 DEF ResetOAuth
  <2> QED BY <2>1, <2>2, Loads DEF Operations, Steps
<1>4. CASE StartOAuth(h)
  BY <1>0, <1>4, Loads DEF StartOAuth, Operations, Steps
<1>5. ASSUME NEW link \in 1 .. links, Callback(h, link) PROVE IInv'
  BY <1>0, <1>5, Loads DEF Callback, Operations, Steps
<1>6. CASE DiscoverServerTools(h)
  <2>1. CASE NeedsRefresh(row)
    BY <1>0, <1>6, <2>1, Loads DEF DiscoverServerTools, Operations, Steps
  <2>2. CASE ~NeedsRefresh(row)
    BY <1>0, <1>6, <2>2, Loads DEF DiscoverServerTools, Operations, Steps
  <2> QED BY <2>1, <2>2
<1> QED BY <1>1, <1>2, <1>3, <1>4, <1>5, <1>6

\* A token response keeps the row consistent, gives it an access token and leaves it
\* the refresh token it had, or a new one.
LEMMA TokensConsistent ==
  ASSUME NEW s \in Columns, Consistent(s), NEW n \in Nat, n # 0,
         NEW rotate \in BOOLEAN
  PROVE  /\ WithTokens(s, n, rotate) \in Columns
         /\ Consistent(WithTokens(s, n, rotate))
         /\ WithTokens(s, n, rotate).access = n
         /\ WithTokens(s, n, rotate).enabled = s.enabled
         /\ s.refresh # 0 => WithTokens(s, n, rotate).refresh # 0
BY DEF WithTokens, Columns, Consistent

LEMMA FlowSteps ==
  ASSUME IInv, NEW h \in Handlers,
         \/ PrepareAuthorization(h)
         \/ \E rotate \in BOOLEAN : ExchangeCode(h, rotate)
         \/ ExchangeRefused(h)
  PROVE  IInv'
<1> DEFINE x == handlers[h]
<1>0. /\ TypeOK /\ x \in Holding /\ x.work \in Columns /\ x.read \in Columns
      /\ x.refused \in BOOLEAN
      /\ Faithful(x) /\ Consistent(x.work)
      /\ handlers \in [Handlers -> Holding]
  BY RowFacts, HandlersHold DEF Faithful, TypeOK, Holding
<1>1. "commit" \in Steps BY DEF Steps
<1>2. CASE PrepareAuthorization(h)
  <2> DEFINE metadata == IF "endpoints" \in x.work.metadata THEN x.work.metadata
                        ELSE {"endpoints"}
             client == IF x.work.client = 0 THEN registrations + 1 ELSE x.work.client
             work   == [x.work EXCEPT !.metadata = metadata, !.client = client,
                                      !.state = links + 1, !.verifier = links + 1]
  <2>1. work \in Columns /\ Consistent(work) /\ work.enabled = x.work.enabled
        /\ work.access = x.work.access /\ work.refresh = x.work.refresh
    <3>1. /\ links + 1 \in Nat /\ client \in Nat
          /\ metadata \in SUBSET {"endpoints", "hint"}
      BY <1>0 DEF TypeOK, Columns
    <3>2. x.work \in Columns /\ Consistent(x.work) BY <1>0
    <3> HIDE DEF metadata, client, x
    <3>3. work \in Columns BY <3>1, <3>2 DEF Columns
    <3>4. work.state = work.verifier BY <3>2 DEF Columns
    <3>5. /\ work.expires = x.work.expires /\ work.enabled = x.work.enabled
          /\ work.access = x.work.access /\ work.refresh = x.work.refresh
      BY <3>2 DEF Columns
    <3> QED BY <3>2, <3>3, <3>4, <3>5 DEF Consistent
  <2>2. Faithful([op |-> x.op, step |-> "commit", read |-> x.read, work |-> work,
                  refused |-> x.refused])
    <3> HIDE DEF work
    <3> QED BY <1>0, <2>1 DEF Faithful, KeepsTokens
  <2>3. Become(h, "commit", work) BY <1>2 DEF PrepareAuthorization
  <2>4. /\ registrations' \in Nat /\ links' \in Nat /\ responses' >= responses
        /\ responses' \in 0 .. MaxResponses
        /\ UNCHANGED <<row, deleted, requests, expired, declares>>
    BY <1>0, <1>2, BoundsAssumption DEF PrepareAuthorization, TypeOK
  <2> HIDE DEF work
  <2> QED BY <1>0, <1>1, <2>1, <2>2, <2>3, <2>4, Becomes
<1>3. ASSUME NEW rotate \in BOOLEAN, ExchangeCode(h, rotate) PROVE IInv'
  <2> DEFINE tokens == WithTokens(x.work, responses + 1, rotate)
             work   == [tokens EXCEPT !.state = 0, !.verifier = 0]
  <2>0. responses \in Nat /\ responses + 1 # 0 BY <1>0, BoundsAssumption DEF TypeOK
  <2>1. /\ tokens \in Columns /\ Consistent(tokens)
        /\ tokens.access # 0 /\ (x.work.refresh # 0 => tokens.refresh # 0)
        /\ tokens.enabled = x.work.enabled
    BY <1>0, <2>0, TokensConsistent
  <2>2. /\ work \in Columns /\ Consistent(work) /\ work.enabled = x.work.enabled
        /\ work.access # 0 /\ (x.work.refresh # 0 => work.refresh # 0)
    <3> HIDE DEF tokens
    <3> QED BY <2>1 DEF Columns, Consistent
  <2>3. Faithful([op |-> x.op, step |-> "commit", read |-> x.read, work |-> work,
                  refused |-> x.refused])
    <3>1. x.op = "callback" BY <1>3 DEF ExchangeCode, At
    <3> HIDE DEF work
    <3> QED BY <1>0, <2>2, <3>1 DEF Faithful, KeepsTokens
  <2>4. Become(h, "commit", work) BY <1>3 DEF ExchangeCode
  <2>5. /\ registrations' \in Nat /\ links' \in Nat /\ responses' >= responses
        /\ responses' \in 0 .. MaxResponses
        /\ UNCHANGED <<row, deleted, requests, expired, declares>>
    <3>1. /\ responses' = responses + 1 /\ responses < MaxResponses
          /\ UNCHANGED <<row, deleted, requests, registrations, links, expired, declares>>
      BY <1>3 DEF ExchangeCode
    <3>2. registrations \in Nat /\ links \in Nat BY <1>0 DEF TypeOK
    <3> QED BY <2>0, <3>1, <3>2, BoundsAssumption
  <2> HIDE DEF work
  <2> QED BY <1>0, <1>1, <2>2, <2>3, <2>4, <2>5, Becomes
<1>4. CASE ExchangeRefused(h)
  <2> DEFINE work == [x.work EXCEPT !.status = "AUTH_REQUIRED"]
  <2>1. work \in Columns /\ Consistent(work) /\ work.enabled = x.work.enabled
        /\ work.access = x.work.access /\ work.refresh = x.work.refresh
    BY <1>0 DEF Columns, Consistent
  <2>2. Faithful([op |-> x.op, step |-> "commit", read |-> x.read, work |-> work,
                  refused |-> x.refused])
    <3> HIDE DEF work
    <3> QED BY <1>0, <2>1 DEF Faithful, KeepsTokens
  <2>3. Become(h, "commit", work) BY <1>4 DEF ExchangeRefused
  <2>4. /\ registrations' \in Nat /\ links' \in Nat /\ responses' >= responses
        /\ responses' \in 0 .. MaxResponses
        /\ UNCHANGED <<row, deleted, requests, expired, declares>>
    BY <1>0, <1>4, BoundsAssumption DEF ExchangeRefused, TypeOK, grants
  <2> HIDE DEF work
  <2> QED BY <1>0, <1>1, <2>1, <2>2, <2>3, <2>4, Becomes
<1> QED BY <1>2, <1>3, <1>4

LEMMA DiscoverySteps ==
  ASSUME IInv, NEW h \in Handlers,
         \/ \E rotate \in BOOLEAN : RefreshToken(h, rotate)
         \/ RefreshRefused(h)
         \/ \E outcome \in Outcomes, hint \in SUBSET {"hint"} : Session(h, outcome, hint)
  PROVE  IInv'
<1> DEFINE x == handlers[h]
<1>0. /\ TypeOK /\ x \in Holding /\ x.work \in Columns /\ x.read \in Columns
      /\ x.refused \in BOOLEAN
      /\ Faithful(x) /\ Consistent(x.work)
      /\ handlers \in [Handlers -> Holding]
  BY RowFacts, HandlersHold DEF Faithful, TypeOK, Holding
<1>1. {"call", "commit"} \subseteq Steps BY DEF Steps
<1>2. ASSUME NEW rotate \in BOOLEAN, RefreshToken(h, rotate) PROVE IInv'
  <2> DEFINE work == WithTokens(x.work, responses + 1, rotate)
  <2>0. responses \in Nat /\ responses + 1 # 0 BY <1>0, BoundsAssumption DEF TypeOK
  <2>1. /\ work \in Columns /\ Consistent(work) /\ work.enabled = x.work.enabled
        /\ work.access # 0 /\ (x.work.refresh # 0 => work.refresh # 0)
    BY <1>0, <2>0, TokensConsistent
  <2>2. Faithful([op |-> x.op, step |-> "call", read |-> x.read, work |-> work,
                  refused |-> x.refused])
    <3>1. x.step = "refresh" /\ x.op = "discover" BY <1>2 DEF RefreshToken, At
    <3> HIDE DEF work
    <3> QED BY <1>0, <2>1, <3>1 DEF Faithful, KeepsTokens
  <2>3. Become(h, "call", work) BY <1>2 DEF RefreshToken
  <2>4. /\ registrations' \in Nat /\ links' \in Nat /\ responses' >= responses
        /\ responses' \in 0 .. MaxResponses
        /\ UNCHANGED <<row, deleted, requests, expired, declares>>
    <3>1. /\ responses' = responses + 1 /\ responses < MaxResponses
          /\ UNCHANGED <<row, deleted, requests, registrations, links, expired, declares>>
      BY <1>2 DEF RefreshToken
    <3>2. registrations \in Nat /\ links \in Nat BY <1>0 DEF TypeOK
    <3> QED BY <2>0, <3>1, <3>2, BoundsAssumption
  <2> HIDE DEF work
  <2> QED BY <1>0, <1>1, <2>1, <2>2, <2>3, <2>4, Becomes
<1>3. CASE RefreshRefused(h)
  <2> DEFINE work == Cleared(x.work)
  <2>1. /\ work \in Columns /\ Consistent(work) /\ work.access = 0 /\ work.refresh = 0
        /\ work.enabled = x.work.enabled
    BY <1>0 DEF Cleared, Columns, Consistent
  <2>2. Faithful([op |-> x.op, step |-> "call", read |-> x.read, work |-> work,
                  refused |-> TRUE])
    <3>1. x.step = "refresh" /\ x.op = "discover" BY <1>3 DEF RefreshRefused, At
    <3> HIDE DEF work
    <3> QED BY <1>0, <2>1, <3>1 DEF Faithful
  <2>3. handlers' = [handlers EXCEPT ![h].step = "call", ![h].work = work,
                                     ![h].refused = TRUE]
    <3>1. handlers' = [handlers EXCEPT ![h].step = "call", ![h].refused = TRUE,
                                       ![h].work = work]
      BY <1>3 DEF RefreshRefused
    <3> HIDE DEF work
    <3> QED BY <1>0, <3>1 DEF Holding
  <2>4. /\ registrations' \in Nat /\ links' \in Nat /\ responses' >= responses
        /\ responses' \in 0 .. MaxResponses
        /\ UNCHANGED <<row, deleted, requests, expired, declares>>
    BY <1>0, <1>3, BoundsAssumption DEF RefreshRefused, TypeOK, grants
  <2> HIDE DEF work
  <2> QED BY <1>1, <2>1, <2>2, <2>3, <2>4, Works
<1>4. ASSUME NEW outcome \in Outcomes, NEW hint \in SUBSET {"hint"},
             Session(h, outcome, hint)
      PROVE  IInv'
  <2> DEFINE work == [x.work EXCEPT !.status = outcome, !.metadata = @ \cup hint]
  <2>1. work \in Columns /\ Consistent(work) /\ work.enabled = x.work.enabled
        /\ work.access = x.work.access /\ work.refresh = x.work.refresh
    BY <1>0 DEF Columns, Consistent, Outcomes
  <2>2. Faithful([op |-> x.op, step |-> "commit", read |-> x.read, work |-> work,
                  refused |-> x.refused])
    <3> HIDE DEF work
    <3> QED BY <1>0, <2>1 DEF Faithful, KeepsTokens
  <2>3. Become(h, "commit", work) BY <1>4 DEF Session
  <2>4. /\ registrations' \in Nat /\ links' \in Nat /\ responses' >= responses
        /\ responses' \in 0 .. MaxResponses
        /\ UNCHANGED <<row, deleted, requests, expired, declares>>
    <3>1. UNCHANGED <<row, deleted, requests, grants, expired, declares>>
      BY <1>4 DEF Session
    <3> QED BY <1>0, <3>1, BoundsAssumption DEF TypeOK, grants
  <2> HIDE DEF work
  <2> QED BY <1>1, <2>1, <2>2, <2>3, <2>4, Becomes
<1> QED BY <1>2, <1>3, <1>4

LEMMA EndSteps ==
  ASSUME IInv, NEW h \in Handlers, Commit(h) \/ CommitDelete(h) \/ Fail(h)
  PROVE  IInv'
<1>0. TypeOK /\ row \in Columns /\ Consistent(row) /\ deleted \in BOOLEAN
  BY RowFacts DEF TypeOK
<1>1. CASE Commit(h)
  <2>1. Saved(h) \in Columns BY <1>0, SavedColumns
  <2>2. Consistent(Saved(h))
    <3>1. Consistent(handlers[h].work) /\ Consistent(handlers[h].read)
      BY RowFacts DEF Faithful
    <3> QED BY <1>0, <3>1, MergeConsistent
  <2>3. row' \in Columns /\ Consistent(row') BY <1>0, <1>1, <2>1, <2>2 DEF Commit
  <2> QED BY <1>0, <1>1, <2>3, Ends DEF Commit, grants
<1>2. CASE CommitDelete(h) BY <1>0, <1>2, Ends DEF CommitDelete
<1>3. CASE Fail(h) BY <1>0, <1>3, Ends DEF Fail
<1> QED BY <1>1, <1>2, <1>3

LEMMA Inductive == IInv /\ [Next]_vars => IInv'
<1> SUFFICES ASSUME IInv, [Next]_vars PROVE IInv' OBVIOUS
<1>1. ASSUME NEW h \in Handlers,
             \/ \E enabled \in BOOLEAN : UpdateServer(h, enabled)
             \/ DeleteServer(h) \/ ResetOAuth(h) \/ StartOAuth(h)
             \/ PrepareAuthorization(h)
             \/ \E link \in 1 .. links : Callback(h, link)
             \/ \E rotate \in BOOLEAN : ExchangeCode(h, rotate) \/ RefreshToken(h, rotate)
             \/ ExchangeRefused(h)
             \/ DiscoverServerTools(h) \/ RefreshRefused(h)
             \/ \E outcome \in Outcomes, hint \in SUBSET {"hint"} : Session(h, outcome, hint)
             \/ Commit(h) \/ CommitDelete(h) \/ Fail(h)
      PROVE  IInv'
  BY <1>1, LoadSteps, FlowSteps, DiscoverySteps, EndSteps
<1>2. ASSUME NEW response \in 1 .. responses, Expire(response) PROVE IInv'
  BY <1>2 DEF Expire, IInv, TypeOK, Faithful, Consistent, grants
<1>3. CASE UNCHANGED vars
  BY <1>3 DEF vars, IInv, TypeOK, Faithful, Consistent
<1> QED BY <1>1, <1>2, <1>3 DEF Next

LEMMA Initially == Init => IInv
<1> SUFFICES ASSUME Init PROVE IInv OBVIOUS
<1>1. NewServer \in Columns /\ Consistent(NewServer)
  BY DEF NewServer, Columns, Consistent
<1>2. \A h \in Handlers : handlers[h] = Idle BY DEF Init
<1>3. TypeOK
  <2>1. handlers \in [Handlers -> Holding] BY IdleFaithful DEF Init
  <2>2. row \in Columns /\ declares \in BOOLEAN /\ deleted \in BOOLEAN
    BY <1>1 DEF Init
  <2>3. /\ requests = 0 /\ registrations = 0 /\ links = 0 /\ responses = 0
        /\ expired = {}
    BY DEF Init
  <2> QED BY <2>1, <2>2, <2>3, BoundsAssumption DEF TypeOK, Holding
<1> QED BY <1>1, <1>2, <1>3, IdleFaithful DEF Init, IInv

LEMMA Always == Spec => []IInv
BY Initially, Inductive, PTL DEF Spec

-----------------------------------------------------------------------------
(* What follows, for any number of handlers and any bounds. *)

\* The row and what the handlers of the API hold of it are well formed.
THEOREM TypeCorrect == Spec => []TypeOK
<1>1. IInv => TypeOK BY DEF IInv
<1> QED BY <1>1, Always, PTL

\* The state and the verifier of a pending authorization are of the same link,
\* however starts, callbacks, refreshes and resets overlap.
THEOREM PairedAlways == Spec => []PendingIsPaired
<1>1. IInv => PendingIsPaired BY DEF IInv, Consistent, PendingIsPaired
<1> QED BY <1>1, Always, PTL

\* The access token is never kept with the expiry of another one.
THEOREM ExpiryAlways == Spec => []ExpiryOfToken
<1>1. IInv => ExpiryOfToken BY DEF IInv, Consistent, ExpiryOfToken
<1> QED BY <1>1, Always, PTL

\* A commit changes a column only if its handler had changed it.
LEMMA ChangesAreCommits ==
  ASSUME IInv, [Next]_vars, row' # row
  PROVE  \E h \in Handlers : Commit(h) /\ row' = Saved(h)
<1>1. \A h \in Handlers : Commit(h) /\ row' # row => row' = Saved(h) BY DEF Commit
<1>2. ~(UNCHANGED vars) BY DEF vars
<1>3. \A h \in Handlers : \A op, step, work : Load(h, op, step, work) => row' = row
  BY DEF Load
<1>4. \A h \in Handlers :
         /\ \A enabled \in BOOLEAN : UpdateServer(h, enabled) => row' = row
         /\ DeleteServer(h) \/ ResetOAuth(h) \/ StartOAuth(h) \/ DiscoverServerTools(h) => row' = row
         /\ \A link \in 1 .. links : Callback(h, link) => row' = row
  BY <1>3 DEF UpdateServer, DeleteServer, ResetOAuth, StartOAuth, DiscoverServerTools, Callback
<1>5. \A h \in Handlers :
         /\ PrepareAuthorization(h) \/ ExchangeRefused(h) \/ RefreshRefused(h) => row' = row
         /\ \A rotate \in BOOLEAN : ExchangeCode(h, rotate) \/ RefreshToken(h, rotate) => row' = row
         /\ \A outcome \in Outcomes, hint \in SUBSET {"hint"} :
              Session(h, outcome, hint) => row' = row
         /\ CommitDelete(h) \/ Fail(h) => row' = row
  BY DEF PrepareAuthorization, ExchangeRefused, RefreshRefused, ExchangeCode, RefreshToken,
         Session, CommitDelete, Fail
<1>6. \A response \in 1 .. responses : Expire(response) => row' = row BY DEF Expire
<1> QED BY <1>1, <1>2, <1>4, <1>5, <1>6 DEF Next

LEMMA SavedBy ==
  ASSUME IInv, NEW h \in Handlers
  PROVE  /\ Faithful(handlers[h])
         /\ \A c \in {"enabled", "access", "refresh"} :
              Saved(h)[c] = IF handlers[h].work[c] # handlers[h].read[c]
                            THEN handlers[h].work[c] ELSE row[c]
<1>1. TypeOK /\ Faithful(handlers[h]) /\ row \in Columns BY RowFacts
<1>2. {"enabled", "access", "refresh"} \subseteq DOMAIN row BY <1>1, DomainOfRow
<1> QED BY <1>1, <1>2, SavedColumns

\* Tokens leave the row by the commit of a request that cleared them itself and had
\* read some; after it none is left, be it the token it had read or a later one.
THEOREM ClearingIsDecided == Spec => ClearedAsDecided
<1>1. ASSUME IInv, NEW h \in Handlers, Commit(h), ~deleted, NEW c \in {"access", "refresh"}
      PROVE  IF Clears(h) /\ handlers[h].read[c] # 0
             THEN row'[c] = 0
             ELSE row[c] # 0 => row'[c] # 0
  <2>1. row' = Saved(h) BY <1>1 DEF Commit
  <2>2. row'[c] = IF handlers[h].work[c] # handlers[h].read[c]
                  THEN handlers[h].work[c] ELSE row[c]
    BY <1>1, <2>1, SavedBy
  <2>3. Faithful(handlers[h]) BY <1>1, SavedBy
  <2>4. CASE Clears(h)
    <3>1. handlers[h].work[c] = 0 BY <1>1, <2>3, <2>4 DEF Faithful, Clears
    <3> QED BY <2>2, <2>4, <3>1
  <2>5. CASE ~Clears(h)
    <3>1. handlers[h].read[c] # 0 => handlers[h].work[c] # 0
      BY <1>1, <2>3, <2>5 DEF Faithful, KeepsTokens, Clears
    <3> QED BY <2>2, <2>5, <3>1
  <2> QED BY <2>4, <2>5
<1>2. IInv =>
        [\A h \in Handlers : Commit(h) /\ ~deleted =>
           \A c \in {"access", "refresh"} :
              IF Clears(h) /\ handlers[h].read[c] # 0
              THEN row'[c] = 0
              ELSE row[c] # 0 => row'[c] # 0]_vars
  BY <1>1
<1> QED BY <1>2, Always, PTL DEF ClearedAsDecided

\* A discovery, a callback or a start never undoes an edit made meanwhile.
THEOREM EditsAreKept == Spec => EditsStay
<1>1. ASSUME IInv, [Next]_vars, row'.enabled # row.enabled
      PROVE  \E h \in Handlers : handlers[h].op = "update" /\ handlers[h].step = "commit"
  <2>1. PICK h \in Handlers : Commit(h) /\ row' = Saved(h)
    BY <1>1, ChangesAreCommits
  <2>2. handlers[h].work.enabled # handlers[h].read.enabled
    BY <1>1, <2>1, SavedBy
  <2>3. handlers[h].op = "update"
    BY <1>1, <2>2, SavedBy DEF Faithful
  <2> QED BY <2>1, <2>3 DEF Commit
<1>2. IInv /\ [Next]_vars =>
        [row'.enabled # row.enabled =>
           \E h \in Handlers : handlers[h].op = "update" /\ handlers[h].step = "commit"]_vars
  BY <1>1
<1> QED BY <1>2, Always, PTL DEF Spec, EditsStay
=============================================================================
