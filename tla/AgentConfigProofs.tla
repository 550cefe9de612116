--------------------------- MODULE AgentConfigProofs ---------------------------
(***************************************************************************)
(* Proofs about AgentConfig, for any agents, fields, releases, processes,  *)
(* concurrent calls and requests, and any times.  What makes the bound on  *)
(* staleness inductive is a relation between two ages: a snapshot of the   *)
(* table is right about every row that has been quiet for longer than the  *)
(* snapshot is old (Right), wherever the snapshot is kept.                 *)
(***************************************************************************)
EXTENDS AgentConfig, TLAPS

CallStates == [step : {"idle", "query", "answer", "resolved"}, agent : Agents,
               rows : Snapshots, age : 0 .. MaxAnswer, stored : BOOLEAN,
               definition : Definitions]
CacheStates == [rows : Snapshots, age : 0 .. Horizon, since : 0 .. Ttl]
HandlerStates == [step : {"idle", "commit"}, agent : Agents, read : Rows, work : Rows]

Right(rows, age) == \A a \in Agents : quiet[a] > age => rows[a] = row[a]

AnswersAreRight ==
    \A p \in Processes, c \in Calls :
      calls[p][c].step = "answer" => Right(calls[p][c].rows, calls[p][c].age)

CachesAreRight ==
    \A p \in Processes :
      cache[p].since < Ttl => /\ cache[p].age <= cache[p].since + MaxAnswer
                              /\ Right(cache[p].rows, cache[p].age)

\* A default is there as a whole or not at all.
DefaultsAreComplete ==
    \A a \in Agents : Complete(default[a]) \/ \A f \in Fields : default[a][f] = Absent

\* What a request is about to commit.
CommitsAreComplete ==
    \A h \in Handlers : handlers[h].step = "commit" =>
      /\ row[handlers[h].agent].known
      /\ handlers[h].read.known /\ handlers[h].work.known
      /\ Complete(handlers[h].work.configuration)

IInv ==
    /\ TypeOK
    /\ StoredIsComplete /\ DefaultsAreComplete /\ CommitsAreComplete
    /\ AnswersAreRight /\ CachesAreRight

-----------------------------------------------------------------------------
(* The data. *)

LEMMA Times ==
  /\ Ttl \in Nat /\ Ttl # 0 /\ MaxAnswer \in Nat
  /\ Horizon \in Nat /\ Horizon = Ttl + MaxAnswer
BY TimeAssumption DEF Horizon

LEMMA NothingConfigured == [f \in Fields |-> Absent] \in Configurations
BY DEF Configurations

LEMMA BlankTyped == Blank \in Rows /\ BlankRows \in Snapshots /\ ~Blank.known
BY NothingConfigured DEF Blank, Rows, BlankRows, Snapshots

LEMMA IdleTyped ==
  /\ IdleCall \in CallStates /\ IdleCall.step = "idle"
  /\ IdleHandler \in HandlerStates /\ IdleHandler.step = "idle"
<1>1. (CHOOSE a \in Agents : TRUE) \in Agents BY AgentsAssumption
<1>2. NoDefinition \in Definitions BY NothingConfigured DEF NoDefinition, Definitions
<1>3. 0 \in 0 .. MaxAnswer BY Times
<1> QED BY <1>1, <1>2, <1>3, BlankTyped DEF IdleCall, IdleHandler, CallStates, HandlerStates

LEMMA NoCacheTyped == NoCache \in CacheStates /\ NoCache.since = Ttl
<1>1. Horizon \in 0 .. Horizon /\ Ttl \in 0 .. Ttl BY Times
<1> QED BY <1>1, BlankTyped DEF NoCache, CacheStates

\* The YAML of a release is a complete configuration of each agent.
LEMMA YamlIsComplete ==
  ASSUME NEW r \in Releases, NEW a \in Agents
  PROVE  Yaml[r][a] \in Configurations /\ Complete(Yaml[r][a])
BY YamlAssumption

LEMMA MergedTyped ==
  ASSUME NEW base \in Configurations, NEW r \in Rows
  PROVE  Effective(base, r) \in Definitions
<1> DEFINE merged == [f \in Fields |-> IF r.configuration[f] = Absent
                                       THEN base[f] ELSE r.configuration[f]]
<1>1. r.configuration \in Configurations /\ r.enabled \in BOOLEAN BY DEF Rows
<1>2. merged \in Configurations BY <1>1 DEF Configurations
<1>3. Merged(base, r) = [configuration |-> merged, enabled |-> r.enabled] BY DEF Merged
<1> HIDE DEF merged
<1>4. Merged(base, r) \in Definitions BY <1>1, <1>2, <1>3 DEF Definitions
<1>5. /\ [configuration |-> base, enabled |-> TRUE] \in Definitions
      /\ [configuration |-> base, enabled |-> r.enabled] \in Definitions
  BY <1>1 DEF Definitions
<1> QED BY <1>4, <1>5 DEF Effective

\* A call that has been resolved.
LEMMA ResolvedTyped ==
  ASSUME TypeOK, NEW p \in Processes, NEW a \in Agents, NEW rows \in Snapshots,
         NEW stored \in BOOLEAN
  PROVE  LET k == Resolved(p, a, rows, stored)
         IN  /\ k \in CallStates /\ k.step = "resolved" /\ k.agent = a /\ k.stored = stored
             /\ k.definition = Effective(Base(p, a), rows[a])
<1>1. release[p] \in Releases BY DEF TypeOK
<1>2. Base(p, a) \in Configurations BY <1>1, YamlIsComplete DEF Base
<1>3. rows[a] \in Rows BY DEF Snapshots
<1>4. Effective(Base(p, a), rows[a]) \in Definitions BY <1>2, <1>3, MergedTyped
<1> QED BY <1>4, IdleTyped DEF Resolved, CallStates

LEMMA CallsTyped ==
  ASSUME TypeOK, NEW p \in Processes, NEW c \in Calls
  PROVE  /\ calls \in [Processes -> [Calls -> CallStates]]
         /\ calls[p][c] \in CallStates
         /\ calls[p][c].agent \in Agents /\ calls[p][c].rows \in Snapshots
         /\ calls[p][c].age \in 0 .. MaxAnswer /\ calls[p][c].age \in Nat
<1>1. calls \in [Processes -> [Calls -> CallStates]] BY DEF TypeOK, CallStates
<1>2. calls[p][c] \in CallStates BY <1>1
<1>3. calls[p][c].agent \in Agents /\ calls[p][c].rows \in Snapshots
  BY <1>2 DEF CallStates
<1>4. calls[p][c].age \in 0 .. MaxAnswer BY <1>2 DEF CallStates
<1> QED BY <1>1, <1>2, <1>3, <1>4, Times

LEMMA CachesTyped ==
  ASSUME TypeOK, NEW p \in Processes
  PROVE  /\ cache \in [Processes -> CacheStates] /\ cache[p] \in CacheStates
         /\ cache[p].rows \in Snapshots
         /\ cache[p].age \in 0 .. Horizon /\ cache[p].age \in Nat
         /\ cache[p].since \in 0 .. Ttl /\ cache[p].since \in Nat
<1>1. cache \in [Processes -> CacheStates] /\ cache[p] \in CacheStates
  BY DEF TypeOK, CacheStates
<1>2. cache[p].rows \in Snapshots /\ cache[p].age \in 0 .. Horizon /\ cache[p].since \in 0 .. Ttl
  BY <1>1 DEF CacheStates
<1> QED BY <1>1, <1>2, Times

LEMMA HandlersTyped ==
  ASSUME TypeOK, NEW h \in Handlers
  PROVE  /\ handlers \in [Handlers -> HandlerStates] /\ handlers[h] \in HandlerStates
         /\ handlers[h].agent \in Agents
         /\ handlers[h].read \in Rows /\ handlers[h].work \in Rows
BY DEF TypeOK, HandlerStates

LEMMA RowsTyped ==
  ASSUME TypeOK, NEW a \in Agents
  PROVE  /\ row[a] \in Rows /\ row[a].known \in BOOLEAN /\ row[a].enabled \in BOOLEAN
         /\ row[a].configuration \in Configurations
         /\ quiet[a] \in 0 .. Horizon /\ quiet[a] \in Nat
<1>1. row[a] \in Rows BY DEF TypeOK, Snapshots
<1>2. quiet[a] \in 0 .. Horizon BY DEF TypeOK
<1> QED BY <1>1, <1>2, Times DEF Rows

LEMMA BlankColumns == DOMAIN Blank = {"known", "configuration", "enabled"}
BY DEF Blank

LEMMA SavedColumns ==
  ASSUME TypeOK, NEW h \in Handlers
  PROVE  /\ Saved(h) \in Rows
         /\ \A column \in {"known", "configuration", "enabled"} :
              Saved(h)[column] = IF handlers[h].work[column] # handlers[h].read[column]
                                 THEN handlers[h].work[column]
                                 ELSE row[handlers[h].agent][column]
<1> DEFINE n == Saved(h)
           r == row[handlers[h].agent]
           w == handlers[h].work
<1>1. r \in Rows /\ w \in Rows BY HandlersTyped, RowsTyped
<1>2. \A column \in {"known", "configuration", "enabled"} :
         n[column] = IF w[column] # handlers[h].read[column] THEN w[column] ELSE r[column]
  BY BlankColumns DEF Saved
<1>3. n = [known |-> n.known, configuration |-> n.configuration, enabled |-> n.enabled]
  BY BlankColumns DEF Saved
<1> HIDE DEF n, r, w
<1>4. n.known \in BOOLEAN /\ n.configuration \in Configurations /\ n.enabled \in BOOLEAN
  BY <1>1, <1>2 DEF Rows
<1>5. n \in Rows BY <1>3, <1>4 DEF Rows
<1> QED BY <1>2, <1>5 DEF n, r, w

-----------------------------------------------------------------------------
(* The steps. *)

\* A step of one call.
LEMMA CallStep ==
  ASSUME IInv, NEW p \in Processes, NEW c \in Calls, NEW x \in CallStates,
         calls' = [calls EXCEPT ![p][c] = x],
         x.step = "answer" => Right(x.rows, x.age),
         UNCHANGED <<row, default, quiet, release, running, handlers>>,
         cache' \in [Processes -> CacheStates], CachesAreRight'
  PROVE  IInv'
<1> USE DEF IInv
<1>1. calls \in [Processes -> [Calls -> CallStates]] BY CallsTyped
<1>2. calls' \in [Processes -> [Calls -> CallStates]] BY <1>1
<1>3. \A q \in Processes, d \in Calls : calls'[q][d] = x \/ calls'[q][d] = calls[q][d]
  BY <1>1
<1>4. TypeOK' BY <1>2 DEF TypeOK, CallStates, CacheStates
<1>5. ASSUME NEW q \in Processes, NEW d \in Calls, calls'[q][d].step = "answer"
      PROVE  Right(calls[q][d].rows, calls[q][d].age)'
  <2>1. CASE calls'[q][d] = x
    <3>1. Right(x.rows, x.age) BY <1>5, <2>1
    <3> QED BY <2>1, <3>1 DEF Right
  <2>2. CASE calls'[q][d] = calls[q][d]
    <3>1. Right(calls[q][d].rows, calls[q][d].age) BY <1>5, <2>2 DEF AnswersAreRight
    <3> QED BY <2>2, <3>1 DEF Right
  <2> QED BY <1>3, <2>1, <2>2
<1>6. AnswersAreRight' BY <1>5 DEF AnswersAreRight
<1> QED BY <1>4, <1>6 DEF StoredIsComplete, DefaultsAreComplete, CommitsAreComplete

\* A step of one request.
LEMMA HandlerStep ==
  ASSUME IInv, NEW h \in Handlers, NEW y \in HandlerStates,
         handlers' = [handlers EXCEPT ![h] = y],
         y.step = "commit" => /\ row[y.agent].known /\ y.read.known /\ y.work.known
                              /\ Complete(y.work.configuration),
         UNCHANGED <<row, default, quiet, release, running, cache, calls>>
  PROVE  IInv'
<1> USE DEF IInv
<1>1. handlers \in [Handlers -> HandlerStates] BY HandlersTyped
<1>2. handlers' \in [Handlers -> HandlerStates] BY <1>1
<1>3. \A g \in Handlers : handlers'[g] = y \/ handlers'[g] = handlers[g] BY <1>1
<1>4. TypeOK' BY <1>2 DEF TypeOK, HandlerStates
<1>5. CommitsAreComplete' BY <1>3 DEF CommitsAreComplete
<1> QED BY <1>4, <1>5 DEF StoredIsComplete, DefaultsAreComplete, AnswersAreRight,
                          CachesAreRight, Right

\* A step that changes rows: whatever it changes stops being quiet, so the snapshots
\* of before have nothing to be right about.
LEMMA RowStep ==
  ASSUME IInv, UNCHANGED <<cache, calls>>,
         \A a \in Agents : (row'[a] = row[a] /\ quiet'[a] = quiet[a]) \/ quiet'[a] = 0
  PROVE  AnswersAreRight' /\ CachesAreRight'
<1> USE DEF IInv
<1>1. ASSUME NEW rows, NEW age \in Nat, Right(rows, age)
      PROVE  \A a \in Agents : quiet'[a] > age => rows[a] = row'[a]
  <2> SUFFICES ASSUME NEW a \in Agents, quiet'[a] > age
               PROVE  rows[a] = row'[a]
    OBVIOUS
  <2>1. quiet'[a] # 0 OBVIOUS
  <2>2. row'[a] = row[a] /\ quiet'[a] = quiet[a] BY <2>1
  <2> QED BY <1>1, <2>2 DEF Right
<1>2. ASSUME NEW p \in Processes, NEW c \in Calls, calls'[p][c].step = "answer"
      PROVE  Right(calls[p][c].rows, calls[p][c].age)'
  <2>1. Right(calls[p][c].rows, calls[p][c].age) BY <1>2 DEF AnswersAreRight
  <2>2. calls[p][c].age \in Nat BY CallsTyped
  <2> QED BY <1>1, <2>1, <2>2 DEF Right
<1>3. ASSUME NEW p \in Processes, cache'[p].since < Ttl
      PROVE  /\ cache'[p].age <= cache'[p].since + MaxAnswer
             /\ Right(cache[p].rows, cache[p].age)'
  <2>1. /\ cache[p].age <= cache[p].since + MaxAnswer
        /\ Right(cache[p].rows, cache[p].age)
    BY <1>3 DEF CachesAreRight
  <2>2. cache[p].age \in Nat BY CachesTyped
  <2> QED BY <1>1, <2>1, <2>2 DEF Right
<1> QED BY <1>2, <1>3 DEF AnswersAreRight, CachesAreRight

LEMMA NothingChanges == ASSUME IInv, UNCHANGED vars PROVE IInv'
BY DEF vars, IInv, TypeOK, StoredIsComplete, DefaultsAreComplete, CommitsAreComplete,
       AnswersAreRight, CachesAreRight, Right

LEMMA RestartStep ==
  ASSUME IInv, NEW p \in Processes, NEW r \in Releases, Restart(p, r)
  PROVE  IInv'
<1> USE DEF IInv
<1>1. calls \in [Processes -> [Calls -> CallStates]] BY DEF TypeOK, CallStates
<1>2. cache \in [Processes -> CacheStates] BY DEF TypeOK, CacheStates
<1>3. [c \in Calls |-> IdleCall] \in [Calls -> CallStates] BY IdleTyped
<1>4. /\ calls' \in [Processes -> [Calls -> CallStates]]
      /\ \A q \in Processes, c \in Calls : calls'[q][c] = calls[q][c] \/ calls'[q][c] = IdleCall
  BY <1>1, <1>3 DEF Restart
<1>5. /\ cache' \in [Processes -> CacheStates]
      /\ \A q \in Processes : cache'[q] = cache[q] \/ cache'[q] = NoCache
  BY <1>2, NoCacheTyped DEF Restart
<1>6. UNCHANGED <<row, default, quiet, handlers>> BY DEF Restart
<1>7. release' \in [Processes -> Releases] /\ running' \in [Processes -> BOOLEAN]
  BY DEF Restart, TypeOK
<1>8. TypeOK' BY <1>4, <1>5, <1>6, <1>7 DEF TypeOK, CallStates, CacheStates
<1>9. AnswersAreRight'
  <2> SUFFICES ASSUME NEW q \in Processes, NEW c \in Calls, calls'[q][c].step = "answer"
               PROVE  Right(calls[q][c].rows, calls[q][c].age)'
    BY DEF AnswersAreRight
  <2>1. calls'[q][c] = calls[q][c] BY <1>4, IdleTyped
  <2>2. Right(calls[q][c].rows, calls[q][c].age) BY <2>1 DEF AnswersAreRight
  <2> QED BY <1>6, <2>1, <2>2 DEF Right
<1>10. CachesAreRight'
  <2> SUFFICES ASSUME NEW q \in Processes, cache'[q].since < Ttl
               PROVE  /\ cache'[q].age <= cache'[q].since + MaxAnswer
                      /\ Right(cache[q].rows, cache[q].age)'
    BY DEF CachesAreRight
  <2>1. cache'[q] = cache[q] BY <1>5, NoCacheTyped, Times
  <2>2. cache[q].age <= cache[q].since + MaxAnswer /\ Right(cache[q].rows, cache[q].age)
    BY <2>1 DEF CachesAreRight
  <2> QED BY <1>6, <2>1, <2>2 DEF Right
<1> QED BY <1>6, <1>8, <1>9, <1>10 DEF StoredIsComplete, DefaultsAreComplete, CommitsAreComplete

\* What a synchronisation writes.
LEMMA SyncedRows ==
  ASSUME TypeOK, StoredIsComplete, SyncAgents
  PROVE  /\ row' \in Snapshots /\ default' \in [Agents -> Configurations]
         /\ \A a \in Agents : /\ Complete(default'[a])
                              /\ row'[a].known /\ Complete(row'[a].configuration)
                              /\ row[a].known => row'[a] = row[a]
<1> DEFINE y == Yaml[release[Orchestrator]]
<1>1. release[Orchestrator] \in Releases BY ProcessAssumption DEF TypeOK
<1>2. y \in [Agents -> Configurations] BY <1>1, YamlAssumption
<1>3. \A a \in Agents : y[a] \in Configurations /\ Complete(y[a]) BY <1>1, YamlIsComplete
<1>4. default' = y BY DEF SyncAgents
<1> HIDE DEF y
<1>5. ASSUME NEW a \in Agents
      PROVE  /\ Inserted(a) \in Rows /\ Inserted(a).known /\ Complete(Inserted(a).configuration)
             /\ row[a].known => Inserted(a) = row[a]
  <2>1. CASE row[a].known
    <3>1. Inserted(a) = row[a] BY <2>1 DEF Inserted
    <3> QED BY <2>1, <3>1, RowsTyped DEF StoredIsComplete
  <2>2. CASE ~row[a].known
    <3>1. Inserted(a) = [known |-> TRUE, configuration |-> y[a], enabled |-> TRUE]
      BY <2>2 DEF Inserted, Seeded, y
    <3>2. Inserted(a).known /\ Inserted(a).configuration = y[a] BY <3>1
    <3> QED BY <1>3, <2>2, <3>1, <3>2 DEF Rows
  <2> QED BY <2>1, <2>2
<1>6. row' = [a \in Agents |-> Inserted(a)] BY DEF SyncAgents
<1>7. row' \in Snapshots BY <1>5, <1>6 DEF Snapshots
<1> QED BY <1>2, <1>3, <1>4, <1>5, <1>6, <1>7

LEMMA SyncStep == ASSUME IInv, SyncAgents PROVE IInv'
<1> USE DEF IInv
<1>1. /\ row' \in Snapshots /\ default' \in [Agents -> Configurations]
      /\ \A a \in Agents : /\ Complete(default'[a])
                           /\ row'[a].known /\ Complete(row'[a].configuration)
  BY SyncedRows
<1>2. quiet' = [a \in Agents |-> IF row'[a] = row[a] THEN quiet[a] ELSE 0]
  BY DEF SyncAgents
<1>3. UNCHANGED <<release, cache, calls, handlers>> BY DEF SyncAgents
<1>4. quiet \in [Agents -> 0 .. Horizon] /\ 0 \in 0 .. Horizon BY Times DEF TypeOK
<1>5. quiet' \in [Agents -> 0 .. Horizon] BY <1>2, <1>4
<1>6. \A a \in Agents : (row'[a] = row[a] /\ quiet'[a] = quiet[a]) \/ quiet'[a] = 0
  BY <1>2
<1>7. AnswersAreRight' /\ CachesAreRight' BY <1>3, <1>6, RowStep
<1>8. running' \in [Processes -> BOOLEAN] BY DEF SyncAgents, TypeOK
<1>9. TypeOK' BY <1>1, <1>3, <1>5, <1>8 DEF TypeOK
<1>10. StoredIsComplete' /\ DefaultsAreComplete'
  BY <1>1 DEF StoredIsComplete, DefaultsAreComplete
<1>11. CommitsAreComplete'
  <2>1. \A h \in Handlers : handlers[h].agent \in Agents BY HandlersTyped
  <2> QED BY <1>1, <1>3, <2>1 DEF CommitsAreComplete
<1> QED BY <1>7, <1>9, <1>10, <1>11

LEMMA SyncGivesUpStep == ASSUME IInv, SyncGivesUp PROVE IInv'
<1> USE DEF IInv
<1>1. running' \in [Processes -> BOOLEAN] BY DEF SyncGivesUp, TypeOK
<1>2. UNCHANGED <<row, default, quiet, release, cache, calls, handlers>> BY DEF SyncGivesUp
<1> QED BY <1>1, <1>2 DEF TypeOK, StoredIsComplete, DefaultsAreComplete, CommitsAreComplete,
                          AnswersAreRight, CachesAreRight, Right

\* A step of one call that leaves the caches alone.
LEMMA PlainCallStep ==
  ASSUME IInv, NEW p \in Processes, NEW c \in Calls, NEW x \in CallStates,
         calls' = [calls EXCEPT ![p][c] = x],
         x.step = "answer" => Right(x.rows, x.age),
         UNCHANGED <<row, default, quiet, release, running, cache, handlers>>
  PROVE  IInv'
<1>1. cache' \in [Processes -> CacheStates] BY DEF IInv, TypeOK, CacheStates
<1>2. CachesAreRight' BY DEF IInv, CachesAreRight, Right
<1> QED BY <1>1, <1>2, CallStep

LEMMA AskCachedStep ==
  ASSUME IInv, NEW p \in Processes, NEW c \in Calls, NEW a \in Agents, AskCached(p, c, a)
  PROVE  IInv'
<1> DEFINE x == Resolved(p, a, cache[p].rows, TRUE)
<1>1. TypeOK BY DEF IInv
<1>2. x \in CallStates /\ x.step = "resolved" BY <1>1, CachesTyped, ResolvedTyped
<1>3. /\ calls' = [calls EXCEPT ![p][c] = x]
      /\ UNCHANGED <<row, default, quiet, release, running, cache, handlers>>
  BY DEF AskCached
<1> HIDE DEF x
<1> QED BY <1>2, <1>3, PlainCallStep

LEMMA AskDatabaseStep ==
  ASSUME IInv, NEW p \in Processes, NEW c \in Calls, NEW a \in Agents, AskDatabase(p, c, a)
  PROVE  IInv'
<1> DEFINE x == [IdleCall EXCEPT !.step = "query", !.agent = a]
<1>1. x \in CallStates /\ x.step = "query" BY IdleTyped DEF CallStates
<1>2. /\ calls' = [calls EXCEPT ![p][c] = x]
      /\ UNCHANGED <<row, default, quiet, release, running, cache, handlers>>
  BY DEF AskDatabase
<1> HIDE DEF x
<1> QED BY <1>1, <1>2, PlainCallStep

LEMMA ReadRowsStep ==
  ASSUME IInv, NEW p \in Processes, NEW c \in Calls, ReadRows(p, c)
  PROVE  IInv'
<1> DEFINE x == [calls[p][c] EXCEPT !.step = "answer", !.rows = row]
<1>1. TypeOK BY DEF IInv
<1>2. row \in Snapshots BY <1>1 DEF TypeOK
<1>3. x \in CallStates /\ x.rows = row BY <1>1, <1>2, CallsTyped DEF CallStates
<1>4. Right(row, x.age) BY DEF Right
<1>5. calls \in [Processes -> [Calls -> CallStates]] BY <1>1, CallsTyped
<1>6. calls' = [calls EXCEPT ![p][c] = x] BY <1>5 DEF ReadRows
<1>7. UNCHANGED <<row, default, quiet, release, running, cache, handlers>> BY DEF ReadRows
<1> HIDE DEF x
<1> QED BY <1>3, <1>4, <1>6, <1>7, PlainCallStep

LEMMA StoreRowsStep ==
  ASSUME IInv, NEW p \in Processes, NEW c \in Calls, StoreRows(p, c)
  PROVE  IInv'
<1> DEFINE k == calls[p][c]
           x == Resolved(p, k.agent, k.rows, TRUE)
           y == [rows |-> k.rows, age |-> k.age, since |-> 0]
<1>1. TypeOK BY DEF IInv
<1>2. k.agent \in Agents /\ k.rows \in Snapshots /\ k.age \in 0 .. MaxAnswer
  BY <1>1, CallsTyped
<1>3. x \in CallStates /\ x.step = "resolved" BY <1>1, <1>2, ResolvedTyped
<1>4. k.age \in 0 .. Horizon /\ 0 \in 0 .. Ttl /\ k.age <= 0 + MaxAnswer BY <1>2, Times
<1>5. y \in CacheStates BY <1>2, <1>4 DEF CacheStates
<1>6. y.rows = k.rows /\ y.age = k.age /\ y.since = 0 OBVIOUS
<1>7. Right(k.rows, k.age) BY DEF IInv, AnswersAreRight, StoreRows
<1>8. /\ calls' = [calls EXCEPT ![p][c] = x] /\ cache' = [cache EXCEPT ![p] = y]
      /\ UNCHANGED <<row, default, quiet, release, running, handlers>>
  BY DEF StoreRows
<1> HIDE DEF x, y, k
<1>9. cache \in [Processes -> CacheStates] BY <1>1 DEF TypeOK, CacheStates
<1>10. /\ cache' \in [Processes -> CacheStates]
       /\ \A q \in Processes : cache'[q] = cache[q] \/ cache'[q] = y
  BY <1>5, <1>8, <1>9
<1>11. CachesAreRight'
  <2> SUFFICES ASSUME NEW q \in Processes, cache'[q].since < Ttl
               PROVE  /\ cache'[q].age <= cache'[q].since + MaxAnswer
                      /\ Right(cache[q].rows, cache[q].age)'
    BY DEF CachesAreRight
  <2>1. CASE cache'[q] = cache[q]
    <3>1. cache[q].age <= cache[q].since + MaxAnswer /\ Right(cache[q].rows, cache[q].age)
      BY <2>1 DEF IInv, CachesAreRight
    <3> QED BY <1>8, <2>1, <3>1 DEF Right
  <2>2. CASE cache'[q] = y
    <3>1. cache'[q].rows = k.rows /\ cache'[q].age = k.age /\ cache'[q].since = 0
      BY <1>6, <2>2
    <3> QED BY <1>4, <1>7, <1>8, <3>1 DEF Right
  <2> QED BY <1>10, <2>1, <2>2
<1> QED BY <1>3, <1>8, <1>10, <1>11, CallStep

LEMMA LoadFailsStep ==
  ASSUME IInv, NEW p \in Processes, NEW c \in Calls, LoadFails(p, c)
  PROVE  IInv'
<1> DEFINE x == Resolved(p, calls[p][c].agent, BlankRows, FALSE)
<1>1. TypeOK BY DEF IInv
<1>2. x \in CallStates /\ x.step = "resolved" BY <1>1, CallsTyped, BlankTyped, ResolvedTyped
<1>3. calls \in [Processes -> [Calls -> CallStates]] BY <1>1, CallsTyped
<1>4. calls' = [calls EXCEPT ![p][c] = x] BY <1>3 DEF LoadFails
<1>5. UNCHANGED <<row, default, quiet, release, running, cache, handlers>> BY DEF LoadFails
<1> HIDE DEF x
<1> QED BY <1>2, <1>4, <1>5, PlainCallStep

LEMMA ReturnStep ==
  ASSUME IInv, NEW p \in Processes, NEW c \in Calls, Return(p, c)
  PROVE  IInv'
<1>1. IdleCall \in CallStates /\ IdleCall.step = "idle" BY IdleTyped
<1> QED BY <1>1, PlainCallStep DEF Return

LEMMA LoadAgentStep ==
  ASSUME IInv, NEW h \in Handlers, NEW a \in Agents, NEW configuration \in Configurations,
         NEW enabled \in BOOLEAN, Complete(configuration),
         LoadAgent(h, a, configuration, enabled)
  PROVE  IInv'
<1> DEFINE w == [known |-> TRUE, configuration |-> configuration, enabled |-> enabled]
           y == [step |-> "commit", agent |-> a, read |-> row[a], work |-> w]
<1>1. TypeOK BY DEF IInv
<1>2. row[a] \in Rows BY <1>1, RowsTyped
<1>3. w \in Rows /\ w.known /\ w.configuration = configuration BY DEF Rows
<1>4. row[a].known BY DEF LoadAgent
<1> HIDE DEF w
<1>5. y \in HandlerStates BY <1>2, <1>3 DEF HandlerStates
<1>6. /\ row[y.agent].known /\ y.read.known /\ y.work.known
      /\ Complete(y.work.configuration)
  BY <1>3, <1>4
<1>7. /\ handlers' = [handlers EXCEPT ![h] = y]
      /\ UNCHANGED <<row, default, quiet, release, running, cache, calls>>
  BY DEF LoadAgent, w, process
<1> HIDE DEF y
<1> QED BY <1>5, <1>6, <1>7, HandlerStep

LEMMA UpdateAgentStep ==
  ASSUME IInv, NEW h \in Handlers, NEW a \in Agents,
         NEW body \in [Fields -> Values \cup {Absent, Keep}], NEW enabled \in BOOLEAN \cup {Keep},
         UpdateAgent(h, a, body, enabled)
  PROVE  IInv'
<1> DEFINE e == IF enabled = Keep THEN row[a].enabled ELSE enabled
<1>1. TypeOK BY DEF IInv
<1>2. row[a].configuration \in Configurations /\ row[a].enabled \in BOOLEAN BY <1>1, RowsTyped
<1>3. Edited(a, body) \in Configurations BY <1>2 DEF Edited, Configurations
<1>4. e \in BOOLEAN BY <1>2
<1>5. LoadAgent(h, a, Edited(a, body), e) BY DEF UpdateAgent
<1>6. Complete(Edited(a, body))
  <2>1. CASE Edited(a, body) = row[a].configuration
    <3>1. row[a].known BY DEF UpdateAgent, LoadAgent
    <3> QED BY <2>1, <3>1 DEF IInv, StoredIsComplete
  <2>2. CASE Edited(a, body) # row[a].configuration
    BY <2>2 DEF UpdateAgent
  <2> QED BY <2>1, <2>2
<1> HIDE DEF e
<1> QED BY <1>3, <1>4, <1>5, <1>6, LoadAgentStep

LEMMA ResetAgentStep ==
  ASSUME IInv, NEW h \in Handlers, NEW a \in Agents, ResetAgent(h, a)
  PROVE  IInv'
<1>1. default[a] \in Configurations BY DEF IInv, TypeOK
<1>2. Complete(default[a]) BY DEF IInv, DefaultsAreComplete, ResetAgent
<1>3. LoadAgent(h, a, default[a], TRUE) BY DEF ResetAgent
<1> QED BY <1>1, <1>2, <1>3, LoadAgentStep

\* A commit keeps a row known and its configuration complete.
LEMMA SavedIsComplete ==
  ASSUME IInv, NEW h \in Handlers, handlers[h].step = "commit"
  PROVE  Saved(h).known /\ Complete(Saved(h).configuration)
<1> DEFINE a == handlers[h].agent
<1>1. TypeOK BY DEF IInv
<1>2. a \in Agents /\ handlers[h].work \in Rows /\ handlers[h].read \in Rows
  BY <1>1, HandlersTyped
<1>3. /\ row[a].known /\ handlers[h].read.known /\ handlers[h].work.known
      /\ Complete(handlers[h].work.configuration)
  BY DEF IInv, CommitsAreComplete
<1>4. Complete(row[a].configuration) BY <1>2, <1>3 DEF IInv, StoredIsComplete
<1>5. Saved(h).known \in {handlers[h].work.known, row[a].known} BY <1>1, SavedColumns
<1>6. \/ Saved(h).configuration = handlers[h].work.configuration
      \/ Saved(h).configuration = row[a].configuration
  BY <1>1, SavedColumns
<1> QED BY <1>3, <1>4, <1>5, <1>6

LEMMA CommitStep == ASSUME IInv, NEW h \in Handlers, Commit(h) PROVE IInv'
<1> DEFINE a == handlers[h].agent
<1>1. TypeOK BY DEF IInv
<1>2. a \in Agents BY <1>1, HandlersTyped
<1>3. /\ handlers[h].step = "commit"
      /\ row' = [row EXCEPT ![a] = Saved(h)]
      /\ quiet' = [quiet EXCEPT ![a] = IF row'[a] = row[a] THEN quiet[a] ELSE 0]
      /\ handlers' = [handlers EXCEPT ![h] = IdleHandler]
      /\ UNCHANGED <<default, release, running, cache, calls>>
  BY <1>1, <1>2 DEF Commit, process, TypeOK
<1>4. Saved(h) \in Rows BY <1>1, SavedColumns
<1>5. Saved(h).known /\ Complete(Saved(h).configuration) BY <1>3, SavedIsComplete
<1> HIDE DEF a
<1>6. row \in [Agents -> Rows] BY <1>1 DEF TypeOK, Snapshots
<1>7. /\ row' \in Snapshots /\ row'[a] = Saved(h)
      /\ \A b \in Agents : b # a => row'[b] = row[b]
  BY <1>2, <1>3, <1>4, <1>6 DEF Snapshots
<1>8. quiet \in [Agents -> 0 .. Horizon] /\ 0 \in 0 .. Horizon BY <1>1, Times DEF TypeOK
<1>9. /\ quiet' \in [Agents -> 0 .. Horizon]
      /\ quiet'[a] = IF row'[a] = row[a] THEN quiet[a] ELSE 0
      /\ \A b \in Agents : b # a => quiet'[b] = quiet[b]
  BY <1>2, <1>3, <1>8
<1>10. \A b \in Agents : (row'[b] = row[b] /\ quiet'[b] = quiet[b]) \/ quiet'[b] = 0
  BY <1>7, <1>9
<1>11. AnswersAreRight' /\ CachesAreRight' BY <1>3, <1>10, RowStep
<1>12. handlers \in [Handlers -> HandlerStates] BY <1>1, HandlersTyped
<1>13. /\ handlers' \in [Handlers -> HandlerStates]
       /\ \A g \in Handlers : handlers'[g] = handlers[g] \/ handlers'[g] = IdleHandler
  BY <1>3, <1>12, IdleTyped
<1>14. TypeOK' BY <1>1, <1>3, <1>7, <1>9, <1>13 DEF TypeOK, HandlerStates
<1>15. StoredIsComplete'
  <2> SUFFICES ASSUME NEW b \in Agents, row'[b].known
               PROVE  Complete(row'[b].configuration)
    BY DEF StoredIsComplete
  <2>1. b = a \/ row'[b] = row[b] BY <1>7
  <2> QED BY <1>5, <1>7, <2>1 DEF IInv, StoredIsComplete
<1>16. CommitsAreComplete'
  <2> SUFFICES ASSUME NEW g \in Handlers, handlers'[g].step = "commit"
               PROVE  /\ row'[handlers'[g].agent].known
                      /\ handlers'[g].read.known /\ handlers'[g].work.known
                      /\ Complete(handlers'[g].work.configuration)
    BY DEF CommitsAreComplete
  <2>1. handlers'[g] = handlers[g] BY <1>13, IdleTyped
  <2>2. handlers[g].agent \in Agents BY <1>1, HandlersTyped
  <2>3. /\ row[handlers[g].agent].known
        /\ handlers[g].read.known /\ handlers[g].work.known
        /\ Complete(handlers[g].work.configuration)
    BY <2>1 DEF IInv, CommitsAreComplete
  <2>4. row'[handlers[g].agent].known BY <1>5, <1>7, <2>2, <2>3
  <2> QED BY <2>1, <2>3, <2>4
<1> QED BY <1>3, <1>11, <1>14, <1>15, <1>16 DEF IInv, DefaultsAreComplete

LEMMA RollBackStep == ASSUME IInv, NEW h \in Handlers, RollBack(h) PROVE IInv'
<1>1. IdleHandler \in HandlerStates /\ IdleHandler.step = "idle" BY IdleTyped
<1>2. /\ handlers' = [handlers EXCEPT ![h] = IdleHandler]
      /\ UNCHANGED <<row, default, quiet, release, running, cache, calls>>
  BY DEF RollBack, process
<1> QED BY <1>1, <1>2, HandlerStep

LEMMA AgedBounds ==
  ASSUME NEW limit \in Nat, NEW age \in 0 .. limit
  PROVE  /\ Aged(age, limit) \in 0 .. limit /\ Aged(age, limit) \in Nat
         /\ Aged(age, limit) <= age + 1
         /\ Aged(age, limit) < limit => Aged(age, limit) = age + 1
BY DEF Aged

\* A snapshot ages with the rows it is right about.
LEMMA RightStaysRight ==
  ASSUME IInv, Tick, NEW rows, NEW age \in Nat, Right(rows, age)
  PROVE  \A a \in Agents : quiet'[a] > age + 1 => rows[a] = row'[a]
<1> SUFFICES ASSUME NEW a \in Agents, quiet'[a] > age + 1
             PROVE  rows[a] = row'[a]
  OBVIOUS
<1>1. quiet[a] \in 0 .. Horizon /\ quiet[a] \in Nat /\ Horizon \in Nat
  BY RowsTyped, Times DEF IInv
<1>2. quiet'[a] = Aged(quiet[a], Horizon) BY DEF Tick
<1>3. Aged(quiet[a], Horizon) \in Nat /\ Aged(quiet[a], Horizon) <= quiet[a] + 1
  BY <1>1, AgedBounds
<1>4. Aged(quiet[a], Horizon) > age + 1 BY <1>2
<1>5. quiet[a] > age BY <1>1, <1>3, <1>4
<1>6. row'[a] = row[a] BY DEF Tick
<1> QED BY <1>5, <1>6 DEF Right

LEMMA TickStep == ASSUME IInv, Tick PROVE IInv'
<1>1. TypeOK BY DEF IInv
<1>2. UNCHANGED <<row, default, release, running, handlers>> BY DEF Tick
<1>3. quiet' \in [Agents -> 0 .. Horizon]
  <2>1. \A a \in Agents : Aged(quiet[a], Horizon) \in 0 .. Horizon
    BY <1>1, RowsTyped, Times, AgedBounds
  <2>2. quiet' = [a \in Agents |-> Aged(quiet[a], Horizon)] BY DEF Tick
  <2> QED BY <2>1, <2>2
<1>4. ASSUME NEW p \in Processes
      PROVE  /\ cache'[p] \in CacheStates /\ cache'[p].rows = cache[p].rows
             /\ cache'[p].age = Aged(cache[p].age, Horizon)
             /\ cache'[p].since = Aged(cache[p].since, Ttl)
  <2>1. cache'[p] = [cache[p] EXCEPT !.age = Aged(@, Horizon), !.since = Aged(@, Ttl)]
    BY DEF Tick
  <2>2. cache[p] \in CacheStates /\ cache[p].age \in 0 .. Horizon /\ cache[p].since \in 0 .. Ttl
    BY <1>1, CachesTyped
  <2>3. Aged(cache[p].age, Horizon) \in 0 .. Horizon /\ Aged(cache[p].since, Ttl) \in 0 .. Ttl
    BY <2>2, Times, AgedBounds
  <2> QED BY <2>1, <2>2, <2>3 DEF CacheStates
<1>5. cache' \in [Processes -> CacheStates]
  <2>1. cache' = [p \in Processes |-> cache'[p]] BY DEF Tick
  <2> QED BY <1>4, <2>1
<1>6. ASSUME NEW p \in Processes, NEW c \in Calls
      PROVE  /\ calls'[p][c] \in CallStates
             /\ calls'[p][c].step = calls[p][c].step /\ calls'[p][c].rows = calls[p][c].rows
             /\ calls[p][c].step = "answer" => calls'[p][c].age = calls[p][c].age + 1
  <2> DEFINE n == IF calls[p][c].step = "answer" THEN calls[p][c].age + 1 ELSE calls[p][c].age
  <2>1. calls[p][c] \in CallStates /\ calls[p][c].age \in 0 .. MaxAnswer
    BY <1>1, CallsTyped
  <2>2. calls[p][c].step = "answer" => calls[p][c].age < MaxAnswer BY DEF Tick
  <2>3. n \in 0 .. MaxAnswer BY <2>1, <2>2, Times
  <2>4. calls'[p][c] = [calls[p][c] EXCEPT !.age = n] BY DEF Tick
  <2>5. calls[p][c].step = "answer" => n = calls[p][c].age + 1 OBVIOUS
  <2> HIDE DEF n
  <2> QED BY <2>1, <2>3, <2>4, <2>5 DEF CallStates
<1>7. calls' \in [Processes -> [Calls -> CallStates]]
  <2>1. calls' = [p \in Processes |-> [c \in Calls |-> calls'[p][c]]] BY DEF Tick
  <2> QED BY <1>6, <2>1
<1>8. TypeOK' BY <1>1, <1>2, <1>3, <1>5, <1>7 DEF TypeOK, CallStates, CacheStates
<1>9. AnswersAreRight'
  <2> SUFFICES ASSUME NEW p \in Processes, NEW c \in Calls, calls'[p][c].step = "answer"
               PROVE  Right(calls[p][c].rows, calls[p][c].age)'
    BY DEF AnswersAreRight
  <2>1. /\ calls[p][c].step = "answer" /\ calls'[p][c].age = calls[p][c].age + 1
        /\ calls'[p][c].rows = calls[p][c].rows
    BY <1>6
  <2>2. Right(calls[p][c].rows, calls[p][c].age) BY <2>1 DEF IInv, AnswersAreRight
  <2>3. calls[p][c].age \in Nat BY <1>1, CallsTyped
  <2>4. \A a \in Agents : quiet'[a] > calls[p][c].age + 1 => calls[p][c].rows[a] = row'[a]
    BY <2>2, <2>3, RightStaysRight
  <2> QED BY <2>1, <2>4 DEF Right
<1>10. CachesAreRight'
  <2> SUFFICES ASSUME NEW p \in Processes, cache'[p].since < Ttl
               PROVE  /\ cache'[p].age <= cache'[p].since + MaxAnswer
                      /\ Right(cache[p].rows, cache[p].age)'
    BY DEF CachesAreRight
  <2> DEFINE s == cache[p].since
             g == cache[p].age
  <2>1. s \in 0 .. Ttl /\ g \in 0 .. Horizon BY <1>1, CachesTyped
  <2>2. cache'[p].since = Aged(s, Ttl) /\ cache'[p].age = Aged(g, Horizon) BY <1>4
  <2>3. cache'[p].rows = cache[p].rows BY <1>4
  <2> HIDE DEF s, g
  <2>4. Aged(s, Ttl) < Ttl BY <2>2
  <2>5. Aged(s, Ttl) = s + 1 /\ s < Ttl BY <2>1, <2>4, Times, AgedBounds DEF Aged
  <2>6. g <= s + MaxAnswer /\ Right(cache[p].rows, g)
    BY <2>5 DEF IInv, CachesAreRight, s, g
  <2>7. Aged(g, Horizon) <= g + 1 /\ Aged(g, Horizon) \in Nat BY <2>1, Times, AgedBounds
  <2>8. Aged(g, Horizon) <= (s + 1) + MaxAnswer BY <2>1, <2>6, <2>7, Times
  <2>9. \A a \in Agents : quiet'[a] > g + 1 => cache[p].rows[a] = row'[a]
    BY <2>1, <2>6, Times, RightStaysRight
  <2>10. ASSUME NEW a \in Agents, quiet'[a] > Aged(g, Horizon)
         PROVE  cache[p].rows[a] = row'[a]
    <3>1. quiet'[a] = Aged(quiet[a], Horizon) BY DEF Tick
    <3>2. quiet[a] \in 0 .. Horizon BY <1>1, RowsTyped
    <3>3. Aged(quiet[a], Horizon) \in 0 .. Horizon BY <3>2, Times, AgedBounds
    <3>4. Aged(quiet[a], Horizon) > Aged(g, Horizon) BY <2>10, <3>1
    <3>5. Aged(g, Horizon) < Horizon BY <2>7, <3>3, <3>4, Times
    <3>6. Aged(g, Horizon) = g + 1 BY <2>1, <3>5, Times, AgedBounds
    <3>7. quiet'[a] > g + 1 BY <2>10, <3>6
    <3> QED BY <2>9, <3>7
  <2> QED BY <2>2, <2>3, <2>5, <2>8, <2>10 DEF Right
<1> QED BY <1>2, <1>8, <1>9, <1>10 DEF IInv, StoredIsComplete, DefaultsAreComplete,
                                     CommitsAreComplete

-----------------------------------------------------------------------------
(* The theorems. *)

LEMMA InvInit == Init => IInv
<1> SUFFICES ASSUME Init PROVE IInv
  OBVIOUS
<1>1. Horizon \in 0 .. Horizon BY Times
<1>2. release \in [Processes -> Releases] BY DEF Init
<1>3. /\ row \in Snapshots /\ \A a \in Agents : ~row[a].known
      /\ default \in [Agents -> Configurations]
      /\ \A a \in Agents, f \in Fields : default[a][f] = Absent
  <2>1. \A a \in Agents : BlankRows[a] = Blank BY DEF BlankRows
  <2>2. Blank.configuration = [f \in Fields |-> Absent] BY DEF Blank
  <2> QED BY <2>1, <2>2, BlankTyped, NothingConfigured DEF Init
<1>4. quiet \in [Agents -> 0 .. Horizon] BY <1>1 DEF Init
<1>5. running \in [Processes -> BOOLEAN] BY DEF Init
<1>6. cache \in [Processes -> CacheStates] /\ \A p \in Processes : cache[p].since = Ttl
  BY NoCacheTyped DEF Init
<1>7. /\ calls \in [Processes -> [Calls -> CallStates]]
      /\ \A p \in Processes, c \in Calls : calls[p][c].step = "idle"
  BY IdleTyped DEF Init
<1>8. /\ handlers \in [Handlers -> HandlerStates]
      /\ \A h \in Handlers : handlers[h].step = "idle"
  BY IdleTyped DEF Init
<1>9. TypeOK
  BY <1>2, <1>3, <1>4, <1>5, <1>6, <1>7, <1>8 DEF TypeOK, CacheStates, CallStates, HandlerStates
<1>10. StoredIsComplete /\ DefaultsAreComplete BY <1>3 DEF StoredIsComplete, DefaultsAreComplete
<1>11. CommitsAreComplete /\ AnswersAreRight
  BY <1>7, <1>8 DEF CommitsAreComplete, AnswersAreRight
<1>12. CachesAreRight BY <1>6, Times DEF CachesAreRight
<1> QED BY <1>9, <1>10, <1>11, <1>12 DEF IInv

LEMMA InvNext == IInv /\ [Next]_vars => IInv'
<1> SUFFICES ASSUME IInv, [Next]_vars PROVE IInv'
  OBVIOUS
<1>1. CASE UNCHANGED vars BY <1>1, NothingChanges
<1>2. ASSUME NEW p \in Processes, NEW r \in Releases, Restart(p, r) PROVE IInv'
  BY <1>2, RestartStep
<1>3. CASE SyncAgents BY <1>3, SyncStep
<1>4. CASE SyncGivesUp BY <1>4, SyncGivesUpStep
<1>5. ASSUME NEW p \in Processes, NEW c \in Calls, NEW a \in Agents,
             AskCached(p, c, a) \/ AskDatabase(p, c, a)
      PROVE  IInv'
  BY <1>5, AskCachedStep, AskDatabaseStep
<1>6. ASSUME NEW p \in Processes, NEW c \in Calls,
             ReadRows(p, c) \/ StoreRows(p, c) \/ LoadFails(p, c) \/ Return(p, c)
      PROVE  IInv'
  BY <1>6, ReadRowsStep, StoreRowsStep, LoadFailsStep, ReturnStep
<1>7. ASSUME NEW h \in Handlers, NEW a \in Agents,
             NEW body \in [Fields -> Values \cup {Absent, Keep}],
             NEW enabled \in BOOLEAN \cup {Keep}, UpdateAgent(h, a, body, enabled)
      PROVE  IInv'
  BY <1>7, UpdateAgentStep
<1>8. ASSUME NEW h \in Handlers, NEW a \in Agents, ResetAgent(h, a) PROVE IInv'
  BY <1>8, ResetAgentStep
<1>9. ASSUME NEW h \in Handlers, Commit(h) \/ RollBack(h) PROVE IInv'
  BY <1>9, CommitStep, RollBackStep
<1>10. CASE Tick BY <1>10, TickStep
<1> QED BY <1>1, <1>2, <1>3, <1>4, <1>5, <1>6, <1>7, <1>8, <1>9, <1>10 DEF Next

\* The inductive invariant holds in every state.
THEOREM Invariance == Spec => []IInv
BY InvInit, InvNext, PTL DEF Spec

\* Every row, cache, call and request has the type its code gives it.
THEOREM TypeCorrect == Spec => []TypeOK
<1>1. IInv => TypeOK BY DEF IInv
<1> QED BY <1>1, Invariance, PTL

\* What the table holds always satisfies the contract: no edit, reset or
\* synchronisation, in whatever order they commit, stores less.
THEOREM CompleteAlways == Spec => []StoredIsComplete
<1>1. IInv => StoredIsComplete BY DEF IInv
<1> QED BY <1>1, Invariance, PTL

\* A column that a person saved is changed only by a request that changes that column.
THEOREM EditsAreKept == Spec => EditsStay
<1> DEFINE A == \A a \in Agents, column \in {"configuration", "enabled"} :
                  row[a].known /\ row'[a][column] # row[a][column]
                    => \E h \in Handlers :
                         /\ handlers[h].step = "commit" /\ handlers[h].agent = a
                         /\ handlers[h].read[column] # handlers[h].work[column]
                         /\ handlers[h].work[column] = row'[a][column]
<1>1. IInv /\ [Next]_vars => [A]_vars
  <2> SUFFICES ASSUME IInv, Next,
                      NEW a \in Agents, NEW column \in {"configuration", "enabled"},
                      row[a].known, row'[a][column] # row[a][column]
               PROVE  \E h \in Handlers :
                        /\ handlers[h].step = "commit" /\ handlers[h].agent = a
                        /\ handlers[h].read[column] # handlers[h].work[column]
                        /\ handlers[h].work[column] = row'[a][column]
    OBVIOUS
  <2>1. row' # row OBVIOUS
  <2>2. ~SyncAgents
    <3>1. IInv => TypeOK /\ StoredIsComplete BY DEF IInv
    <3> QED BY <3>1, SyncedRows
  <2>3. PICK h \in Handlers : Commit(h)
    BY <2>1, <2>2 DEF Next, Restart, SyncGivesUp, AskCached, AskDatabase, ReadRows, StoreRows,
                      LoadFails, Return, UpdateAgent, ResetAgent, LoadAgent, RollBack, Tick
  <2>4. TypeOK BY DEF IInv
  <2>5. handlers[h].step = "commit" /\ row' = [row EXCEPT ![handlers[h].agent] = Saved(h)]
    BY <2>3 DEF Commit
  <2>6. row \in [Agents -> Rows] BY <2>4 DEF TypeOK, Snapshots
  <2>7. handlers[h].agent = a BY <2>5, <2>6
  <2>8. row'[a] = Saved(h) BY <2>5, <2>6, <2>7
  <2>9. Saved(h)[column] = IF handlers[h].work[column] # handlers[h].read[column]
                           THEN handlers[h].work[column] ELSE row[a][column]
    BY <2>4, <2>7, SavedColumns
  <2> QED BY <2>5, <2>7, <2>8, <2>9
<1>2. Spec => [][A]_vars BY <1>1, Invariance, PTL DEF Spec
<1> QED BY <1>2 DEF EditsStay

\* The row that decides has been quiet for longer than any snapshot in use is old.
THEOREM StalenessBounded == Spec => BoundedStaleness
<1> DEFINE Decides(p, c) ==
             LET k == calls'[p][c]
             IN  /\ calls[p][c].step # "resolved" /\ k.step = "resolved" /\ k.stored
                 /\ quiet[k.agent] = Horizon
                 => k.definition = Effective(Base(p, k.agent), row[k.agent])
           A == \A p \in Processes, c \in Calls : Decides(p, c)
<1>1. IInv /\ [Next]_vars => [A]_vars
  <2> SUFFICES ASSUME IInv, Next, NEW p \in Processes, NEW c \in Calls,
                      calls[p][c].step # "resolved", calls'[p][c].step = "resolved",
                      calls'[p][c].stored, quiet[calls'[p][c].agent] = Horizon
               PROVE  calls'[p][c].definition
                        = Effective(Base(p, calls'[p][c].agent), row[calls'[p][c].agent])
    OBVIOUS
  <2>1. TypeOK /\ AnswersAreRight /\ CachesAreRight BY DEF IInv
  <2>2. calls \in [Processes -> [Calls -> CallStates]] BY <2>1, CallsTyped
  <2>3. calls'[p][c] # calls[p][c] OBVIOUS
  \* Of a resolution the invariant knows what it was resolved from.
  <2>4. ASSUME NEW a \in Agents, NEW rows \in Snapshots, NEW stored \in BOOLEAN,
               calls'[p][c] = Resolved(p, a, rows, stored),
               stored => \A b \in Agents : quiet[b] = Horizon => rows[b] = row[b]
        PROVE  calls'[p][c].definition
                 = Effective(Base(p, calls'[p][c].agent), row[calls'[p][c].agent])
    <3> DEFINE x == Resolved(p, a, rows, stored)
    <3>1. x.agent = a /\ x.stored = stored /\ x.definition = Effective(Base(p, a), rows[a])
      BY <2>1, ResolvedTyped
    <3>2. calls'[p][c] = x BY <2>4
    <3> HIDE DEF x
    <3>3. stored BY <3>1, <3>2
    <3>4. rows[a] = row[a] BY <2>4, <3>1, <3>2, <3>3
    <3> QED BY <3>1, <3>2, <3>4
  \* Only a step of this very call resolves it.
  <2>5. ASSUME NEW x, NEW q \in Processes, NEW d \in Calls, calls' = [calls EXCEPT ![q][d] = x]
        PROVE  q = p /\ d = c /\ calls'[p][c] = x
    BY <2>2, <2>3, <2>5
  <2>6. ASSUME NEW q \in Processes, NEW d \in Calls, NEW a \in Agents, AskCached(q, d, a)
        PROVE  calls'[p][c].definition
                 = Effective(Base(p, calls'[p][c].agent), row[calls'[p][c].agent])
    <3> DEFINE x == Resolved(q, a, cache[q].rows, TRUE)
    <3>1. calls' = [calls EXCEPT ![q][d] = x] BY <2>6 DEF AskCached
    <3> HIDE DEF x
    <3>2. q = p /\ calls'[p][c] = x BY <2>5, <3>1
    <3>3. calls'[p][c] = Resolved(p, a, cache[p].rows, TRUE) BY <3>2 DEF x
    <3>4. cache[p].since < Ttl BY <2>6, <3>2 DEF AskCached, Fresh
    <3>5. cache[p].age <= cache[p].since + MaxAnswer /\ Right(cache[p].rows, cache[p].age)
      BY <2>1, <3>4 DEF CachesAreRight
    <3>6. cache[p].age < Horizon BY <2>1, <3>4, <3>5, CachesTyped, Times
    <3>7. \A b \in Agents : quiet[b] = Horizon => cache[p].rows[b] = row[b]
      BY <3>5, <3>6, Times DEF Right
    <3>8. cache[p].rows \in Snapshots BY <2>1, CachesTyped
    <3> QED BY <2>4, <3>3, <3>7, <3>8
  <2>7. ASSUME NEW q \in Processes, NEW d \in Calls, StoreRows(q, d)
        PROVE  calls'[p][c].definition
                 = Effective(Base(p, calls'[p][c].agent), row[calls'[p][c].agent])
    <3> DEFINE x == Resolved(q, calls[q][d].agent, calls[q][d].rows, TRUE)
    <3>1. calls' = [calls EXCEPT ![q][d] = x] BY <2>7 DEF StoreRows
    <3> HIDE DEF x
    <3>2. q = p /\ d = c /\ calls'[p][c] = x BY <2>5, <3>1
    <3>3. calls'[p][c] = Resolved(p, calls[p][c].agent, calls[p][c].rows, TRUE)
      BY <3>2 DEF x
    <3>4. Right(calls[p][c].rows, calls[p][c].age)
      BY <2>1, <2>7, <3>2 DEF StoreRows, AnswersAreRight
    <3>5. /\ calls[p][c].agent \in Agents /\ calls[p][c].rows \in Snapshots
          /\ calls[p][c].age \in 0 .. MaxAnswer
      BY <2>1, CallsTyped
    <3>6. calls[p][c].age < Horizon BY <3>5, Times
    <3>7. \A b \in Agents : quiet[b] = Horizon => calls[p][c].rows[b] = row[b]
      BY <3>4, <3>5, <3>6, Times DEF Right
    <3> QED BY <2>4, <3>3, <3>5, <3>7
  <2>8. ASSUME NEW q \in Processes, NEW d \in Calls, LoadFails(q, d)
        PROVE  FALSE
    <3> DEFINE x == Resolved(q, calls[q][d].agent, BlankRows, FALSE)
    <3>1. calls' = [calls EXCEPT ![q][d] = x] BY <2>2, <2>8 DEF LoadFails
    <3>2. calls[q][d].agent \in Agents BY <2>1, CallsTyped
    <3>3. ~x.stored
      <4>1. BlankRows \in Snapshots /\ FALSE \in BOOLEAN BY BlankTyped
      <4>2. x.stored = FALSE BY <2>1, <3>2, <4>1, ResolvedTyped, ZenonT(30)
      <4> QED BY <4>2
    <3> HIDE DEF x
    <3>4. calls'[p][c] = x BY <2>5, <3>1
    <3> QED BY <3>3, <3>4
  <2>9. ASSUME NEW q \in Processes, NEW d \in Calls, Return(q, d) PROVE FALSE
    <3>1. calls' = [calls EXCEPT ![q][d] = IdleCall] BY <2>9 DEF Return
    <3>2. calls'[p][c] = IdleCall BY <2>5, <3>1
    <3> QED BY <3>2, IdleTyped
  <2>10. ASSUME NEW q \in Processes, NEW d \in Calls, NEW a \in Agents, AskDatabase(q, d, a)
         PROVE  FALSE
    <3> DEFINE x == [IdleCall EXCEPT !.step = "query", !.agent = a]
    <3>1. calls' = [calls EXCEPT ![q][d] = x] BY <2>10 DEF AskDatabase
    <3>2. x.step = "query" BY IdleTyped DEF CallStates
    <3> HIDE DEF x
    <3>3. calls'[p][c] = x BY <2>5, <3>1
    <3> QED BY <3>2, <3>3
  <2>11. ASSUME NEW q \in Processes, NEW d \in Calls, ReadRows(q, d) PROVE FALSE
    <3> DEFINE x == [calls[q][d] EXCEPT !.step = "answer", !.rows = row]
    <3>1. calls' = [calls EXCEPT ![q][d] = x] BY <2>2, <2>11 DEF ReadRows
    <3>2. x.step = "answer" BY <2>2 DEF CallStates
    <3> HIDE DEF x
    <3>3. calls'[p][c] = x BY <2>5, <3>1
    <3> QED BY <3>2, <3>3
  <2>12. ASSUME NEW q \in Processes, NEW r \in Releases, Restart(q, r) PROVE FALSE
    <3>1. calls' = [calls EXCEPT ![q] = [e \in Calls |-> IdleCall]] BY <2>12 DEF Restart
    <3>2. calls'[p][c] = calls[p][c] \/ calls'[p][c] = IdleCall BY <2>2, <3>1
    <3> QED BY <2>3, <3>2, IdleTyped
  <2>13. ASSUME Tick PROVE FALSE
    <3> DEFINE n == IF calls[p][c].step = "answer" THEN calls[p][c].age + 1
                    ELSE calls[p][c].age
    <3>1. calls'[p][c] = [calls[p][c] EXCEPT !.age = n] BY <2>13 DEF Tick
    <3> HIDE DEF n
    <3>2. calls[p][c] \in CallStates BY <2>2
    <3>3. calls'[p][c].step = calls[p][c].step BY <3>1, <3>2 DEF CallStates
    <3> QED BY <3>3
  <2>14. calls' # calls BY <2>3
  <2>15. ASSUME NEW h \in Handlers, NEW a \in Agents,
                NEW body \in [Fields -> Values \cup {Absent, Keep}],
                NEW enabled \in BOOLEAN \cup {Keep}, UpdateAgent(h, a, body, enabled)
         PROVE  FALSE
    BY <2>14, <2>15 DEF UpdateAgent, LoadAgent, process
  <2>16. ASSUME NEW h \in Handlers, NEW a \in Agents, ResetAgent(h, a) PROVE FALSE
    BY <2>14, <2>16 DEF ResetAgent, LoadAgent, process
  <2>17. ASSUME NEW h \in Handlers, Commit(h) \/ RollBack(h) PROVE FALSE
    BY <2>14, <2>17 DEF Commit, RollBack, process
  <2>18. ~SyncAgents /\ ~SyncGivesUp BY <2>14 DEF SyncAgents, SyncGivesUp
  <2> QED BY <2>6, <2>7, <2>8, <2>9, <2>10, <2>11, <2>12, <2>13, <2>15, <2>16, <2>17, <2>18
          DEF Next
<1>2. Spec => [][A]_vars BY <1>1, Invariance, PTL DEF Spec
<1> QED BY <1>2 DEF BoundedStaleness
=============================================================================
