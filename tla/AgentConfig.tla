------------------------------ MODULE AgentConfig ------------------------------
(***************************************************************************)
(* The configuration of the agents: the rows of agent_definitions, edited  *)
(* through the API and seeded from the YAML files when the orchestrator    *)
(* starts, and the cache of these rows that every process keeps and merges *)
(* over its own YAML whenever it resolves an agent.                        *)
(*                                                                         *)
(* A configuration gives each field (a path of the document) a value or    *)
(* Absent.  Time is kept as ages, which saturate at Horizon.               *)
(***************************************************************************)
EXTENDS Naturals

CONSTANTS
    Agents,        \* the agents of the registry
    Fields,        \* the fields of a configuration,
    Required,      \* those of the contract,
    Values,        \* and what they may hold
    Absent, Keep,  \* a field that is missing; a field an edit does not name
    Releases,      \* versions of the YAML files:
    Yaml,          \* Yaml[release][agent] is a configuration
    Processes,     \* the processes with a cache of their own:
    Orchestrator,  \* one of them, and the workers
    Calls,         \* concurrent calls of effective_definition in a process
    Handlers,      \* concurrent requests to the API
    Ttl,           \* CACHE_TTL_SECONDS, in ticks
    MaxAnswer      \* ticks that an answer of the database may take to arrive

Configurations == [Fields -> Values \cup {Absent}]

Complete(c) == \A f \in Required : c[f] # Absent

ASSUME AgentsAssumption  == Agents # {}
ASSUME FieldsAssumption  == Required \subseteq Fields /\ Absent \notin Values /\ Keep \notin Values \cup {Absent} \cup BOOLEAN
ASSUME YamlAssumption    == Yaml \in [Releases -> [Agents -> {c \in Configurations : Complete(c)}]]
ASSUME ProcessAssumption == Orchestrator \in Processes /\ Releases # {}
ASSUME TimeAssumption    == Ttl \in Nat \ {0} /\ MaxAnswer \in Nat

\* After this time without a change every answer is about the present row.
Horizon == Ttl + MaxAnswer

VARIABLES
    row,      \* agent_definitions: the effective columns of each agent,
    default,  \* and default_configuration
    quiet,    \* time since the effective columns of an agent changed
    release,  \* the YAML files a process has loaded
    running,  \* a process has finished its start
    cache,    \* _cache and _cache_at of each process
    calls,    \* what each call of effective_definition holds
    handlers  \* what each request holds

vars == <<row, default, quiet, release, running, cache, calls, handlers>>
process == <<release, running, cache, calls>>

\* A row that sync has not inserted yet is not known.
Rows == [known : BOOLEAN, configuration : Configurations, enabled : BOOLEAN]
Blank == [known |-> FALSE, configuration |-> [f \in Fields |-> Absent], enabled |-> FALSE]
Snapshots == [Agents -> Rows]
BlankRows == [a \in Agents |-> Blank]

Definitions == [configuration : Configurations, enabled : BOOLEAN]
NoDefinition == [configuration |-> [f \in Fields |-> Absent], enabled |-> FALSE]

\* _cache = None serves like a cache that has expired.
NoCache == [rows |-> BlankRows, age |-> Horizon, since |-> Ttl]

IdleCall == [step |-> "idle", agent |-> CHOOSE a \in Agents : TRUE, rows |-> BlankRows,
             age |-> 0, stored |-> FALSE, definition |-> NoDefinition]
IdleHandler == [step |-> "idle", agent |-> CHOOSE a \in Agents : TRUE, read |-> Blank,
                work |-> Blank]

\* A new installation, or one whose rows an earlier release has left.
Init ==
    /\ row = BlankRows
    /\ default = [a \in Agents |-> Blank.configuration]
    /\ quiet = [a \in Agents |-> Horizon]
    /\ release \in [Processes -> Releases]
    /\ running = [p \in Processes |-> p # Orchestrator]
    /\ cache = [p \in Processes |-> NoCache]
    /\ calls = [p \in Processes |-> [c \in Calls |-> IdleCall]]
    /\ handlers = [h \in Handlers |-> IdleHandler]

-----------------------------------------------------------------------------
(* The start of a process. *)

\* A process dies, or is deployed again: its memory is lost.
Restart(p, r) ==
    /\ release' = [release EXCEPT ![p] = r]
    /\ running' = [running EXCEPT ![p] = p # Orchestrator]
    /\ cache' = [cache EXCEPT ![p] = NoCache]
    /\ calls' = [calls EXCEPT ![p] = [c \in Calls |-> IdleCall]]
    /\ UNCHANGED <<row, default, quiet, handlers>>

Seeded(a) == [known |-> TRUE, configuration |-> Yaml[release[Orchestrator]][a],
              enabled |-> TRUE]

\* Mutant of Inserted: the configuration follows the YAML at every start.
InsertedAlways(a) == Seeded(a)

Inserted(a) == IF row[a].known THEN row[a] ELSE Seeded(a)

\* sync_agent_definitions, one transaction.
SyncAgents ==
    /\ ~running[Orchestrator]
    /\ row' = [a \in Agents |-> Inserted(a)]
    /\ quiet' = [a \in Agents |-> IF row'[a] = row[a] THEN quiet[a] ELSE 0]
    /\ default' = Yaml[release[Orchestrator]]
    /\ running' = [running EXCEPT ![Orchestrator] = TRUE]
    /\ UNCHANGED <<release, cache, calls, handlers>>

\* Thirty attempts have failed; the orchestrator starts all the same.
SyncGivesUp ==
    /\ ~running[Orchestrator]
    /\ running' = [running EXCEPT ![Orchestrator] = TRUE]
    /\ UNCHANGED <<row, default, quiet, release, cache, calls, handlers>>

-----------------------------------------------------------------------------
(* effective_definition *)

\* _deep_merge, field by field, and the column for enabled.
Merged(base, r) ==
    [configuration |-> [f \in Fields |-> IF r.configuration[f] = Absent
                                         THEN base[f] ELSE r.configuration[f]],
     enabled |-> r.enabled]

\* merge_definition; without a row the YAML alone, which its registry enables.
Effective(base, r) ==
    IF ~r.known THEN [configuration |-> base, enabled |-> TRUE]
    ELSE IF Complete(Merged(base, r).configuration) THEN Merged(base, r)
    ELSE [configuration |-> base, enabled |-> r.enabled]

Base(p, a) == Yaml[release[p]][a]

\* Mutant of Fresh: the cache serves for one tick more.
FreshForOneMore(p) == cache[p].since <= Ttl

Fresh(p) == cache[p].since < Ttl

Resolved(p, a, rows, stored) ==
    [IdleCall EXCEPT !.step = "resolved", !.agent = a, !.stored = stored,
                     !.definition = Effective(Base(p, a), rows[a])]

AskCached(p, c, a) ==
    /\ running[p]
    /\ calls[p][c].step = "idle"
    /\ Fresh(p)
    /\ calls' = [calls EXCEPT ![p][c] = Resolved(p, a, cache[p].rows, TRUE)]
    /\ UNCHANGED <<row, default, quiet, release, running, cache, handlers>>

AskDatabase(p, c, a) ==
    /\ running[p]
    /\ calls[p][c].step = "idle"
    /\ ~Fresh(p)
    /\ calls' = [calls EXCEPT ![p][c] = [IdleCall EXCEPT !.step = "query", !.agent = a]]
    /\ UNCHANGED <<row, default, quiet, release, running, cache, handlers>>

\* The database takes its snapshot; the answer is on its way.
ReadRows(p, c) ==
    /\ calls[p][c].step = "query"
    /\ calls' = [calls EXCEPT ![p][c] = [@ EXCEPT !.step = "answer", !.rows = row]]
    /\ UNCHANGED <<row, default, quiet, release, running, cache, handlers>>

\* Whoever comes last wins, with older rows or not.
StoreRows(p, c) ==
    /\ calls[p][c].step = "answer"
    /\ LET k == calls[p][c]
       IN  /\ cache' = [cache EXCEPT ![p] = [rows |-> k.rows, age |-> k.age, since |-> 0]]
           /\ calls' = [calls EXCEPT ![p][c] = Resolved(p, k.agent, k.rows, TRUE)]
    /\ UNCHANGED <<row, default, quiet, release, running, handlers>>

\* SQLAlchemyError: no overrides at all, whatever the cache still holds.
LoadFails(p, c) ==
    /\ calls[p][c].step \in {"query", "answer"}
    /\ calls' = [calls EXCEPT ![p][c] = Resolved(p, @.agent, BlankRows, FALSE)]
    /\ UNCHANGED <<row, default, quiet, release, running, cache, handlers>>

\* The stage dispatches or skips the agent, the worker executes or fails its task.
\* So ends also a call whose query raises anything that is not an SQLAlchemyError.
Return(p, c) ==
    /\ calls[p][c].step # "idle"
    /\ calls' = [calls EXCEPT ![p][c] = IdleCall]
    /\ UNCHANGED <<row, default, quiet, release, running, cache, handlers>>

-----------------------------------------------------------------------------
(* The API.  A handler reads the row, and commits after its awaits.          *)

LoadAgent(h, a, configuration, enabled) ==
    /\ handlers[h].step = "idle"
    /\ row[a].known
    /\ handlers' = [handlers EXCEPT ![h] =
                      [step |-> "commit", agent |-> a, read |-> row[a],
                       work |-> [known |-> TRUE, configuration |-> configuration,
                                 enabled |-> enabled]]]
    /\ UNCHANGED <<row, default, quiet, process>>

\* Mutant of Edited: what the request does not name is stored as None.
EditedRaw(a, body) == body

\* The configuration of the request over the one that was read.
Edited(a, body) ==
    [f \in Fields |-> IF body[f] = Keep THEN row[a].configuration[f] ELSE body[f]]

\* Mutant of UpdateAgent: _validate_configuration is not called.
UpdateAgentUnchecked(h, a, body, enabled) ==
    LoadAgent(h, a, Edited(a, body), IF enabled = Keep THEN row[a].enabled ELSE enabled)

\* PATCH; a configuration is validated when it changes.
UpdateAgent(h, a, body, enabled) ==
    /\ Edited(a, body) # row[a].configuration => Complete(Edited(a, body))
    /\ LoadAgent(h, a, Edited(a, body), IF enabled = Keep THEN row[a].enabled ELSE enabled)

\* POST reset, refused without a default.
ResetAgent(h, a) ==
    /\ \E f \in Fields : default[a][f] # Absent
    /\ LoadAgent(h, a, default[a], TRUE)

\* Mutant of Saved: the UPDATE names every column.
SavedWhole(h) == handlers[h].work

\* The UPDATE names the columns whose value differs from the one that was read.
Saved(h) ==
    [column \in DOMAIN Blank |->
        IF handlers[h].work[column] # handlers[h].read[column]
        THEN handlers[h].work[column] ELSE row[handlers[h].agent][column]]

Commit(h) ==
    /\ handlers[h].step = "commit"
    /\ LET a == handlers[h].agent
       IN  /\ row' = [row EXCEPT ![a] = Saved(h)]
           /\ quiet' = [quiet EXCEPT ![a] = IF row'[a] = row[a] THEN @ ELSE 0]
    /\ handlers' = [handlers EXCEPT ![h] = IdleHandler]
    /\ UNCHANGED <<default, process>>

RollBack(h) ==
    /\ handlers[h].step = "commit"
    /\ handlers' = [handlers EXCEPT ![h] = IdleHandler]
    /\ UNCHANGED <<row, default, quiet, process>>

-----------------------------------------------------------------------------
Aged(age, limit) == IF age < limit THEN age + 1 ELSE limit

\* One tick; no answer takes longer than MaxAnswer.
Tick ==
    /\ \A p \in Processes, c \in Calls : calls[p][c].step = "answer" => calls[p][c].age < MaxAnswer
    /\ quiet' = [a \in Agents |-> Aged(quiet[a], Horizon)]
    /\ cache' = [p \in Processes |-> [cache[p] EXCEPT !.age = Aged(@, Horizon),
                                                      !.since = Aged(@, Ttl)]]
    /\ calls' = [p \in Processes |-> [c \in Calls |->
                   [calls[p][c] EXCEPT !.age = IF calls[p][c].step = "answer" THEN @ + 1 ELSE @]]]
    /\ UNCHANGED <<row, default, release, running, handlers>>

Next ==
    \/ \E p \in Processes, r \in Releases : Restart(p, r)
    \/ SyncAgents \/ SyncGivesUp
    \/ \E p \in Processes, c \in Calls :
         \/ \E a \in Agents : AskCached(p, c, a) \/ AskDatabase(p, c, a)
         \/ ReadRows(p, c) \/ StoreRows(p, c) \/ LoadFails(p, c) \/ Return(p, c)
    \/ \E h \in Handlers :
         \/ \E a \in Agents :
              \/ \E body \in [Fields -> Values \cup {Absent, Keep}], enabled \in BOOLEAN \cup {Keep} :
                   UpdateAgent(h, a, body, enabled)
              \/ ResetAgent(h, a)
         \/ Commit(h) \/ RollBack(h)
    \/ Tick

Spec == Init /\ [][Next]_vars

-----------------------------------------------------------------------------
TypeOK ==
    /\ row \in Snapshots
    /\ default \in [Agents -> Configurations]
    /\ quiet \in [Agents -> 0 .. Horizon]
    /\ release \in [Processes -> Releases]
    /\ running \in [Processes -> BOOLEAN]
    /\ cache \in [Processes -> [rows : Snapshots, age : 0 .. Horizon, since : 0 .. Ttl]]
    /\ calls \in [Processes -> [Calls ->
                    [step : {"idle", "query", "answer", "resolved"}, agent : Agents,
                     rows : Snapshots, age : 0 .. MaxAnswer, stored : BOOLEAN,
                     definition : Definitions]]]
    /\ handlers \in [Handlers -> [step : {"idle", "commit"}, agent : Agents, read : Rows,
                                  work : Rows]]

\* "a janela de cache define o tempo máximo até uma mudança feita na tela passar a
\* valer" (config_store.py:11): an agent whose row has not changed for the time to
\* live of the cache and of one answer is resolved as its row says, whatever loads,
\* restarts and edits raced before.
BoundedStaleness ==
    [][\A p \in Processes, c \in Calls :
         LET k == calls'[p][c]
         IN  /\ calls[p][c].step # "resolved" /\ k.step = "resolved" /\ k.stored
             /\ quiet[k.agent] = Horizon
             => k.definition = Effective(Base(p, k.agent), row[k.agent])]_vars

\* "a coluna configuration NUNCA é sobrescrita" (db.py:276): what a person has saved
\* is changed by a request for another value of that column, never by a synchronisation
\* or by a request that read the column before and leaves it as it was.
EditsStay ==
    [][\A a \in Agents, column \in {"configuration", "enabled"} :
         row[a].known /\ row'[a][column] # row[a][column]
           => \E h \in Handlers : /\ handlers[h].step = "commit" /\ handlers[h].agent = a
                                  /\ handlers[h].read[column] # handlers[h].work[column]
                                  /\ handlers[h].work[column] = row'[a][column]]_vars

\* No sequence of edits, resets and synchronisations stores a configuration without
\* a field of the contract, so that merge_definition never drops a saved edit for
\* the YAML.
StoredIsComplete ==
    \A a \in Agents : row[a].known => Complete(row[a].configuration)
=============================================================================
