# Formal model of the software factory

TLA+ modules, TLC configurations and TLAPS proofs for the core of the multi-agent
software factory: the delivery pipeline of the orchestrator, the life of a workflow
run, the dispatch of agent tasks to the workers, the files the agents write, the
decisions of persons, the configuration of the agents, and the MCP servers with their
OAuth flow and their sessions.

## 1. The system

| Part | State it keeps | Operations | Interacts with |
| --- | --- | --- | --- |
| Delivery pipeline (`orchestrator/graphs/software_delivery.py`, `nodes/`) | `DeliveryState` in the LangGraph checkpoint: cycles per gate, escalated gate, flags, stage results | stages, gates and their routers, `*_cycle`, `*_escalate`, human nodes, end nodes | task dispatch (stages), approvals table (human nodes), run row |
| Orchestrator process (`orchestrator/main.py`, `db.py`, `checkpoints/`) | `_running`, asyncio tasks, the checkpointer | poll for new and stale runs, `run_workflow`, reconcile | run row, checkpointer, pipeline |
| Runs API (`backend/app/api/v1/runs.py`) | `workflow_runs` | start, cancel, retry | the orchestrator, only through the row |
| Task dispatch (`orchestrator/nodes/dispatch.py`) | one waiting call per task | create task, publish command, poll result and status, time out | RabbitMQ, Redis, `tasks` |
| Domain workers (`workers/base`) | queue copies, the Redis keys `processed:*` and `task_result:*`, `tasks.status` | deliver, deduplicate, execute, persist, ack, republish, dead-letter | RabbitMQ, Redis, PostgreSQL, agent runtime |
| Tasks API (`backend/app/api/v1/tasks.py`) | `tasks` | retry | workers, only through the row |
| Approvals API (`backend/app/api/v1/approvals.py`) | `approvals` | approve, reject | human nodes poll the row |
| Code files (`workers/base/artifacts.py`, `_store_code_files`, `_merge_code_files`) | objects in MinIO, rows of `artifacts`, the workspace of the project, `code_files` of the state | store, record, publish, collect, merge by path | workers, task dispatch, stages |
| Agent configuration (`agents/config_store.py`, `registry.py`, `api/v1/agents.py`, `db.sync_agent_definitions`) | `agent_definitions`, the YAML and a cache with a TTL in each process | edit, reset, sync, effective definition | stages and workers |
| MCP servers (`api/v1/mcp.py`, `services/mcp_oauth.py`) | `mcp_servers`: configuration, tokens, pending authorization, result of the last discovery | create, edit, delete, discover, authorize, refresh, reset | MCP client, authorization servers |
| MCP client (`shared/mcp/client.py`) | one session: its request ids, deadline and subprocess | handshake, list tools, close | external MCP servers over stdio or HTTP |

The parts share no memory. The API and the orchestrator communicate through rows that
both read, check and write without locks; the orchestrator and the workers through a
queue that redelivers, and two Redis keys. Every hard behaviour comes from that:
something is read, an `await` follows, and it is used when it may no longer hold; a
process dies between two writes; a message arrives twice. `PROJECT.json` lists them as
hazards with their lines.

What makes the parts correct:

- pipeline: no stage on work an earlier gate has not accepted; at most `MAX_CYCLES`
  automatic cycles per gate; human review exactly when they are used up, and resumed
  where the gate would have led; no endless automatic loop; a refusal is not ignored;
- run: at most one task executes it; a terminal status has its cause; a task executes
  from a checkpoint that exists; no run is orphaned for ever; a cancelled run stays so;
- approvals: the run goes on with the decision about the approval it asked for; a decision
  is final, heard, and recorded as it was taken;
- MCP servers: a request that ends late mixes no columns of different answers and undoes
  no edit; tokens leave the row only by a reset or a discovery whose refresh was refused
  (which may also take a token stored meanwhile, section 5);
- agent configuration: no agent is resolved by a row that has been different for the
  cache's lifetime and one answer; no synchronisation and no concurrent request undoes an
  edit; what is stored is complete, so that the merge does not drop it;
- MCP client: whatever the server does, no subprocess is left behind, and over stdio the
  client takes for the answer of a request only what bears its id, and ends in time;
- code files: a late or repeated answer never brings an earlier round back; what is
  recorded or visible has an object of its own task behind it;
- dispatch: one execution at a time; a bounded number of executions; no verdict before
  it is stored; no message lost; the call always returns.

## 2. The modules

`DeliveryGraph` - the pipeline. One action is one superstep of LangGraph (the node, its
update and its router, which are committed in one checkpoint): `Stage`, `AgentGate`,
`ApprovalGate`, `IntakeClarification`, `CycleNode`, `EscalateNode`,
`HumanReviewApproved/Rejected`, `Finish`. `node` is the next node of the checkpoint;
the nine `g_cycle` and `g_escalate` nodes are `"cycle"` and `"escalate"` with `gate = g`.
`cycles`, `escalatedGate`, `humanReviewRequired` and `currentStage` are the fields of
`DeliveryState` that routers read (any stage name is `"stage"`). `StageStatus` is the
aggregation of `_run_stage`. `RetryFromTriage` is `POST /runs/{id}/retry`: the graph
restarts at triage on its old thread, and the reducers keep counters and flags.
`RestartWithoutCheckpoint` is the same after the `MemorySaver` fallback lost the thread.
`accepted` and `rejections` are history variables: which gates accepted the work as it
stands, and how many negative verdicts each gave since a person let the run go on. They
are maintained from the agents' answers and the persons' decisions, not from the routers,
so that the properties compare the routes with what was really said.

`GatedDelivery` - the abstract promise: N gates in a row, acceptances that are taken back
when work is redone, delivery with all of them. `DeliveryGraph` implements it through
`Pipeline == INSTANCE GatedDelivery WITH accepted <- {Index[g] : g \in accepted}, ...`.

`DeliveryInvocation` - `DeliveryGraph` under the `recursion_limit` of `ainvoke`:
`Superstep` counts, `OutOfSteps` is `GraphRecursionError`, `Retry` and `Resume` are the
later invocations, which count from zero. LangGraph's own off-by-one at the limit is
external and not modelled; the counterexample exceeds the limit by three supersteps.

`RunLifecycle` - one run between the API, its row and the orchestrator. `status` and
`stale` are the row; `polled` is the result of a polling query between its `await` and its
use; `running` and `pc` are `_running` and the place of each asyncio task in
`run_workflow`; `thread` is what each checkpointer holds; `calls` are API requests
between their check and their commit. Every status write is `Mark`, the unconditional
`UPDATE` of `db.update_run`. The graph is a row of nodes of which some wait for a person.
`Crash` empties the memory of the process and chooses the checkpointer again.

`TaskDispatch` - one task: `dispatch_agent` (`caller`, `expired`, `outcome`), the queue
(`queued` copies by attempt, `dead`), the workers (`job`, one action per `await` of
`_handle` and `_execute` that can be observed), the Redis keys (`processed`, `result`),
the task row (`status`, `attempt`) and the retry API (`retrying`). `ExecuteRaises` is an
exception inside the `try`, `HandleRaises` one outside it, `Crash` the death of the
process, `LoseConnection` a redelivery while the worker goes on (its later acks raise).
After `HandleRaises` the copy is back in the queue at once, in the code only when the old
connection ends, which `_consume` does not close; since nothing obliges `Deliver` to come,
the runs with the later moment are among those of the module.

`ExclusiveExecution` - the abstract promise of a dispatch, without queue, copies, attempts
or key: one worker at a time executes the task, an answer is a verdict its execution has
stored before, the call returns once, and a verdict only if it was answered. `TaskDispatch`
implements it through `Execution == INSTANCE ExclusiveExecution WITH executing <- Executing,
kept <- Kept, stored <- persisted, answer <- result`: `Executing` are the workers between
SETNX and the deletion of the key, `Kept` is what they have persisted and not given up by
an exception.

`ApprovalGate` - the human nodes against the approvals API. `approvals` are the rows,
`pc`, `row`, `heard` and `told` the node and its locals, `calls` the API requests between
their check (409 unless REQUESTED) and their commit, `decisions` and `notes` what the node
leaves behind. A call reads and commits in two steps, or is rolled back. `Interrupt` is a
node that dies or raises and is executed from its start, which requests another approval;
the first one stays in the persons' list. `contested` is history: the approvals two calls
were deciding at a time. The run's status at these nodes belongs to `RunLifecycle`.

`McpServers` - one row of `mcp_servers` under its handlers. Each handler is `Load` (the
row it reads and its working copy), steps that await the MCP server or its authorization
server and change the copy, and `Commit`. `Saved` is SQLAlchemy's UPDATE: only columns
whose value differs from the one loaded. Tokens are numbered by the response they came in,
state and verifier by their link. `metadata` is `oauth_metadata` as far as the code asks
for it: whether it has the endpoints, without which nothing is exchanged or refreshed, and
whether a 401 has left its hint there. That an authorization server sends `expires_in` with all
its tokens or with none is the one assumption about it (`declares`, either way): one that
sends it now and then can leave an undated token with the expiry of another one.

`McpClient` - one call of `discover_tools`. `step` is the place of the client in its
session, `left` the rest of the deadline it waits for, `out` the lines the subprocess has
printed and nobody has read. The server is free: `Prints` appends any message that is an
answer to a request it has received or nobody asked for, `ServerCloses` closes its stdout
while it goes on (server `"mute"`), `ServerEnds` is its death, before or after SIGTERM.
`EndOfOutput` is what the client sees of either. `ReadRaises` is the exception that nothing
in the module expects: a line that is JSON and no object, or longer than the limit of the
reader. Over HTTP `Respond` takes the first payload of a stream, `Trickle` a byte that
makes httpx wait anew.

`AgentConfig` - the rows of `agent_definitions` and the caches. A call of
`effective_definition` is `AskCached`, or `AskDatabase`, `ReadRows` (the snapshot of the
database), `StoreRows` (the cache and its time), so that two loads of a process can
overlap, and `LoadFails`, which serves the YAML. The API reads in `LoadAgent` and writes in
`Commit`, with the same `Saved` as `McpServers`; `SyncAgents` is the transaction at the
start of the orchestrator. Clocks are ages: `quiet` since the row of an agent changed,
`since` as the cache measures it, `age` of the rows it holds.

`CodeFiles` - many tasks of the stages of a run (a round is one execution of a stage) and
their files. `StartRound`, `Dispatch`, `Collect`, `GiveUp`, `EndRound` and `AbortRound` are
`_run_stage` and its calls, `Execute`, `Store`, `StoreFails`, `Record`, `Publish` and
`Raise` the worker, file by file. A content is told by its task, execution and index in
the answer. It takes from `TaskDispatch` what that module shows: one execution at a time.
`AbortRound` leaves the files of the checkpoint as they are: `NeverOlder` is about late and
repeated answers, and not about a restart whose checkpointer has lost the thread.

The eight `*Proofs` modules hold the theorems about the modules they are named after; the
`MC*` modules give values to the constants.

Next to a definition stands, where there is one, its mutant: the definition as a
plausible bug would have it. For every property of a passing run there is one that
breaks it (`PROJECT.json`, `mutants`).

## 3. The runs

| Run | What it shows |
| --- | --- |
| `delivery_graph` | six gates, one of each kind of rework, object in any order and number; one re-invocation; all properties of the pipeline, its refinement of `GatedDelivery`, and that it always comes to a person or an end |
| `intake_refusal` (violation) | a rejected clarification is followed by ordinary work |
| `recursion_limit` (violation) | the counters of the gates do not always end the cycles: with the code's 3 cycles and limit 100, 16 + 3 * 29 = 103 supersteps of a run that has not escalated are too many |
| `run_lifecycle` | the properties of a run with two tasks, two crashes, two exceptions, one cancel and one retry |
| `cancel_is_final` (violation) | cancel commits, and the next status write of the task makes the run RUNNING again |
| `task_dispatch` | the properties of a task with two workers, two attempts, three exceptions, one break and one retry, and its refinement of `ExclusiveExecution` |
| `ack_before_result` (violation) | a crash after SETNX loses the message without a trace |
| `approval_gate` | two persons, two approvals, one interruption: own, recorded, final and heard decisions |
| `mcp_servers` | five requests, two at a time, and two token responses: no bad mixture and no lost edit; no token goes but by a request that cleared it itself, and none stays after one |
| `mcp_client` | a session with any server: over either transport no subprocess left; over stdio an answer bears the id of its request, also where the server uses the ids of the client for requests of its own, the session is in time and has always an end |
| `agent_config` | two calls of a process, two requests, restarts and synchronisations: bounded staleness, no lost edit, complete rows |
| `code_files` | two rounds with late, repeated and failing workers: no older files again, an object behind every file |

Bounds. `MaxCycles = 1` already gives every gate both a cycle and an escalation; three
cycles repeat the first. The objecting gates cover every kind of rework; code_review, qa
and security have the same edge back to development as tests. `DeliveryGraphProofs` has no
such bounds. Two asyncio tasks suffice to have a second one; two crashes let the process
come back with the other checkpointer and then with the first one again; two exceptions let
the failure fail to be recorded. Two workers suffice for a concurrent execution; two
attempts give a republication and a dead letter; three exceptions and one break exhaust
`ExecutionBudget` exactly (4 executions). Two persons make a contested decision, two
approvals and one interruption an orphaned one. Five requests are a start, a callback, a
discovery with refresh and two that overlap it; the proofs about `ApprovalGate` and
`McpServers` have no such bounds. A session has a deadline of two ticks, so that it can
pass between two lines, and three lines waiting: a foreign one, an old one, the own one;
the server sends requests of its own with the ids of the client and with another one. One
process, two calls and a lifetime and an answer of one tick each let an older load be
stored after a newer one, and its cache outlive an edit; one required and one optional
field let an edit take away either, and the only release has both. Two rounds with one
agent in both, who is executed twice in the first, give a late answer, a repeated one and a
next round it could be taken for; one answer names its path twice. All runs but
`agent_config`, which never stops, switch off TLC's deadlock check, for the systems end: a
delivered run, a returned call, an emptied queue, a closed session.

Fairness. `DeliveryGraph` assumes that a superstep ends where no person is waited for:
`dispatch_agent` times out. `RunLifecycle` assumes that the loop polls, that time passes
(a row becomes stale) and that a task that waits for no person goes on; persons, the API
and faults owe nothing. `TaskDispatch` assumes that the call goes on polling and its
deadline passes, and nothing of a worker. `ApprovalGate` assumes that a node goes on
polling, as its loop of five seconds does, and not that any person decides.
`McpClient` assumes that the event loop runs a client over stdio and that time passes, and
nothing of the server, nor of HTTP. `McpServers`, `AgentConfig` and `CodeFiles` have no
liveness property and assume nothing: their handlers and workers may stop anywhere.

## 4. The proofs

`DeliveryGraphProofs` proves, for every `MaxCycles`, every set of objecting gates and any
number of re-invocations, from the assumptions that the bounds are naturals:
`TypeCorrect`, `GatesInOrder`, `RejectionsBounded`, `EscalationsEarned` and the refinement
of `GatedDelivery`, `ImplementsPipeline`.

None of the first four is inductive alone. `RejectionBudget` bounds verdicts, while the code
bounds counters: between a negative verdict and its `*_cycle` node they differ by one.
`CountersMatch` says exactly that (`rejections[g] <= cycles[g] + Pending(g)`, with
equality while the run was never re-invoked), `CycleLeft` that a cycle under way is one
the gate still has, `EscalationUnderWay` that what led to `*_escalate` still holds at human
review. `IInv` is their conjunction with `TypeOK` and `GatesPassedInOrder`; there is one
lemma per action, and `VerdictStep` serves both kinds of gate. What the proofs need of the
tables of the graph is in `Reaches(n, k)` (no more than k gates lie before n) and three
lemmas: an approval reaches the next gate, rework an earlier one, a stage its successor.

The refinement needs more than the order of the gates, where an inequality is enough:
`Exact` says that a gate judges, is cycled, escalates and is reviewed when precisely the
gates before it have accepted. So an approval is `Accept` of the next place, a rework with
its cycle node `Redo` of a place or a stutter, a retry `Reopen`. `NextRefines` has the case
of each node. `DeliversWithEveryGate` carries the promise of `GatedDelivery` over to the
graph.

`AutomaticPartEnds` is what liveness under fairness leaves within the prover's reach: a
variant. `StepsToGo` is the longest way from the node to a stop (`Distance`, the table of
the graph without its cycles) plus what the cycles that are left can cost (`CycleCost`, the
way back to each gate). It stays within `0 .. 18 + 44 * MaxCycles` (`Bounded`), and every
superstep but the approval of a human review makes it smaller (`Nears`). That a superstep
does happen is the fairness; so together they are `NoEndlessAutomaticLoop`, which TLC
checks.

With the supersteps an invocation has taken, the variant gives the limit the code would
need: `SufficientLimit` says that from `recursion_limit = 16 + 44 * MaxCycles` on,
LangGraph ends no run whose gates have not escalated (`WithinLimit`: steps taken and steps
to go do not exceed it together). That is 60 for one cycle, where TLC, given 59, finds a
run that is ended, and 148 for the code's three; its 100 is the finding of
`recursion_limit`. `OrderUnderLimit` proves order and budget of the gates for invocations
that are cut short, whatever the limit.

`RunLifecycleProofs` proves, for any number of asyncio tasks, graph, human nodes,
checkpointers and bounds: `TypeCorrect`, `OneTask`, `TerminalCaused` and `FromCheckpoint`.
Here the safety properties nearly support each other: a task writes COMPLETED only when it
is at "completing", where by `ExecutesFromCheckpoint` its thread has ended as delivered,
and that no other task moves this thread meanwhile is `OneTaskPerRun`. What has to be added
is `EndHasStage`: an ended thread carries a stage that tells why, and the stage its cause,
in every checkpointer, also in the one that is not in use and may come back after a
restart. There is one lemma per group of actions that disturb the same part of the state.

`ApprovalGateProofs` proves, for any number of persons, approvals and interruptions, the
type invariant and every safety property of the run. What makes
them inductive is that the node knows its row (`NodeKnowsRow`: the newest one, decided
where it says so), that a call that is alone with an approval still finds it REQUESTED
(`CallsAlone`), and that the rationale in a row is its decider's (`RowsAgree`,
`ToldByDecider`), both unless the approval is contested.

`McpServersProofs` proves, for any number of concurrent handlers and any bounds, every
property of the run. The argument is about merges: the UPDATE combines the stored row with
the difference between the row a handler loaded and the one it leaves. A relation between
columns survives if it holds in all three rows and the handler changes either all its
columns or none (`MergeConsistent`), and a column changes only if the handler changed it
(`Faithful`, with one clause per operation). `ClearingIsDecided` follows from what a handler
that clears nothing leaves of the tokens it has read (`KeepsTokens`). It says whose commit
takes a token away, and not that it is the token this request had read: see section 5.

`TaskDispatchProofs` proves, for any number of workers, attempts, faults and breaks, the
type invariant, `OneAtATime`, `PersistedFirst` and `NothingIsLost`. The last is about why a
duplicate may be dropped: the key in Redis outlives its owner, and only while nothing
breaks does a key mean that somebody still has the message or the result is there
(`KeyIsHeld`); then the message is always with a worker, in the queue, dead or answered
(`NotLost`). `PersistedFirst` needs `VerdictsKnown`: which step of a worker knows its
verdict stored.

`BudgetKept` counts what can still be executed. A copy that stands at attempt a can cause
one execution for each attempt from a on, so it is represented by its pairs with these
attempts: `InQueue` has those of the queue, `AtWorkers` those of the copies a worker has.
`Budget` says that the executions so far, the pairs of both sets and the message not yet
sent are no more than `MaxAttempts` for the message and for every break. An execution
takes a pair from its worker, a republication moves the rest into the queue, and a break
may copy at most one row of `MaxAttempts` pairs; the cardinalities come from
`FiniteSetTheorems`.

`ImplementsExecution` is the refinement of `ExclusiveExecution`, step by step: the claim is
`Start`, `Persist` is `Store`, `StoreResult` is `Answer`, an exception `Abandon`, the
deletion of the key, a crash and an exception in the consumer `Stop`, the return of the call
`Return`, and everything else stutters. It needs the invariant above, for `OneExecution`
makes the executing worker the only one whose verdict is kept, and `Unreturned`: only a
call that has returned has an outcome.
`AnswersAreStored` carries the promise over to the code.

`AgentConfigProofs` proves, for any agents, fields, releases, processes, calls, requests
and times, all properties of the run. What makes `StalenessBounded` inductive is a relation
between two clocks: rows that were read `age` ticks ago are right about every agent that
has been quiet for longer (`Right`), on their way as well as in a cache; and the rows of a
fresh cache are at most `MaxAnswer` older than the cache believes (`CachesAreRight`). A
change sets the first clock to zero and so needs no case of its own. `CompleteAlways` needs
that a default is complete or wholly absent, as before the first synchronisation.

`McpClientProofs` proves every safety property of the run for any timeouts, ids and bounds:
by what has been taken for an answer at each step (`Progress`, `Answered`; the ids of the
server's own requests are any, those of the client included), whether a subprocess can
run there (`Supervised`), and how much of the time is left (`Budget`).

`CodeFilesProofs` proves every property of the run for any rounds, agents, paths and
answers. `NeverGoesBack` rests on whose answer is where (`OwnAnswers`: a result is that of
its task, what a round has collected is of that round), `AlwaysStored` on order: the object
of a task is never ahead of its execution (`NotAhead`), and no other task writes it.
That the last index of a path exists is the well-founded order of the naturals, from
`WellFoundedInduction`.

Only model-checked: the liveness properties (`NoEndlessAutomaticLoop`,
`NeverOrphanedForever`, `CallReturns`, `DecisionIsHeard`, `SessionEnds`), for the prover
has no `ENABLED`. Of the first and the last the safety half is proved: `AutomaticPartEnds`
and `BoundedTime`. The counterexamples of the violation runs are TLC's.

## 5. What the code does otherwise than it says

See `findings` in `PROJECT.json`; each is a violation run. Some remarks besides: README:85
of the repository lets the item go to human review "após a terceira tentativa falha", the
code after the fourth negative verdict (the first attempt and three cycles); a retried run
keeps the counters of the failed one, so that its gates have fewer cycles left; two persons
who decide one approval at a time both succeed in spite of the 409, and the later commit
wins (`contested`), possibly with the rationale of the other (the properties of
`ApprovalGate` about decisions, records and notes leave exactly this case out: they show
that nothing else changes a decision); two first OAuth starts register two clients, and a
link made with the one that is replaced fails.

Others, which no run states as a finding since nothing in the repository plainly says
otherwise:

- a stage whose agents are all disabled is approved without work (`stages.py:45`), and its
  gate leads on; findings of its earlier execution stay in the state;
- an exception after the final status of a task moves it from DONE back to IN_PROGRESS;
- a load of the configurations that fails serves the YAML, which enables every agent, also
  one that a person has disabled and the expired cache still knows as disabled;
- an optional field that a person removes from a configuration comes back from the YAML,
  for `_deep_merge` cannot tell it from one that was never set;
- a discovery that ends with the status it began with does not write the column, and so
  leaves the status that another request has written meanwhile (`entities.py:120` calls
  it the result of the last discovery);
- two discoveries that have read the same expired token both refresh it. When the second
  refresh is refused because the first has spent the refresh token, `clear_authorization`
  empties the copy of that handler, and its commit takes away the token that the first one
  has stored and nobody refused: the server is left without authorization, though
  `mcp_oauth.py:139` clears it "em vez de repetir chamadas com um token inválido". A reset
  likewise clears a token stored after it read the row, and leaves in the row a first
  token, or refresh token, that was stored after it had read none. `ClearedAsDecided` holds
  with all of this, and would not hold if it asked for the token that was read;
- a discovery that gets a 401 writes back the `oauth_metadata` it had read with the hint
  added (`mcp.py:256`): if a first OAuth start has stored the endpoints meanwhile, they are
  gone: its callback is refused or, if it was faster, the token is used without a refresh
  when it has expired;
- a request of an MCP server over stdio that bears the id of the request the client waits
  for is taken for its answer, since `client.py:243` compares nothing but the id, though the
  two sides number their requests independently and `client.py:213` announces the answer;
  it has no result, and in the place of that of `tools/list` it ends the discovery OK with
  an empty list of tools;
- a message that has failed for good leaves its task IN_PROGRESS, and the call of
  `dispatch_agent` notices only by its timeout;
- a log line of an MCP server that is JSON and no object ends the session with an
  AttributeError (`client.py:243`); over HTTP the first payload of a stream is taken for
  the answer without a look at its id, and a stream that trickles never times out;
- a repeated execution of a task writes over the objects of artifacts that are already
  recorded, so that their checksum is that of another content (`ObjectBehind` says: of the
  same task); a worker whose call gave up writes to the workspace of the project all the
  same, after the next round has.

## 6. Not modelled, and why

- The composition of `DeliveryGraph`, `ApprovalGate` and `RunLifecycle`: they meet in one
  row, thread and approval, and each of them abstracts the others to what it observes of
  them (a graph of nodes of which some wait for a person; a node that may be interrupted).
  Two runs of one project share nothing but its workspace; they are not composed.
- The loss of `code_files` with the checkpoint: `CodeFiles` has one checkpoint, which
  survives; what the fallback to `MemorySaver` does to a thread is in `RunLifecycle`.
- Findings, notes and the truncations of the context builder, but for the files and for
  the notes of `ApprovalGate`: they are read by agents and decide no step.
- The transitions of a project (`PATCH` of `projects.py`): one request, one row, one
  table. The other endpoints of projects, demands and artifacts read and insert rows.
- `call_tool` of the MCP client, which nothing in the repository calls; headers and the
  session id of HTTP.
- The inside of the agent runtime (prompts, models and their fallback, parsing): it is the
  choice of a verdict and of files in the modules above.
- The tools, the sandbox runner and the providers (wrappers without shared state),
  authentication, the skeleton graphs, the frontend, infrastructure, migrations and YAML
  data, logging and metrics.
