------------------------------- MODULE CodeFiles -------------------------------
(***************************************************************************)
(* The files that agents write, on their way from the answer of an agent   *)
(* to MinIO, to the workspace of the project and to the artifacts of the   *)
(* run (workers/base), and back through Redis into the state of the graph, *)
(* where the next agents read them (_run_stage, dispatch_agent).           *)
(*                                                                         *)
(* A round is one execution of a stage.  Its tasks are executed by workers *)
(* that know nothing of the orchestrator: a worker goes on when the call   *)
(* that waits for it has given up, and a message that comes back makes the *)
(* agent answer anew.  No task is executed by two workers at once          *)
(* (OneExecution of TaskDispatch); one whose worker died makes no step any *)
(* more.  The run has a project.                                           *)
(***************************************************************************)
EXTENDS Naturals, Sequences

CONSTANTS
    LastAgent,     \* the agents are numbered in the registry's order
    Rounds,        \* bound: the agents of each round, those of its stage
    Paths,         \* the paths of the files, without a leading slash
    Lists,         \* what each task may be answered: the paths of the files, in order
    MaxExecutions  \* bound: how often a task is executed

Agents == 1 .. LastAgent

ASSUME RoundsAssumption     == LastAgent \in Nat /\ Rounds \in Seq(SUBSET Agents)

Tasks  == {t \in (DOMAIN Rounds) \X Agents : t[2] \in Rounds[t[1]]}

ASSUME ExecutionsAssumption == MaxExecutions \in [Tasks -> Nat]
ASSUME ListsAssumption      == Lists \in [Tasks -> SUBSET Seq(Paths)]

VARIABLES
    round,     \* executions of a stage so far
    running,   \* a stage is being executed
    called,    \* the agents this round has dispatched,
    returned,  \* those whose call has returned,
    collected, \* and what it has returned
    code,      \* code_files in the state of the graph, by path
    worker,    \* the execution of each task
    result,    \* task_result in Redis
    object,    \* the objects of MinIO
    artifacts, \* the rows of artifacts
    workspace  \* the files on the disk

vars == <<round, running, called, returned, collected, code, worker, result, object, artifacts, workspace>>
stage   == <<round, running, called, returned, collected, code>>
storage == <<object, artifacts, workspace>>

\* What a file holds is told by the execution of a task that has answered it, and by
\* its index there: one answer may name a path twice.
Contents == [task : Tasks, execution : Nat \ {0}, index : Nat \ {0}]
Nothing  == [task |-> <<0, 0>>, execution |-> 0, index |-> 0]

Answers  == [task : Tasks, execution : Nat \ {0}, paths : Seq(Paths)]
NoAnswer == [task |-> <<0, 0>>, execution |-> 0, paths |-> <<>>]

\* Mutant of ResultKey: the result is kept under the agent.
ResultKeyOfAgent(t) == <<1, t[2]>>

\* task_result:{task_id}
ResultKey(t) == t

\* Mutant of ObjectKey: the key does not name the task.
ObjectKeyOfRun(t, path) == <<<<1, 1>>, path>>

\* runs/{workflow_run_id}/tasks/{task_id}/code/{path}
ObjectKey(t, path) == <<t, path>>

Init ==
    /\ round = 0 /\ running = FALSE
    /\ called = {} /\ returned = {}
    /\ collected = [a \in Agents |-> NoAnswer]
    /\ code = [path \in Paths |-> Nothing]
    /\ worker = [t \in Tasks |-> [step |-> "idle", answer |-> NoAnswer, next |-> 0]]
    /\ result = [t \in Tasks |-> NoAnswer]
    /\ object = [k \in Tasks \X Paths |-> Nothing]
    /\ artifacts = {}
    /\ workspace = [path \in Paths |-> Nothing]

-----------------------------------------------------------------------------
(* _run_stage.  An agent that is disabled answers nothing; the calls of a stage that *)
(* makes them one after another are among those of a stage that gathers them.        *)

StartRound ==
    /\ ~running /\ round < Len(Rounds)
    /\ round' = round + 1
    /\ running' = TRUE
    /\ called' = {}
    /\ UNCHANGED <<returned, collected, code, worker, result, storage>>

\* dispatch_agent creates a new task and publishes its command.
Dispatch(a) ==
    /\ running /\ a \in Rounds[round] \ called
    /\ called' = called \cup {a}
    /\ UNCHANGED <<round, running, returned, collected, code, worker, result, storage>>

\* The result is in Redis.
Collect(a) ==
    /\ running /\ a \in called \ returned
    /\ result[ResultKey(<<round, a>>)] # NoAnswer
    /\ returned' = returned \cup {a}
    /\ collected' = [collected EXCEPT ![a] = result[ResultKey(<<round, a>>)]]
    /\ UNCHANGED <<round, running, called, code, worker, result, storage>>

\* The deadline, or the status FAILED without a result: a failure without files.
GiveUp(a) ==
    /\ running /\ a \in called \ returned
    /\ returned' = returned \cup {a}
    /\ UNCHANGED <<round, running, called, collected, code, worker, result, storage>>

\* The files of all results, in the order of the agents, merged by their paths: the
\* last one of a path is the one that stays.
MergedCode(path) ==
    LET answered == {a \in Agents : \E i \in DOMAIN collected[a].paths : collected[a].paths[i] = path}
        last     == CHOOSE a \in answered : \A b \in answered : b <= a
        indices  == {i \in DOMAIN collected[last].paths : collected[last].paths[i] = path}
    IN  IF answered = {} THEN code[path]
        ELSE [task |-> collected[last].task, execution |-> collected[last].execution,
              index |-> CHOOSE i \in indices : \A j \in indices : j <= i]

\* Mutant of EndOfRound: what has been gathered stays for the next stage.
EndOfRoundKeeps ==
    /\ running' = FALSE
    /\ UNCHANGED <<returned, collected>>

EndOfRound ==
    /\ running' = FALSE
    /\ returned' = {}
    /\ collected' = [a \in Agents |-> NoAnswer]

EndRound ==
    /\ running /\ returned = Rounds[round]
    /\ EndOfRound
    /\ code' = [path \in Paths |-> MergedCode(path)]
    /\ UNCHANGED <<round, called, worker, result, storage>>

\* A call of the stage raises, or the orchestrator dies: the node is executed again,
\* from the state of its checkpoint, when the run is resumed or retried.  The module
\* takes the checkpoint to survive; a restart with the MemorySaver (saver.py:39) that
\* begins without files, or goes back to an older checkpoint, is not in it.
AbortRound ==
    /\ running
    /\ EndOfRound
    /\ UNCHANGED <<round, called, code, worker, result, storage>>

-----------------------------------------------------------------------------
(* DomainWorker._execute *)

Published(t) == t[1] < round \/ (t[1] = round /\ t[2] \in called)

\* The agent answers.  That the round before is over does not matter.
Execute(t, paths) ==
    /\ Published(t)
    /\ worker[t].step = "idle"
    /\ worker[t].answer.execution < MaxExecutions[t]
    /\ worker' = [worker EXCEPT ![t] =
                    [step |-> "store", next |-> 1,
                     answer |-> [task |-> t, execution |-> @.answer.execution + 1, paths |-> paths]]]
    /\ UNCHANGED <<stage, result, storage>>

\* The file that a step of _store_code_files is about.
Path(t)    == worker[t].answer.paths[worker[t].next]
Content(t) == [task |-> t, execution |-> worker[t].answer.execution, index |-> worker[t].next]

Storing(t, step) == worker[t].step = step /\ worker[t].next <= Len(worker[t].answer.paths)

\* The object, and at once the file in the workspace, which is replaced or cannot be
\* written.
Store(t) ==
    /\ Storing(t, "store")
    /\ object' = [object EXCEPT ![ObjectKey(t, Path(t))] = Content(t)]
    /\ workspace' \in {workspace, [workspace EXCEPT ![Path(t)] = Content(t)]}
    /\ worker' = [worker EXCEPT ![t].step = "record"]
    /\ UNCHANGED <<stage, result, artifacts>>

NextFile(t) == worker' = [worker EXCEPT ![t].step = "store", ![t].next = @ + 1]

\* MinIO refuses the object: the next file.
StoreFails(t) ==
    /\ Storing(t, "store")
    /\ NextFile(t)
    /\ UNCHANGED <<stage, result, storage>>

\* The row of the artifact, whose failure is only logged.
Record(t) ==
    /\ Storing(t, "record")
    /\ artifacts' \in {artifacts, artifacts \cup {[path |-> Path(t), content |-> Content(t)]}}
    /\ NextFile(t)
    /\ UNCHANGED <<stage, result, object, workspace>>

Stored(t) == worker[t].step = "store" /\ worker[t].next > Len(worker[t].answer.paths)

\* The result is the last thing a worker writes.  Its message may come back all the
\* same, when it could not be acknowledged.
Publish(t) ==
    /\ Stored(t)
    /\ result' = [result EXCEPT ![ResultKey(t)] = worker[t].answer]
    /\ worker' = [worker EXCEPT ![t].step = "idle"]
    /\ UNCHANGED <<stage, storage>>

\* The execution, its findings or its status cannot be written: the message is
\* published again.
Raise(t) ==
    /\ Stored(t)
    /\ worker' = [worker EXCEPT ![t].step = "idle"]
    /\ UNCHANGED <<stage, result, storage>>

-----------------------------------------------------------------------------
Next ==
    \/ StartRound \/ EndRound \/ AbortRound
    \/ \E a \in Agents : Dispatch(a) \/ Collect(a) \/ GiveUp(a)
    \/ \E t \in Tasks :
         \/ \E paths \in Lists[t] : Execute(t, paths)
         \/ Store(t) \/ StoreFails(t) \/ Record(t)
         \/ Publish(t) \/ Raise(t)

Spec == Init /\ [][Next]_vars

-----------------------------------------------------------------------------
TypeOK ==
    /\ round \in 0 .. Len(Rounds)
    /\ running \in BOOLEAN
    /\ called \subseteq Agents /\ returned \subseteq called
    /\ collected \in [Agents -> Answers \cup {NoAnswer}]
    /\ code \in [Paths -> Contents \cup {Nothing}]
    /\ worker \in [Tasks -> [step : {"idle", "store", "record"},
                             answer : Answers \cup {NoAnswer}, next : Nat]]
    /\ result \in [Tasks -> Answers \cup {NoAnswer}]
    /\ object \in [Tasks \X Paths -> Contents \cup {Nothing}]
    /\ artifacts \subseteq [path : Paths, content : Contents]
    /\ workspace \in [Paths -> Contents \cup {Nothing}]

\* The files that the next agents read never go back to an earlier round: what late
\* workers, repeated executions and calls that gave up leave behind is never taken
\* for the answer of the round that is under way ("a versão mais nova substitui a
\* antiga do mesmo arquivo", state.py:18).  This is about answers, not about a
\* checkpoint that is lost (see AbortRound).
NeverOlder ==
    [][\A path \in Paths : code'[path] # code[path] =>
          code'[path] # Nothing /\ code'[path].task[1] = round /\ code[path].task[1] <= round]_vars

\* A content of a task, or one that a later step of the same task has put there.
NotOlder(new, old) ==
    /\ new # Nothing /\ new.task = old.task
    /\ \/ new.execution > old.execution
       \/ new.execution = old.execution /\ new.index >= old.index

\* What a person sees of a file, as an artifact of the run or in the workspace
\* ("além da cópia já persistida no MinIO, fonte de verdade", artifacts.py:86), has an
\* object behind it: that of the same task, which no other task ever writes, and
\* which only a repeated execution or a repeated path of this task has replaced.
ObjectBehind ==
    /\ \A row \in artifacts :
         NotOlder(object[ObjectKey(row.content.task, row.path)], row.content)
    /\ \A path \in Paths : workspace[path] # Nothing =>
         NotOlder(object[ObjectKey(workspace[path].task, path)], workspace[path])
=============================================================================
