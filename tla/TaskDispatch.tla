----------------------------- MODULE TaskDispatch -----------------------------
(***************************************************************************)
(* One agent task from dispatch_agent of the orchestrator, through its     *)
(* RabbitMQ queue, to the domain workers that execute it and back through  *)
(* Redis: idempotence by message_id, retry with a republished copy, dead   *)
(* letter, and crashes, lost connections and exceptions at every await.    *)
(* The queue is the broker's: it gives a copy to one consumer at a time    *)
(* (prefetch 1) and takes it back when the consumer's channel is gone.     *)
(***************************************************************************)
EXTENDS Integers

CONSTANTS
    Workers,     \* the processes that consume the queue
    MaxAttempts, \* MESSAGE_MAX_ATTEMPTS, and tasks.max_attempts
    Verdicts,    \* what an agent may answer
    MaxFaults,   \* bounds: exceptions inside _execute,
    MaxBreaks,   \* crashes, lost connections and exceptions in _handle of workers,
    MaxRetries   \* and calls of POST /tasks/{id}/retry

ASSUME WorkersAssumption  == Workers # {}
ASSUME AttemptsAssumption == MaxAttempts \in Nat \ {0}
ASSUME VerdictsAssumption ==
    Verdicts # {} /\ Verdicts \subseteq {"approved", "changes_requested", "blocked", "failed"}
ASSUME BoundsAssumption   == {MaxFaults, MaxBreaks, MaxRetries} \subseteq Nat

Attempts == 1 .. MaxAttempts

VARIABLES
    caller,    \* where dispatch_agent is; "returned" once it has ended
    expired,   \* the deadline of the call has passed
    outcome,   \* what the call returned: a verdict, "no_result", "timeout" or
               \* "raised"; "none" before
    status,    \* tasks.status, "none" before create_task
    attempt,   \* tasks.attempt
    queued,    \* copies of the message in the queue, by envelope.attempt
    dead,      \* copies in the dead-letter queue
    job,       \* what each worker does: its place in _handle and _execute, the
               \* attempt of its copy, the verdict of its agent, and whether the
               \* broker still takes an ack of the copy from it
    processed, \* the Redis key processed:<message_id> exists
    result,    \* the Redis key task_result:<task_id>, "none" while absent
    retrying,  \* a retry of the task was checked and is not yet committed
    faults, breaks, retries, \* counters of the bounds
    sent,      \* history: the command has been published
    executions,\* history: executions started
    persisted  \* history: verdicts whose execution and findings are stored

orchestratorVars == <<caller, expired, outcome, sent>>
brokerVars == <<queued, dead>>
redisVars  == <<processed, result>>
taskRow    == <<status, attempt>>
apiVars    == <<retrying, retries>>
history    == <<executions, persisted>>
vars == <<orchestratorVars, brokerVars, redisVars, taskRow, apiVars, history,
          job, faults, breaks>>

Idle == [pc |-> "idle", attempt |-> 1, verdict |-> "none", attached |-> FALSE]

Init ==
    /\ caller = "create" /\ expired = FALSE /\ outcome = "none" /\ sent = FALSE
    /\ status = "none" /\ attempt = 0
    /\ queued = [a \in Attempts |-> 0] /\ dead = 0
    /\ job = [w \in Workers |-> Idle]
    /\ processed = FALSE /\ result = "none"
    /\ retrying = FALSE /\ retries = 0
    /\ faults = 0 /\ breaks = 0
    /\ executions = 0 /\ persisted = {}

-----------------------------------------------------------------------------
(* dispatch_agent. *)

CreateTask ==
    /\ caller = "create"
    /\ caller' = "publish"
    /\ status' = "READY"
    /\ UNCHANGED <<expired, outcome, sent, attempt, brokerVars, redisVars, apiVars,
                   history, job, faults, breaks>>

Publish ==
    /\ caller = "publish"
    /\ caller' = "result"
    /\ queued' = [queued EXCEPT ![1] = @ + 1]
    /\ sent' = TRUE
    /\ UNCHANGED <<expired, outcome, dead, redisVars, taskRow, apiVars, history, job,
                   faults, breaks>>

Return(value) == caller' = "returned" /\ outcome' = value

\* Mutant of ReadResult: the loop does not look at its deadline.
ReadResultUnbounded ==
    /\ caller = "result"
    /\ \/ result # "none" /\ Return(result)
       \/ result = "none" /\ caller' = "status" /\ UNCHANGED outcome
    /\ UNCHANGED <<expired, sent, brokerVars, redisVars, taskRow, apiVars, history,
                   job, faults, breaks>>

\* The head of the loop: before the deadline, the result is looked up first.
ReadResult ==
    /\ caller = "result"
    /\ ~expired
    /\ \/ result # "none" /\ Return(result)
       \/ result = "none" /\ caller' = "status" /\ UNCHANGED outcome
    /\ UNCHANGED <<expired, sent, brokerVars, redisVars, taskRow, apiVars, history,
                   job, faults, breaks>>

\* No code sets a task to CANCELLED, the other status that ends the loop.
ReadStatus ==
    /\ caller = "status"
    /\ \/ status = "FAILED" /\ Return("no_result")
       \/ status # "FAILED" /\ caller' = "result" /\ UNCHANGED outcome
    /\ UNCHANGED <<expired, sent, brokerVars, redisVars, taskRow, apiVars, history,
                   job, faults, breaks>>

DeadlinePasses ==
    /\ caller \in {"result", "status"}
    /\ ~expired
    /\ expired' = TRUE
    /\ UNCHANGED <<caller, outcome, sent, brokerVars, redisVars, taskRow, apiVars,
                   history, job, faults, breaks>>

TimeOut ==
    /\ caller = "result"
    /\ expired
    /\ Return("timeout")
    /\ UNCHANGED <<expired, sent, brokerVars, redisVars, taskRow, apiVars, history,
                   job, faults, breaks>>

\* The orchestrator dies, or an await of the call raises.
CallerRaises ==
    /\ caller # "returned"
    /\ Return("raised")
    /\ UNCHANGED <<expired, sent, brokerVars, redisVars, taskRow, apiVars, history,
                   job, faults, breaks>>

-----------------------------------------------------------------------------
(* DomainWorker._handle up to the execution. *)

At(w, pc)   == job[w].pc = pc
Goto(w, pc) == job' = [job EXCEPT ![w].pc = pc]
Rest(w)     == job' = [job EXCEPT ![w] = Idle]

Deliver(w) ==
    /\ At(w, "idle")
    /\ \E a \in Attempts :
          /\ queued[a] > 0
          /\ queued' = [queued EXCEPT ![a] = @ - 1]
          /\ job' = [job EXCEPT ![w] = [pc |-> "received", attempt |-> a,
                                        verdict |-> "none", attached |-> TRUE]]
    /\ UNCHANGED <<orchestratorVars, dead, redisVars, taskRow, apiVars, history,
                   faults, breaks>>

\* Mutant of Claim: SET without NX.
ClaimAlways(w) ==
    /\ At(w, "received")
    /\ processed' = TRUE
    /\ Goto(w, "claimed")
    /\ UNCHANGED <<orchestratorVars, brokerVars, result, taskRow, apiVars, history,
                   faults, breaks>>

\* SETNX wrote the key: this is the first delivery of the message_id.
Claim(w) ==
    /\ At(w, "received")
    /\ ~processed
    /\ processed' = TRUE
    /\ Goto(w, "claimed")
    /\ UNCHANGED <<orchestratorVars, brokerVars, result, taskRow, apiVars, history,
                   faults, breaks>>

\* The key was there: a duplicate, acknowledged and dropped.
DropDuplicate(w) ==
    /\ At(w, "received")
    /\ processed
    /\ Rest(w)
    /\ UNCHANGED <<orchestratorVars, brokerVars, redisVars, taskRow, apiVars, history,
                   faults, breaks>>

-----------------------------------------------------------------------------
(* DomainWorker._execute. *)

Begin(w) ==
    /\ At(w, "claimed")
    /\ Goto(w, "running")
    /\ status' = "IN_PROGRESS"
    /\ attempt' = attempt + 1
    /\ executions' = executions + 1
    /\ UNCHANGED <<orchestratorVars, brokerVars, redisVars, apiVars, persisted,
                   faults, breaks>>

AgentAnswers(w) ==
    /\ At(w, "running")
    /\ \E v \in Verdicts :
          job' = [job EXCEPT ![w].pc = "answered", ![w].verdict = v]
    /\ UNCHANGED <<orchestratorVars, brokerVars, redisVars, taskRow, apiVars, history,
                   faults, breaks>>

\* The artifact, the code files, the execution and its findings.
Persist(w) ==
    /\ At(w, "answered")
    /\ Goto(w, "persisted")
    /\ persisted' = persisted \cup {job[w].verdict}
    /\ UNCHANGED <<orchestratorVars, brokerVars, redisVars, taskRow, apiVars,
                   executions, faults, breaks>>

\* Mutant of FinalStatus: the status of the execution for that of the task.
FinalStatusOfExecution(verdict) == IF verdict = "failed" THEN "FAILED" ELSE "COMPLETED"

FinalStatus(verdict) ==
    CASE verdict = "blocked" -> "BLOCKED"
      [] verdict = "failed"  -> "FAILED"
      [] OTHER               -> "DONE"

SetFinalStatus(w) ==
    /\ At(w, "persisted")
    /\ Goto(w, "statused")
    /\ status' = FinalStatus(job[w].verdict)
    /\ UNCHANGED <<orchestratorVars, brokerVars, redisVars, attempt, apiVars, history,
                   faults, breaks>>

\* Mutant of StoreResult: the result is published as soon as it is known.
StoreResultEarly(w) ==
    /\ At(w, "answered")
    /\ Goto(w, "stored")
    /\ result' = job[w].verdict
    /\ UNCHANGED <<orchestratorVars, brokerVars, processed, taskRow, apiVars, history,
                   faults, breaks>>

StoreResult(w) ==
    /\ At(w, "statused")
    /\ Goto(w, "stored")
    /\ result' = job[w].verdict
    /\ UNCHANGED <<orchestratorVars, brokerVars, processed, taskRow, apiVars, history,
                   faults, breaks>>

Ack(w) ==
    /\ At(w, "stored")
    /\ job[w].attached
    /\ Rest(w)
    /\ UNCHANGED <<orchestratorVars, brokerVars, redisVars, taskRow, apiVars, history,
                   faults, breaks>>

\* The channel of the delivery is gone: ack raises inside the try block.
AckRaises(w) ==
    /\ At(w, "stored")
    /\ ~job[w].attached
    /\ Goto(w, "failing")
    /\ UNCHANGED <<orchestratorVars, brokerVars, redisVars, taskRow, apiVars, history,
                   faults, breaks>>

InExecute == {"claimed", "running", "answered", "persisted", "statused", "stored"}

ExecuteRaises(w) ==
    /\ faults < MaxFaults
    /\ faults' = faults + 1
    /\ job[w].pc \in InExecute \ {"stored"}
    /\ Goto(w, "failing")
    /\ UNCHANGED <<orchestratorVars, brokerVars, redisVars, taskRow, apiVars, history,
                   breaks>>

-----------------------------------------------------------------------------
(* The except clause of _handle. *)

\* Mutant of DeleteKey: the key outlives the failed execution.
KeepKey(w) ==
    /\ At(w, "failing")
    /\ Goto(w, "unlocked")
    /\ UNCHANGED <<orchestratorVars, brokerVars, redisVars, taskRow, apiVars, history,
                   faults, breaks>>

DeleteKey(w) ==
    /\ At(w, "failing")
    /\ processed' = FALSE
    /\ Goto(w, "unlocked")
    /\ UNCHANGED <<orchestratorVars, brokerVars, result, taskRow, apiVars, history,
                   faults, breaks>>

\* A reject the broker no longer takes raises, and leaves _handle.
Reject(w) ==
    /\ At(w, "unlocked")
    /\ job[w].attempt >= MaxAttempts
    /\ dead' = IF job[w].attached THEN dead + 1 ELSE dead
    /\ Rest(w)
    /\ UNCHANGED <<orchestratorVars, queued, redisVars, taskRow, apiVars, history,
                   faults, breaks>>

\* Mutant of Republish: the copy has the attempt of the original.
RepublishSameAttempt(w) ==
    /\ At(w, "unlocked")
    /\ job[w].attempt < MaxAttempts
    /\ queued' = [queued EXCEPT ![job[w].attempt] = @ + 1]
    /\ Goto(w, "republished")
    /\ UNCHANGED <<orchestratorVars, dead, redisVars, taskRow, apiVars, history,
                   faults, breaks>>

\* After the backoff, on a connection of its own.
Republish(w) ==
    /\ At(w, "unlocked")
    /\ job[w].attempt < MaxAttempts
    /\ queued' = [queued EXCEPT ![job[w].attempt + 1] = @ + 1]
    /\ Goto(w, "republished")
    /\ UNCHANGED <<orchestratorVars, dead, redisVars, taskRow, apiVars, history,
                   faults, breaks>>

\* The ack of the original; without its channel it raises and leaves _handle.
AckOriginal(w) ==
    /\ At(w, "republished")
    /\ Rest(w)
    /\ UNCHANGED <<orchestratorVars, brokerVars, redisVars, taskRow, apiVars, history,
                   faults, breaks>>

\* The copies of a worker that is gone, or has left its channel, are requeued.
Requeue(w) ==
    queued' = [queued EXCEPT ![job[w].attempt] = IF job[w].attached THEN @ + 1 ELSE @]

\* Redis, or the broker of the republication, fails outside the try block: _handle
\* raises, _consume ends and start() consumes on a new channel.  Nobody closes the old
\* connection (consumer.py:56), so the broker gives the copy back when that connection
\* ends and not at once; the time until then is that before its Deliver, which nothing
\* obliges to come.
HandleRaises(w) ==
    /\ breaks < MaxBreaks
    /\ breaks' = breaks + 1
    /\ job[w].pc \in {"received", "failing", "unlocked", "republished"}
    /\ Rest(w)
    /\ Requeue(w)
    /\ UNCHANGED <<orchestratorVars, dead, redisVars, taskRow, apiVars, history, faults>>

\* The worker process dies; its successor starts idle.
Crash(w) ==
    /\ breaks < MaxBreaks
    /\ breaks' = breaks + 1
    /\ ~At(w, "idle")
    /\ Rest(w)
    /\ Requeue(w)
    /\ UNCHANGED <<orchestratorVars, dead, redisVars, taskRow, apiVars, history, faults>>

\* The connection is lost under a worker that goes on executing.
LoseConnection(w) ==
    /\ breaks < MaxBreaks
    /\ breaks' = breaks + 1
    /\ job[w].attached
    /\ job' = [job EXCEPT ![w].attached = FALSE]
    /\ Requeue(w)
    /\ UNCHANGED <<orchestratorVars, dead, redisVars, taskRow, apiVars, history, faults>>

-----------------------------------------------------------------------------
(* POST /tasks/{id}/retry: checks the row it read, and commits later.  No   *)
(* command is published for the READY task.                                 *)

CheckRetry ==
    /\ retries < MaxRetries
    /\ retries' = retries + 1
    /\ ~retrying
    /\ status \in {"FAILED", "BLOCKED"}
    /\ attempt < MaxAttempts
    /\ retrying' = TRUE
    /\ UNCHANGED <<orchestratorVars, brokerVars, redisVars, taskRow, history, job,
                   faults, breaks>>

CommitRetry ==
    /\ retrying
    /\ retrying' = FALSE
    /\ status' = "READY"
    /\ UNCHANGED <<orchestratorVars, brokerVars, redisVars, attempt, retries, history,
                   job, faults, breaks>>

-----------------------------------------------------------------------------
CallerStep == CreateTask \/ Publish \/ ReadResult \/ ReadStatus \/ TimeOut

WorkerStep(w) ==
    \/ Deliver(w) \/ Claim(w) \/ DropDuplicate(w)
    \/ Begin(w) \/ AgentAnswers(w) \/ Persist(w) \/ SetFinalStatus(w) \/ StoreResult(w)
    \/ Ack(w) \/ AckRaises(w)
    \/ DeleteKey(w) \/ Reject(w) \/ Republish(w) \/ AckOriginal(w)

WorkerFault(w) ==
    ExecuteRaises(w) \/ HandleRaises(w) \/ Crash(w) \/ LoseConnection(w)

Next ==
    \/ CallerStep
    \/ DeadlinePasses
    \/ CallerRaises
    \/ \E w \in Workers : WorkerStep(w) \/ WorkerFault(w)
    \/ CheckRetry \/ CommitRetry

Spec == Init /\ [][Next]_vars

\* Time passes and the call goes on polling.  Nothing is assumed of a worker:
\* the agent it runs may take longer than the deadline, or for ever.
FairSpec == Spec /\ WF_vars(CallerStep) /\ WF_vars(DeadlinePasses)

-----------------------------------------------------------------------------
(* What the dispatch of a task promises. *)

Executing == {w \in Workers : job[w].pc \in InExecute \cup {"failing"}}

TypeOK ==
    /\ caller \in {"create", "publish", "result", "status", "returned"}
    /\ expired \in BOOLEAN
    /\ outcome \in Verdicts \cup {"none", "no_result", "timeout", "raised"}
    /\ status \in {"none", "READY", "IN_PROGRESS", "DONE", "BLOCKED", "FAILED"}
    /\ attempt \in Nat
    /\ queued \in [Attempts -> Nat]
    /\ dead \in Nat
    /\ job \in [Workers ->
                  [pc : InExecute \cup {"idle", "received", "failing", "unlocked",
                                        "republished"},
                   attempt : Attempts, verdict : Verdicts \cup {"none"},
                   attached : BOOLEAN]]
    /\ processed \in BOOLEAN
    /\ result \in Verdicts \cup {"none"}
    /\ retrying \in BOOLEAN
    /\ faults \in 0 .. MaxFaults /\ breaks \in 0 .. MaxBreaks /\ retries \in 0 .. MaxRetries
    /\ sent \in BOOLEAN
    /\ executions \in Nat
    /\ persisted \in SUBSET Verdicts

\* The agent of a task is never run by two workers at once: while one is between
\* SETNX and the deletion of the key, every other copy of the message, whether
\* republished or redelivered after a lost connection, is a duplicate.
OneExecution ==
    /\ \A v, w \in Executing : v = w
    /\ Executing # {} => processed

\* A message is executed at most MaxAttempts times; each crash, lost connection
\* or exception in the consumer can give back one copy, with attempts of its own.
ExecutionBudget == executions <= MaxAttempts * (1 + breaks)

\* What the execution under way has stored, and not yet given up.
Keeping == {w \in Workers : job[w].pc \in {"persisted", "statused", "stored"}}
Kept    == {job[w].verdict : w \in Keeping}

Execution ==
    INSTANCE ExclusiveExecution WITH
        executing <- Executing,
        kept <- Kept,
        stored <- persisted,
        answer <- result

\* Whatever copies, redeliveries, deleted keys, crashes and retries there are, the
\* task is executed by one worker after the other, each of which answers only the
\* verdict whose execution and findings it has stored itself; the call returns
\* once, and a verdict only if it was answered.
ImplementsExclusiveExecution == Execution!Spec

\* No worker has the message, and no copy of it is left to be delivered.
Consumed ==
    /\ sent
    /\ \A a \in Attempts : queued[a] = 0
    /\ \A w \in Workers : At(w, "idle")

\* As long as processes and connections live, a message is not lost by the
\* retries: when nobody has it any more, its result is in Redis or the message
\* is in the dead-letter queue.
ResultOrDeadLetter == breaks = 0 /\ Consumed => result # "none" \/ dead > 0

\* dispatch_agent always ends, also when no worker ever answers.
CallReturns == <>(caller = "returned")

\* "confirmação manual somente após persistência do resultado"
\* (workers/base/consumer.py:4): a message that was acknowledged and not sent
\* on has left a persisted result, or a dead letter.
AckOnlyAfterPersistence == Consumed => persisted # {} \/ dead > 0
=============================================================================
