----------------------------- MODULE RunLifecycle -----------------------------
(***************************************************************************)
(* One workflow run between the API, its row in PostgreSQL and the         *)
(* orchestrator process: the polling loop that starts and resumes it, the  *)
(* asyncio task that executes its graph (run_workflow), the checkpoints,   *)
(* and crashes of the process.  The graph is a row of nodes 1 .. LastNode, *)
(* of which HumanNodes wait for a person; its branches are the subject of  *)
(* DeliveryGraph.  Every write of the status is the UPDATE of the code:    *)
(* unconditional, whatever the row holds by then.                          *)
(***************************************************************************)
EXTENDS Integers

CONSTANTS
    Tasks,       \* asyncio tasks that may execute run_workflow for the run
    LastNode,    \* the last node of the graph
    HumanNodes,  \* the nodes that wait for a person
    Savers,      \* the checkpointers build_checkpointer may end up with
    MaxCrashes,  \* bounds: crashes of the process,
    MaxFaults,   \* exceptions raised in a task,
    MaxCancels,  \* calls of POST /runs/{id}/cancel
    MaxRetries   \* and of POST /runs/{id}/retry

ASSUME TasksAssumption   == Tasks # {}
ASSUME NodesAssumption   == LastNode \in Nat \ {0} /\ HumanNodes \subseteq 2 .. LastNode
ASSUME SaversAssumption  == Savers # {} /\ Savers \subseteq {"postgres", "memory"}
ASSUME BoundsAssumption  == {MaxCrashes, MaxFaults, MaxCancels, MaxRetries} \subseteq Nat

VARIABLES
    status,    \* workflow_runs.status
    stale,     \* workflow_runs.updated_at is older than the threshold
    polled,    \* the row the polling loop has read and not yet dealt with:
               \* "queued", "stale" or "none"
    running,   \* the run is in _running
    pc,        \* where each task is in run_workflow
    resume,    \* its argument resume
    saver,     \* the checkpointer of this process
    thread,    \* what each checkpointer holds for the run: the next node,
               \* 0 for no checkpoint, and current_stage
    calls,     \* API calls that have checked the status and not yet committed
    crashes, faults, cancels, retries, \* counters of the bounds
    delivered, \* history: the graph has reached the end of its last node
    refused    \* history: a person has refused or cancelled the run

apiVars   == <<calls, cancels, retries>>
taskVars  == <<running, pc, resume>>
graphVars == <<saver, thread>>
vars == <<status, stale, polled, taskVars, graphVars, apiVars, crashes, faults,
          delivered, refused>>

Statuses == {"QUEUED", "RUNNING", "WAITING_HUMAN", "RETRYING", "COMPLETED",
             "FAILED_RETRYABLE", "CANCELLED"}

\* The part of RUN_TRANSITIONS that cancel_run consults: who may be cancelled.
Cancellable == Statuses \ {"COMPLETED", "CANCELLED"}

Resumable == {"RUNNING", "WAITING_HUMAN"}

End == LastNode + 1
NoThread == [next |-> 0, stage |-> "open"]

\* start_run commits the row once it is QUEUED.
Init ==
    /\ status = "QUEUED"
    /\ stale = FALSE
    /\ polled = "none"
    /\ running = FALSE
    /\ pc = [t \in Tasks |-> "none"]
    /\ resume = [t \in Tasks |-> FALSE]
    /\ saver \in Savers
    /\ thread = [s \in Savers |-> NoThread]
    /\ calls = {}
    /\ crashes = 0 /\ faults = 0 /\ cancels = 0 /\ retries = 0
    /\ delivered = FALSE
    /\ refused = FALSE

-----------------------------------------------------------------------------
(* The polling loop.  It awaits the rows of a query, and uses them after.   *)

FetchQueued ==
    /\ polled = "none"
    /\ status \in {"QUEUED", "RETRYING"}
    /\ polled' = "queued"
    /\ UNCHANGED <<status, stale, taskVars, graphVars, apiVars, crashes, faults,
                   delivered, refused>>

\* Mutant of FetchStale: only RUNNING is looked for.
FetchStaleRunning ==
    /\ polled = "none"
    /\ status = "RUNNING"
    /\ stale
    /\ polled' = "stale"
    /\ UNCHANGED <<status, stale, taskVars, graphVars, apiVars, crashes, faults,
                   delivered, refused>>

FetchStale ==
    /\ polled = "none"
    /\ status \in Resumable
    /\ stale
    /\ polled' = "stale"
    /\ UNCHANGED <<status, stale, taskVars, graphVars, apiVars, crashes, faults,
                   delivered, refused>>

\* Mutant of StartPolled: a run that is in _running is started all the same.
StartPolledUnguarded(t) ==
    /\ polled # "none"
    /\ polled' = "none"
    /\ pc[t] = "none"
    /\ running' = TRUE
    /\ pc' = [pc EXCEPT ![t] = "marking"]
    /\ resume' = [resume EXCEPT ![t] = (polled = "stale")]
    /\ UNCHANGED <<status, stale, graphVars, apiVars, crashes, faults, delivered,
                   refused>>

\* The loop creates the task and the task enters _running without an await
\* between, unless the run is there already.
StartPolled(t) ==
    /\ polled # "none"
    /\ polled' = "none"
    /\ pc[t] = "none"
    /\ \/ /\ running
          /\ UNCHANGED taskVars
       \/ /\ ~running
          /\ running' = TRUE
          /\ pc' = [pc EXCEPT ![t] = "marking"]
          /\ resume' = [resume EXCEPT ![t] = (polled = "stale")]
    /\ UNCHANGED <<status, stale, graphVars, apiVars, crashes, faults, delivered,
                   refused>>

\* Time: a stage or a person takes longer than the threshold.
BecomeStale ==
    /\ ~stale
    /\ status \in Resumable
    /\ stale' = TRUE
    /\ UNCHANGED <<status, polled, taskVars, graphVars, apiVars, crashes, faults,
                   delivered, refused>>

-----------------------------------------------------------------------------
(* run_workflow. *)

\* db.update_run with a status: it always sets updated_at.
Mark(new) == status' = new /\ stale' = FALSE

Goto(t, from, to) == pc[t] = from /\ pc' = [pc EXCEPT ![t] = to]

\* The finally clause.
Leave(t) ==
    /\ running' = FALSE
    /\ pc' = [pc EXCEPT ![t] = "none"]
    /\ resume' = [resume EXCEPT ![t] = FALSE]

MarkRunning(t) ==
    /\ Goto(t, "marking", "loading")
    /\ Mark("RUNNING")
    /\ UNCHANGED <<polled, running, resume, graphVars, apiVars, crashes, faults,
                   delivered, refused>>

\* Mutant of Load: a resume does not ask whether there is a checkpoint.
LoadUnchecked(t) ==
    /\ Goto(t, "loading", "node")
    /\ thread' = IF resume[t] THEN thread ELSE [thread EXCEPT ![saver].next = 1]
    /\ UNCHANGED <<status, stale, polled, running, resume, saver, apiVars, crashes,
                   faults, delivered, refused>>

\* With a checkpoint and resume, ainvoke(None) goes on at the next node; else
\* the full input restarts the graph, and current_stage is merged, not reset.
Load(t) ==
    /\ Goto(t, "loading", "node")
    /\ thread' = IF resume[t] /\ thread[saver].next # 0 THEN thread
                 ELSE [thread EXCEPT ![saver].next = 1]
    /\ UNCHANGED <<status, stale, polled, running, resume, saver, apiVars, crashes,
                   faults, delivered, refused>>

NextNode == thread[saver].next

\* Mutant of RunNode: the end of the graph is run like a node.
RunNodePastEnd(t) ==
    /\ Goto(t, "node", "node")
    /\ NextNode \in (1 .. End) \ HumanNodes
    /\ Mark(status)
    /\ thread' = [thread EXCEPT ![saver].next = NextNode + 1]
    /\ UNCHANGED <<polled, running, resume, saver, apiVars, crashes, faults, delivered,
                   refused>>

\* A stage: it touches the row, unless it has no agents, and triage also sets its
\* status.
RunNode(t) ==
    /\ Goto(t, "node", "node")
    /\ NextNode \in (1 .. LastNode) \ HumanNodes
    /\ Mark(IF NextNode = 1 THEN "RUNNING" ELSE status)
    /\ thread' = [thread EXCEPT ![saver] =
                    [next  |-> NextNode + 1,
                     stage |-> IF NextNode = LastNode THEN "delivered" ELSE "open"]]
    /\ delivered' = (delivered \/ NextNode = LastNode)
    /\ UNCHANGED <<polled, running, resume, saver, apiVars, crashes, faults, refused>>

\* A human node creates its approval and polls it.
Request(t) ==
    /\ Goto(t, "node", "waiting")
    /\ NextNode \in HumanNodes
    /\ Mark("WAITING_HUMAN")
    /\ UNCHANGED <<polled, running, resume, graphVars, apiVars, crashes, faults,
                   delivered, refused>>

Answer(t) ==
    /\ Goto(t, "waiting", "node")
    /\ Mark("RUNNING")
    /\ \/ /\ thread' = [thread EXCEPT ![saver] =
                            [next  |-> NextNode + 1,
                             stage |-> IF NextNode = LastNode THEN "delivered" ELSE @.stage]]
          /\ delivered' = (delivered \/ NextNode = LastNode)
          /\ UNCHANGED refused
       \/ /\ thread' = [thread EXCEPT ![saver] = [next |-> End, stage |-> "cancelled"]]
          /\ refused' = TRUE
          /\ UNCHANGED delivered
    /\ UNCHANGED <<polled, running, resume, saver, apiVars, crashes, faults>>

\* Mutant of GraphEnds: any graph that ends has delivered.
GraphEndsDelivered(t) ==
    /\ Goto(t, "node", "completing")
    /\ NextNode = End
    /\ UNCHANGED <<status, stale, polled, running, resume, graphVars, apiVars,
                   crashes, faults, delivered, refused>>

GraphEnds(t) ==
    /\ Goto(t, "node", IF thread[saver].stage = "delivered" THEN "completing"
                                                          ELSE "cancelling")
    /\ NextNode = End
    /\ UNCHANGED <<status, stale, polled, running, resume, graphVars, apiVars,
                   crashes, faults, delivered, refused>>

MarkCompleted(t) ==
    /\ Goto(t, "completing", "auditing")
    /\ Mark("COMPLETED")
    /\ UNCHANGED <<polled, running, resume, graphVars, apiVars, crashes, faults,
                   delivered, refused>>

\* The audit event workflow.completed is recorded and the task ends.
AuditCompleted(t) ==
    /\ pc[t] = "auditing"
    /\ Leave(t)
    /\ UNCHANGED <<status, stale, polled, graphVars, apiVars, crashes,
                   faults, delivered, refused>>

MarkCancelled(t) ==
    /\ pc[t] = "cancelling"
    /\ Leave(t)
    /\ Mark("CANCELLED")
    /\ UNCHANGED <<polled, graphVars, apiVars, crashes, faults, delivered,
                   refused>>

\* An exception anywhere in the try block: a database write given up after its
\* retries, the checkpointer, a node, the recursion limit, the audit event.
Raise(t) ==
    /\ faults < MaxFaults
    /\ faults' = faults + 1
    /\ pc[t] \notin {"none", "failing", "reporting"}
    /\ pc' = [pc EXCEPT ![t] = "failing"]
    /\ UNCHANGED <<status, stale, polled, running, resume, graphVars, apiVars,
                   crashes, delivered, refused>>

MarkFailed(t) ==
    /\ Goto(t, "failing", "reporting")
    /\ Mark("FAILED_RETRYABLE")
    /\ UNCHANGED <<polled, running, resume, graphVars, apiVars, crashes, faults,
                   delivered, refused>>

\* The audit event workflow.failed is recorded, or that fails and is logged.
AuditFailed(t) ==
    /\ pc[t] = "reporting"
    /\ Leave(t)
    /\ UNCHANGED <<status, stale, polled, graphVars, apiVars, crashes, faults,
                   delivered, refused>>

\* Even the status of the failure cannot be written: it is only logged.
MarkFailedFails(t) ==
    /\ faults < MaxFaults
    /\ faults' = faults + 1
    /\ pc[t] = "failing"
    /\ Leave(t)
    /\ UNCHANGED <<status, stale, polled, graphVars, apiVars, crashes,
                   delivered, refused>>

\* The process dies and starts again: its memory is gone, and it may have to do
\* with the other checkpointer.
Crash ==
    /\ crashes < MaxCrashes
    /\ crashes' = crashes + 1
    /\ polled' = "none"
    /\ running' = FALSE
    /\ pc' = [t \in Tasks |-> "none"]
    /\ resume' = [t \in Tasks |-> FALSE]
    /\ saver' \in Savers
    /\ thread' = [s \in Savers |-> IF s = "memory" THEN NoThread ELSE thread[s]]
    /\ UNCHANGED <<status, stale, apiVars, faults, delivered, refused>>

-----------------------------------------------------------------------------
(* The API.  A handler reads the row, checks its status, and commits later. *)

CheckCancel ==
    /\ cancels < MaxCancels
    /\ "cancel" \notin calls
    /\ status \in Cancellable
    /\ calls' = calls \cup {"cancel"}
    /\ cancels' = cancels + 1
    /\ UNCHANGED <<status, stale, polled, taskVars, graphVars, retries, crashes,
                   faults, delivered, refused>>

CommitCancel ==
    /\ "cancel" \in calls
    /\ calls' = calls \ {"cancel"}
    /\ Mark("CANCELLED")
    /\ refused' = TRUE
    /\ UNCHANGED <<polled, taskVars, graphVars, cancels, retries, crashes, faults,
                   delivered>>

CheckRetry ==
    /\ retries < MaxRetries
    /\ "retry" \notin calls
    /\ status = "FAILED_RETRYABLE"
    /\ calls' = calls \cup {"retry"}
    /\ retries' = retries + 1
    /\ UNCHANGED <<status, stale, polled, taskVars, graphVars, cancels, crashes,
                   faults, delivered, refused>>

CommitRetry ==
    /\ "retry" \in calls
    /\ calls' = calls \ {"retry"}
    /\ Mark("RETRYING")
    /\ UNCHANGED <<polled, taskVars, graphVars, cancels, retries, crashes, faults,
                   delivered, refused>>

-----------------------------------------------------------------------------
Poll == FetchQueued \/ FetchStale \/ \E t \in Tasks : StartPolled(t)

TaskStep(t) ==
    \/ MarkRunning(t) \/ Load(t) \/ RunNode(t) \/ Request(t) \/ GraphEnds(t)
    \/ MarkCompleted(t) \/ AuditCompleted(t) \/ MarkCancelled(t)
    \/ MarkFailed(t) \/ AuditFailed(t)

Next ==
    \/ Poll
    \/ BecomeStale
    \/ \E t \in Tasks : TaskStep(t) \/ Answer(t) \/ Raise(t) \/ MarkFailedFails(t)
    \/ Crash
    \/ CheckCancel \/ CommitCancel \/ CheckRetry \/ CommitRetry

Spec == Init /\ [][Next]_vars

\* The loop polls every five seconds and time passes; a task that is not
\* waiting for a person goes on.  Nobody is obliged to decide, cancel or retry.
FairSpec ==
    /\ Spec
    /\ WF_vars(Poll)
    /\ WF_vars(BecomeStale)
    /\ \A t \in Tasks : WF_vars(TaskStep(t))

-----------------------------------------------------------------------------
(* What the orchestrator promises for a run. *)

TypeOK ==
    /\ status \in Statuses
    /\ stale \in BOOLEAN
    /\ polled \in {"none", "queued", "stale"}
    /\ running \in BOOLEAN
    /\ pc \in [Tasks -> {"none", "marking", "loading", "node", "waiting",
                         "completing", "auditing", "cancelling", "failing", "reporting"}]
    /\ resume \in [Tasks -> BOOLEAN]
    /\ saver \in Savers
    /\ thread \in [Savers -> [next : 0 .. End, stage : {"open", "delivered", "cancelled"}]]
    /\ calls \in SUBSET {"cancel", "retry"}
    /\ crashes \in 0 .. MaxCrashes /\ faults \in 0 .. MaxFaults
    /\ cancels \in 0 .. MaxCancels /\ retries \in 0 .. MaxRetries
    /\ delivered \in BOOLEAN /\ refused \in BOOLEAN

\* One run is never executed by two tasks of the process, also while it waits
\* for a person so long that its row looks orphaned (test_main_resilience.py:170),
\* and _running holds it exactly as long as a task does.
OneTaskPerRun ==
    /\ \A t, u \in Tasks : pc[t] # "none" /\ pc[u] # "none" => t = u
    /\ running <=> \E t \in Tasks : pc[t] # "none"

\* A terminal status has its cause, whatever restarts, resumes and retries came
\* before: COMPLETED means that the graph went through its last node, and
\* CANCELLED that a person refused or cancelled the run.
TerminalHasCause ==
    /\ status = "COMPLETED" => delivered
    /\ status = "CANCELLED" => refused

\* A task never executes the graph without a checkpoint to continue from, and
\* an ended graph is not executed: what a task is at fits its own checkpointer.
ExecutesFromCheckpoint ==
    \A t \in Tasks :
        /\ pc[t] = "node" => thread[saver].next \in 1 .. End
        /\ pc[t] = "waiting" => thread[saver].next \in HumanNodes
        /\ pc[t] = "completing" => thread[saver] = [next |-> End, stage |-> "delivered"]
        /\ pc[t] = "cancelling" => thread[saver] = [next |-> End, stage |-> "cancelled"]

\* No run stays orphaned: after crashes, lost checkpoints and failures that could
\* not even be recorded, it comes again to a person who decides, to a terminal
\* status or to FAILED_RETRYABLE (README, "Resiliência do orquestrador").
NeverOrphanedForever ==
    []<>( \/ status \in {"COMPLETED", "CANCELLED", "FAILED_RETRYABLE"}
          \/ \E t \in Tasks : pc[t] = "waiting" )

\* CANCELLED is terminal (RUN_TRANSITIONS in shared/contracts/states.py, and its
\* rule "transições inválidas devem retornar erro").
CancelIsFinal == [][status = "CANCELLED" => status' = "CANCELLED"]_vars

=============================================================================
