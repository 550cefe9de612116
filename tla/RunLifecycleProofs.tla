-------------------------- MODULE RunLifecycleProofs --------------------------
(* Theorems about RunLifecycle, for any graph, tasks, savers and bounds. *)
EXTENDS RunLifecycle, TLAPS

\* The end of a graph is reached with a stage that tells why, whichever of the
\* checkpointers holds it.
EndHasStage ==
    \A s \in Savers :
        /\ thread[s].next = End => thread[s].stage # "open"
        /\ thread[s].stage = "delivered" => delivered
        /\ thread[s].stage = "cancelled" => refused

\* TerminalHasCause holds because a task writes a terminal status only for a
\* thread at its end, ExecutesFromCheckpoint because no other task moves it.
IInv ==
    /\ TypeOK
    /\ OneTaskPerRun
    /\ TerminalHasCause
    /\ ExecutesFromCheckpoint
    /\ EndHasStage

USE NodesAssumption, SaversAssumption, BoundsAssumption
    DEF IInv, TypeOK, Statuses, End, taskVars, graphVars, apiVars

-----------------------------------------------------------------------------

LEMMA InitIInv == Init => IInv
<1> SUFFICES ASSUME Init PROVE IInv
  OBVIOUS
<1>1. \A s \in Savers : thread[s] = [next |-> 0, stage |-> "open"]
  BY DEF Init, NoThread
<1>2. TypeOK
  <2>1. thread \in [Savers -> [next : 0 .. End, stage : {"open", "delivered", "cancelled"}]]
    BY DEF Init, NoThread
  <2>2. /\ crashes \in 0 .. MaxCrashes /\ faults \in 0 .. MaxFaults
        /\ cancels \in 0 .. MaxCancels /\ retries \in 0 .. MaxRetries
    BY DEF Init
  <2>3. /\ status \in Statuses /\ polled \in {"none", "queued", "stale"}
        /\ calls \in SUBSET {"cancel", "retry"} /\ saver \in Savers
        /\ {stale, running, delivered, refused} \subseteq BOOLEAN
    BY DEF Init
  <2>4. /\ pc \in [Tasks -> {"none", "marking", "loading", "node", "waiting",
                             "completing", "auditing", "cancelling", "failing",
                             "reporting"}]
        /\ resume \in [Tasks -> BOOLEAN]
    BY DEF Init
  <2> QED
    BY <2>1, <2>2, <2>3, <2>4
<1>3. OneTaskPerRun /\ TerminalHasCause /\ ExecutesFromCheckpoint
  BY DEF Init, OneTaskPerRun, TerminalHasCause, ExecutesFromCheckpoint
<1>4. EndHasStage
  <2>1. ASSUME NEW s \in Savers
        PROVE  thread[s].next = 0 /\ thread[s].stage = "open"
    <3>1. thread[s] = [next |-> 0, stage |-> "open"]
      BY <1>1
    <3> QED
      BY <3>1
  <2>2. End # 0
    OBVIOUS
  <2> QED
    BY <2>1, <2>2 DEF EndHasStage
<1> QED
  BY <1>2, <1>3, <1>4

\* The queries of the loop and the passing of time touch no task and no thread.
LEMMA PollStep ==
    ASSUME IInv, FetchQueued \/ FetchStale \/ BecomeStale
    PROVE  IInv'
<1>1. /\ polled' \in {polled, "queued", "stale"} /\ stale' \in {stale, TRUE}
      /\ UNCHANGED <<status, running, pc, resume, saver, thread, calls, cancels,
                     retries, crashes, faults, delivered, refused>>
  BY DEF FetchQueued, FetchStale, BecomeStale
<1>2. TypeOK'
  BY <1>1
<1>3. OneTaskPerRun' /\ TerminalHasCause' /\ ExecutesFromCheckpoint' /\ EndHasStage'
  BY <1>1 DEF OneTaskPerRun, TerminalHasCause, ExecutesFromCheckpoint, EndHasStage
<1> QED
  BY <1>2, <1>3

\* A task is started only where none is.
LEMMA StartStep ==
    ASSUME IInv, NEW t \in Tasks, StartPolled(t)
    PROVE  IInv'
<1>1. TypeOK'
  BY DEF StartPolled
<1>2. OneTaskPerRun'
  BY DEF StartPolled, OneTaskPerRun
<1>3. TerminalHasCause' /\ ExecutesFromCheckpoint' /\ EndHasStage'
  BY DEF StartPolled, TerminalHasCause, ExecutesFromCheckpoint, EndHasStage
<1> QED
  BY <1>1, <1>2, <1>3

\* A task that marks the run RUNNING and finds its checkpoint, or starts anew.
LEMMA EnterGraphStep ==
    ASSUME IInv, NEW t \in Tasks, MarkRunning(t) \/ Load(t)
    PROVE  IInv'
<1>1. CASE MarkRunning(t)
  BY <1>1 DEF MarkRunning, Goto, Mark, OneTaskPerRun, TerminalHasCause,
              ExecutesFromCheckpoint, EndHasStage
<1>2. CASE Load(t)
  BY <1>2 DEF Load, Goto, OneTaskPerRun, TerminalHasCause, ExecutesFromCheckpoint,
              EndHasStage
<1> QED
  BY <1>1, <1>2

\* The step of a task moves the thread of the current saver to one place.
LEMMA ThreadStep ==
    ASSUME IInv, NEW t \in Tasks, RunNode(t) \/ Answer(t)
    PROVE  IInv'
<1>1. PICK next \in 1 .. End, stage \in {"open", "delivered", "cancelled"} :
        /\ thread' = [thread EXCEPT ![saver] = [next |-> next, stage |-> stage]]
        /\ next = End => stage # "open"
        /\ stage = "delivered" => delivered'
        /\ stage = "cancelled" => refused'
  <2>1. thread[saver] \in [next : 0 .. End, stage : {"open", "delivered", "cancelled"}]
    OBVIOUS
  <2>2. CASE RunNode(t)
    <3>1. NextNode + 1 \in 1 .. End /\ (NextNode + 1 = End <=> NextNode = LastNode)
      BY <2>1, <2>2 DEF RunNode, NextNode
    <3> DEFINE stage == IF NextNode = LastNode THEN "delivered" ELSE "open"
    <3>2. /\ thread' = [thread EXCEPT ![saver] = [next |-> NextNode + 1, stage |-> stage]]
          /\ NextNode = LastNode => delivered'
      BY <2>2 DEF RunNode
    <3>3. stage \in {"open", "delivered", "cancelled"}
      OBVIOUS
    <3> QED
      BY <3>1, <3>2, <3>3
  <2>3. CASE Answer(t)
    <3>1. NextNode \in 2 .. LastNode
      BY <2>3 DEF Answer, Goto, NextNode, ExecutesFromCheckpoint
    <3>2. NextNode + 1 \in 1 .. End /\ (NextNode + 1 = End <=> NextNode = LastNode)
      BY <3>1
    <3>3. CASE thread' = [thread EXCEPT ![saver] = [next |-> End, stage |-> "cancelled"]]
               /\ refused' = TRUE
      <4>1. End \in 1 .. End
        OBVIOUS
      <4> QED
        BY <3>3, <4>1
    <3>4. CASE ~refused' \/ thread' # [thread EXCEPT ![saver] =
                                          [next |-> End, stage |-> "cancelled"]]
      <4> DEFINE stage == IF NextNode = LastNode THEN "delivered" ELSE thread[saver].stage
      <4>1. /\ thread' = [thread EXCEPT ![saver] = [next |-> NextNode + 1, stage |-> stage]]
            /\ delivered' = (delivered \/ NextNode = LastNode) /\ refused' = refused
        BY <2>3, <3>4 DEF Answer, NextNode
      <4>2. stage \in {"open", "delivered", "cancelled"}
        BY <2>1
      <4>3. /\ stage = "delivered" => delivered'
            /\ stage = "cancelled" => refused'
        BY <4>1 DEF EndHasStage
      <4> HIDE DEF stage
      <4>4. NextNode + 1 = End => stage # "open"
        BY <3>2 DEF stage
      <4> QED
        BY <3>2, <4>1, <4>2, <4>3, <4>4
    <3> QED
      BY <2>3, <3>3, <3>4 DEF Answer
  <2> QED
    BY <2>2, <2>3
<1>2. /\ pc' = [pc EXCEPT ![t] = "node"] /\ pc[t] # "none"
      /\ status' \in {"RUNNING", status} /\ stale' = FALSE
      /\ delivered' \in BOOLEAN /\ (delivered => delivered')
      /\ refused' \in BOOLEAN /\ (refused => refused')
      /\ UNCHANGED <<polled, running, resume, saver, calls, crashes, faults, cancels,
                     retries>>
  BY DEF RunNode, Answer, Goto, Mark
<1>3. TypeOK'
  <2>1. thread' \in [Savers -> [next : 0 .. End, stage : {"open", "delivered", "cancelled"}]]
    BY <1>1
  <2> QED
    BY <1>2, <2>1
<1>4. OneTaskPerRun' /\ TerminalHasCause'
  BY <1>2 DEF OneTaskPerRun, TerminalHasCause
<1>5. ExecutesFromCheckpoint'
  BY <1>1, <1>2 DEF OneTaskPerRun, ExecutesFromCheckpoint
<1>6. EndHasStage'
  BY <1>1, <1>2 DEF EndHasStage
<1> QED
  BY <1>3, <1>4, <1>5, <1>6

\* A human node is entered, or the graph has ended.
LEMMA LeaveNodeStep ==
    ASSUME IInv, NEW t \in Tasks, Request(t) \/ GraphEnds(t)
    PROVE  IInv'
<1>1. CASE Request(t)
  BY <1>1 DEF Request, Goto, Mark, NextNode, OneTaskPerRun, TerminalHasCause,
              ExecutesFromCheckpoint, EndHasStage
<1>2. CASE GraphEnds(t)
  BY <1>2 DEF GraphEnds, Goto, NextNode, OneTaskPerRun, TerminalHasCause,
              ExecutesFromCheckpoint, EndHasStage
<1> QED
  BY <1>1, <1>2

\* A terminal status is written for a thread that is at its end.
LEMMA TerminalStep ==
    ASSUME IInv, NEW t \in Tasks, MarkCompleted(t) \/ MarkCancelled(t)
    PROVE  IInv'
<1>1. TypeOK'
  BY DEF MarkCompleted, MarkCancelled, Goto, Mark, Leave
<1>2. OneTaskPerRun'
  BY DEF MarkCompleted, MarkCancelled, Goto, Mark, Leave, OneTaskPerRun
<1>3. TerminalHasCause'
  <2>1. pc[t] = "completing" => delivered
    BY DEF ExecutesFromCheckpoint, EndHasStage
  <2>2. pc[t] = "cancelling" => refused
    BY DEF ExecutesFromCheckpoint, EndHasStage
  <2> QED
    BY <2>1, <2>2 DEF MarkCompleted, MarkCancelled, Goto, Mark, TerminalHasCause
<1>4. ExecutesFromCheckpoint' /\ EndHasStage'
  BY DEF MarkCompleted, MarkCancelled, Goto, Mark, Leave, ExecutesFromCheckpoint,
         EndHasStage
<1> QED
  BY <1>1, <1>2, <1>3, <1>4

\* A task that raised, or is at its last audit event, moves no thread.
LEMMA FailureStep ==
    ASSUME IInv, NEW t \in Tasks,
           Raise(t) \/ MarkFailed(t) \/ AuditFailed(t) \/ AuditCompleted(t)
                    \/ MarkFailedFails(t)
    PROVE  IInv'
<1>1. TypeOK'
  <2>1. CASE Raise(t)
    <3>1. faults' \in 0 .. MaxFaults
      BY <2>1 DEF Raise
    <3> QED
      BY <2>1, <3>1 DEF Raise
  <2>2. CASE AuditFailed(t) \/ AuditCompleted(t)
    BY <2>2 DEF AuditFailed, AuditCompleted, Leave
  <2>3. CASE MarkFailedFails(t)
    <3>1. faults' \in 0 .. MaxFaults
      BY <2>3 DEF MarkFailedFails
    <3> QED
      BY <2>3, <3>1 DEF MarkFailedFails, Leave
  <2>4. CASE MarkFailed(t)
    BY <2>4 DEF MarkFailed, Goto, Mark
  <2> QED
    BY <2>1, <2>2, <2>3, <2>4
<1>2. OneTaskPerRun'
  BY DEF Raise, MarkFailed, AuditFailed, AuditCompleted, MarkFailedFails, Goto, Leave,
         OneTaskPerRun
<1>3. TerminalHasCause' /\ ExecutesFromCheckpoint' /\ EndHasStage'
  BY DEF Raise, MarkFailed, AuditFailed, AuditCompleted, MarkFailedFails, Goto, Leave,
         Mark, TerminalHasCause, ExecutesFromCheckpoint, EndHasStage
<1> QED
  BY <1>1, <1>2, <1>3

\* The process dies: no task is left, and no checkpoint gains anything.
LEMMA CrashStep ==
    ASSUME IInv, Crash
    PROVE  IInv'
<1>1. TypeOK'
  <2>1. crashes' \in 0 .. MaxCrashes
    BY DEF Crash
  <2>2. thread' \in [Savers -> [next : 0 .. End, stage : {"open", "delivered", "cancelled"}]]
    BY DEF Crash, NoThread
  <2> QED
    BY <2>1, <2>2 DEF Crash
<1>2. OneTaskPerRun' /\ TerminalHasCause' /\ ExecutesFromCheckpoint'
  BY DEF Crash, OneTaskPerRun, TerminalHasCause, ExecutesFromCheckpoint
<1>3. EndHasStage'
  BY DEF Crash, NoThread, EndHasStage
<1> QED
  BY <1>1, <1>2, <1>3

\* The API writes the status of a run, and no task looks at it.
LEMMA ApiStep ==
    ASSUME IInv, CheckCancel \/ CommitCancel \/ CheckRetry \/ CommitRetry
    PROVE  IInv'
<1>1. TypeOK'
  <2>1. CASE CheckCancel
    <3>1. cancels' \in 0 .. MaxCancels
      BY <2>1 DEF CheckCancel
    <3> QED
      BY <2>1, <3>1 DEF CheckCancel
  <2>2. CASE CheckRetry
    <3>1. retries' \in 0 .. MaxRetries
      BY <2>2 DEF CheckRetry
    <3> QED
      BY <2>2, <3>1 DEF CheckRetry
  <2>3. CASE CommitCancel
    BY <2>3 DEF CommitCancel, Mark
  <2>4. CASE CommitRetry
    BY <2>4 DEF CommitRetry, Mark
  <2> QED
    BY <2>1, <2>2, <2>3, <2>4
<1>2. TerminalHasCause'
  BY DEF CheckCancel, CommitCancel, CheckRetry, CommitRetry, Mark, TerminalHasCause
<1>3. OneTaskPerRun' /\ ExecutesFromCheckpoint' /\ EndHasStage'
  BY DEF CheckCancel, CommitCancel, CheckRetry, CommitRetry, OneTaskPerRun,
         ExecutesFromCheckpoint, EndHasStage
<1> QED
  BY <1>1, <1>2, <1>3

LEMMA NextIInv == IInv /\ [Next]_vars => IInv'
<1> SUFFICES ASSUME IInv, [Next]_vars PROVE IInv'
  OBVIOUS
<1>1. CASE UNCHANGED vars
  BY <1>1 DEF vars, OneTaskPerRun, TerminalHasCause, ExecutesFromCheckpoint,
              EndHasStage, NextNode
<1>2. CASE Next
  BY <1>2, PollStep, StartStep, EnterGraphStep, ThreadStep, LeaveNodeStep,
     TerminalStep, FailureStep, CrashStep, ApiStep
  DEF Next, Poll, TaskStep
<1> QED
  BY <1>1, <1>2

-----------------------------------------------------------------------------

LEMMA Invariance == Spec => []IInv
  BY InitIInv, NextIInv, PTL DEF Spec

\* The row, the tasks and the threads of a run are well formed.
THEOREM TypeCorrect == Spec => []TypeOK
  BY Invariance, PTL DEF IInv

\* However rows are polled and used late, one task at most executes a run.
THEOREM OneTask == Spec => []OneTaskPerRun
  BY Invariance, PTL DEF IInv

\* After any crashes, lost checkpoints, failures, cancels and retries, COMPLETED
\* means a delivery and CANCELLED the decision of a person.
THEOREM TerminalCaused == Spec => []TerminalHasCause
  BY Invariance, PTL DEF IInv

\* No task executes a graph without a checkpoint or beyond its end.
THEOREM FromCheckpoint == Spec => []ExecutesFromCheckpoint
  BY Invariance, PTL DEF IInv
=============================================================================
