-------------------------- MODULE DeliveryInvocation --------------------------
(***************************************************************************)
(* The delivery graph under the recursion limit that run_workflow gives to *)
(* ainvoke: an invocation may take RecursionLimit supersteps, then LangGraph*)
(* raises GraphRecursionError and the run becomes FAILED_RETRYABLE.        *)
(***************************************************************************)
EXTENDS DeliveryGraph

CONSTANT RecursionLimit \* 100 in run_workflow

VARIABLES
    supersteps, \* taken by the invocation under way
    raised      \* GraphRecursionError has ended the invocation

invocationVars == <<vars, supersteps, raised>>

InvocationInit == Init /\ supersteps = 0 /\ raised = FALSE

Superstep ==
    /\ ~raised
    /\ supersteps < RecursionLimit
    /\ GraphStep
    /\ supersteps' = supersteps + 1
    /\ UNCHANGED raised

OutOfSteps ==
    /\ ~raised
    /\ supersteps = RecursionLimit
    /\ node # "end"
    /\ raised' = TRUE
    /\ UNCHANGED <<vars, supersteps>>

\* run_workflow again: from triage after POST /retry, or from the checkpoint
\* after the process died.  Both count their supersteps from zero.
Retry ==
    /\ raised
    /\ RetryFromTriage
    /\ supersteps' = 0
    /\ raised' = FALSE

Resume ==
    /\ ~raised
    /\ reinvokes < MaxReinvokes
    /\ reinvokes' = reinvokes + 1
    /\ supersteps' = 0
    /\ UNCHANGED <<node, gate, cycles, escalatedGate, humanReviewRequired,
                   currentStage, accepted, rejections, raised>>

InvocationNext == Superstep \/ OutOfSteps \/ Retry \/ Resume

InvocationSpec == InvocationInit /\ [][InvocationNext]_invocationVars

\* The counters of the gates stop the cycles, never the recursion limit: a run
\* none of whose gates has used up its MaxCycles and escalated is not ended by
\* LangGraph (README, "Máximo de 3 ciclos automáticos por gate. Após a terceira
\* tentativa falha, o item muda para HUMAN_REVIEW_REQUIRED").
CyclesEndBeforeTheLimit == raised => escalatedGate # "none"
=============================================================================
