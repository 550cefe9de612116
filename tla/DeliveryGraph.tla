---------------------------- MODULE DeliveryGraph ----------------------------
(***************************************************************************)
(* The LangGraph pipeline of orchestrator/graphs/software_delivery.py: the *)
(* stages of a delivery, its nine quality gates, the counters that limit   *)
(* the automatic cycles of a gate, the human nodes and the escalation to   *)
(* human review.                                                           *)
(*                                                                         *)
(* One action is one superstep of the graph: the node runs, its update is  *)
(* merged into the state and the router of the node picks the next node,   *)
(* which LangGraph commits together in one checkpoint.  The node written   *)
(* "cycle" with gate = g stands for g_cycle, and "escalate" for g_escalate.*)
(***************************************************************************)
EXTENDS Integers, FiniteSets

CONSTANTS
    MaxCycles,      \* config.max_gate_cycles: automatic cycles of one gate
    ObjectingGates, \* the gates whose verdict may be negative (a bound)
    MaxReinvokes    \* how often the run is invoked again from triage (a bound)

Gates == {"intake", "scope", "architecture", "code_review", "tests", "qa",
          "security", "operational", "release"}

ASSUME MaxCyclesAssumption    == MaxCycles \in Nat
ASSUME ObjectingAssumption    == ObjectingGates \subseteq Gates
ASSUME MaxReinvokesAssumption == MaxReinvokes \in Nat

-----------------------------------------------------------------------------
(* The shape of the graph. *)

\* Place of a gate in the pipeline; the code has it only as edges.
Index == [intake |-> 1, scope |-> 2, architecture |-> 3, code_review |-> 4,
          tests |-> 5, qa |-> 6, security |-> 7, operational |-> 8, release |-> 9]

HumanGates == {"scope", "release"}
AgentGates == Gates \ HumanGates

\* The node whose outcome the router of the gate judges.
GateNode ==
    [intake |-> "intake_analysis", scope |-> "scope_approval",
     architecture |-> "architecture", code_review |-> "code_review",
     tests |-> "automated_tests", qa |-> "functional_qa",
     security |-> "security_compliance", operational |-> "operational_validation",
     release |-> "release_approval"]

\* Where the router of the gate goes on approval.
OnApproval ==
    [intake |-> "product_discovery", scope |-> "architecture",
     architecture |-> "technical_planning", code_review |-> "automated_tests",
     tests |-> "functional_qa", qa |-> "security_compliance",
     security |-> "operational_validation", operational |-> "documentation_release",
     release |-> "delivered"]

\* Mutant of ResumeAfterGate: a scope escalation resumes past architecture.
ResumeAfterGateSkipping == [OnApproval EXCEPT !["scope"] = "technical_planning"]

\* RESUME_AFTER_GATE: where human review goes on when it lets the gate pass.
ResumeAfterGate ==
    [intake |-> "product_discovery", scope |-> "architecture",
     architecture |-> "technical_planning", code_review |-> "automated_tests",
     tests |-> "functional_qa", qa |-> "security_compliance",
     security |-> "operational_validation", operational |-> "documentation_release",
     release |-> "delivered"]

\* The edge out of each *_cycle node, and out of intake_clarification.
ReworkNode ==
    [intake |-> "intake_analysis", scope |-> "product_discovery",
     architecture |-> "architecture", code_review |-> "development",
     tests |-> "development", qa |-> "development", security |-> "development",
     operational |-> "technical_planning", release |-> "technical_planning"]

\* Mutant of NextStage: development hands over without a code review.
NextStageUnreviewed ==
    [triage |-> "intake_analysis", product_discovery |-> "requirements",
     requirements |-> "scope_approval", technical_planning |-> "development",
     development |-> "automated_tests", documentation_release |-> "release_approval"]

\* The unconditional edges between stages.
NextStage ==
    [triage |-> "intake_analysis", product_discovery |-> "requirements",
     requirements |-> "scope_approval", technical_planning |-> "development",
     development |-> "code_review", documentation_release |-> "release_approval"]

\* How many gates precede a stage without a gate of its own.
StagePosition ==
    [triage |-> 0, product_discovery |-> 1, requirements |-> 1,
     technical_planning |-> 3, development |-> 3, documentation_release |-> 8]

WorkStages == {"triage", "product_discovery", "requirements",
               "technical_planning", "development", "documentation_release"}
GateNodes  == {"intake_analysis", "scope_approval", "architecture", "code_review",
               "automated_tests", "functional_qa", "security_compliance",
               "operational_validation", "release_approval"}
Nodes == WorkStages \cup GateNodes \cup
         {"intake_clarification", "cycle", "escalate", "human_review",
          "delivered", "cancelled", "end"}

\* The nodes at which the graph polls for the decision of a person.
HumanNodes == {"intake_clarification", "scope_approval", "release_approval",
               "human_review"}

-----------------------------------------------------------------------------
VARIABLES
    node,                \* the next node of the checkpoint; "end" is END
    gate,                \* the gate of the cycle, escalate or review under way
    cycles,              \* DeliveryState.cycles, absent keys read as 0
    escalatedGate,       \* DeliveryState.escalated_gate, "none" while absent
    humanReviewRequired, \* DeliveryState.human_review_required
    currentStage,        \* DeliveryState.current_stage: "stage" for any stage
    reinvokes,           \* invocations from triage so far, after the first
    accepted,            \* history: gates that accepted the work as it stands
    rejections           \* history: negative verdicts of a gate since a person
                         \* last granted the run a fresh start

vars == <<node, gate, cycles, escalatedGate, humanReviewRequired, currentStage,
          reinvokes, accepted, rejections>>

NoCycles == [g \in Gates |-> 0]

Init ==
    /\ node = "triage"
    /\ gate = "none"
    /\ cycles = NoCycles
    /\ escalatedGate = "none"
    /\ humanReviewRequired = FALSE
    /\ currentStage = "stage"
    /\ reinvokes = 0
    /\ accepted = {}
    /\ rejections = NoCycles

-----------------------------------------------------------------------------
(* Stages. *)

\* What the agents of a stage can answer: the status of each result, and
\* "critical" for a finding of that severity in any of them.
AgentAnswers == {"approved", "changes_requested", "blocked", "failed", "critical"}
Objections   == AgentAnswers \ {"approved"}

\* How _run_stage aggregates the answers; a stage without agents is approved.
StageStatus(answers) ==
    IF answers \cap {"blocked", "failed"} # {} THEN "failed"
    ELSE IF answers \cap {"changes_requested", "critical"} # {}
         THEN "changes_requested"
         ELSE "approved"

CyclesExceeded(g) == cycles[g] >= MaxCycles

\* The router of gate g, after the node of the gate has run.
Route(g, approved) ==
    \/ /\ approved
       /\ node' = OnApproval[g]
       /\ UNCHANGED gate
    \/ /\ ~approved
       /\ CyclesExceeded(g)
       /\ node' = "escalate"
       /\ gate' = g
    \/ /\ ~approved
       /\ ~CyclesExceeded(g)
       /\ node' = IF g = "intake" THEN "intake_clarification" ELSE "cycle"
       /\ gate' = g

\* History: the verdict of gate g, which also voids what later gates said.  The
\* count of negative ones stops where it has already broken RejectionBudget.
Judge(g, positive) ==
    /\ accepted' = {h \in accepted : Index[h] < Index[g]}
                       \cup (IF positive THEN {g} ELSE {})
    /\ rejections' = IF positive THEN rejections
                     ELSE [rejections EXCEPT ![g] = IF @ <= MaxCycles + 1 THEN @ + 1 ELSE @]

\* A stage without a gate: its status is stored and never looked at.
Stage(n) ==
    /\ node = n
    /\ node' = NextStage[n]
    /\ currentStage' = "stage"
    /\ accepted' = {h \in accepted : Index[h] <= StagePosition[n]}
    /\ UNCHANGED <<gate, cycles, escalatedGate, humanReviewRequired, reinvokes,
                   rejections>>

\* A stage whose agents are the gate.
AgentGate(g, answers) ==
    /\ node = GateNode[g]
    /\ g \notin ObjectingGates => answers \cap Objections = {}
    /\ currentStage' = "stage"
    /\ Route(g, StageStatus(answers) = "approved")
    /\ Judge(g, answers \cap Objections = {})
    /\ UNCHANGED <<cycles, escalatedGate, humanReviewRequired, reinvokes>>

Decisions == {"APPROVED", "REJECTED"}

\* scope_approval and release_approval: a person is the gate.
ApprovalGate(g, decision) ==
    /\ node = GateNode[g]
    /\ g \notin ObjectingGates => decision = "APPROVED"
    /\ Route(g, decision = "APPROVED")
    /\ Judge(g, decision = "APPROVED")
    /\ UNCHANGED <<cycles, escalatedGate, humanReviewRequired, currentStage,
                   reinvokes>>

\* The requester answers, or refuses to answer, the gaps of the demand.
IntakeClarification(decision) ==
    /\ node = "intake_clarification"
    /\ cycles' = [cycles EXCEPT !["intake"] = @ + 1]
    /\ humanReviewRequired' = (humanReviewRequired \/ decision = "REJECTED")
    /\ node' = ReworkNode["intake"]
    /\ UNCHANGED <<gate, escalatedGate, currentStage, reinvokes, accepted,
                   rejections>>

-----------------------------------------------------------------------------
(* Cycle counters, escalation and the two ends. *)

\* Mutant of CycleNode: the increment is not part of the update.
CycleNodeForgetting ==
    /\ node = "cycle"
    /\ node' = ReworkNode[gate]
    /\ UNCHANGED <<gate, cycles, escalatedGate, humanReviewRequired, currentStage,
                   reinvokes, accepted, rejections>>

CycleNode ==
    /\ node = "cycle"
    /\ cycles' = [cycles EXCEPT ![gate] = @ + 1]
    /\ node' = ReworkNode[gate]
    /\ UNCHANGED <<gate, escalatedGate, humanReviewRequired, currentStage,
                   reinvokes, accepted, rejections>>

EscalateNode ==
    /\ node = "escalate"
    /\ escalatedGate' = gate
    /\ node' = "human_review"
    /\ UNCHANGED <<gate, cycles, humanReviewRequired, currentStage, reinvokes,
                   accepted, rejections>>

\* Mutant of ResumeNode: the default names no node of the graph.
ResumeNodeUnknown == IF escalatedGate \in AgentGates THEN ResumeAfterGate[escalatedGate]
                                                     ELSE "planning"

ResumeNode == IF escalatedGate \in Gates THEN ResumeAfterGate[escalatedGate]
                                         ELSE "technical_planning"

\* Mutant of HumanReviewApproved: the counters stay where they are.
HumanReviewKeepsCycles ==
    /\ node = "human_review"
    /\ humanReviewRequired' = FALSE
    /\ node' = ResumeNode
    /\ accepted' = {h \in accepted : Index[h] < Index[gate]} \cup {gate}
    /\ rejections' = NoCycles
    /\ UNCHANGED <<gate, cycles, escalatedGate, currentStage, reinvokes>>

HumanReviewApproved ==
    /\ node = "human_review"
    /\ humanReviewRequired' = FALSE
    /\ cycles' = NoCycles
    /\ node' = ResumeNode
    /\ accepted' = {h \in accepted : Index[h] < Index[gate]} \cup {gate}
    /\ rejections' = NoCycles
    /\ UNCHANGED <<gate, escalatedGate, currentStage, reinvokes>>

HumanReviewRejected ==
    /\ node = "human_review"
    /\ humanReviewRequired' = TRUE
    /\ node' = "cancelled"
    /\ UNCHANGED <<gate, cycles, escalatedGate, currentStage, reinvokes,
                   accepted, rejections>>

Finish(stage) ==
    /\ node = stage
    /\ currentStage' = stage
    /\ node' = "end"
    /\ UNCHANGED <<gate, cycles, escalatedGate, humanReviewRequired, reinvokes,
                   accepted, rejections>>

GraphStep ==
    \/ \E n \in WorkStages : Stage(n)
    \/ \E g \in AgentGates, answers \in SUBSET AgentAnswers : AgentGate(g, answers)
    \/ \E g \in HumanGates, decision \in Decisions : ApprovalGate(g, decision)
    \/ \E decision \in Decisions : IntakeClarification(decision)
    \/ CycleNode
    \/ EscalateNode
    \/ HumanReviewApproved
    \/ HumanReviewRejected
    \/ Finish("delivered")
    \/ Finish("cancelled")

-----------------------------------------------------------------------------
(* The graph invoked again by run_workflow.  A resume from the checkpoint   *)
(* goes on at the same node and is no step of this module.                  *)

\* POST /runs/{id}/retry: ainvoke gets the whole input on a thread that has a
\* checkpoint.  The graph starts at triage, and the reducers merge the empty
\* dictionaries of the input into the state, which keeps all of it.
RetryFromTriage ==
    /\ reinvokes < MaxReinvokes
    /\ reinvokes' = reinvokes + 1
    /\ node' = "triage"
    /\ rejections' = NoCycles
    /\ UNCHANGED <<gate, cycles, escalatedGate, humanReviewRequired,
                   currentStage, accepted>>

\* The fallback MemorySaver lost the thread with the process: the same input
\* on a thread without a checkpoint.
RestartWithoutCheckpoint ==
    /\ reinvokes < MaxReinvokes
    /\ reinvokes' = reinvokes + 1
    /\ node' = "triage"
    /\ gate' = "none"
    /\ cycles' = NoCycles
    /\ escalatedGate' = "none"
    /\ humanReviewRequired' = FALSE
    /\ currentStage' = "stage"
    /\ accepted' = {}
    /\ rejections' = NoCycles

Next == GraphStep \/ RetryFromTriage \/ RestartWithoutCheckpoint

Spec == Init /\ [][Next]_vars

\* A dispatched agent answers or times out after stage_timeout_seconds, so a
\* superstep always ends, except where the graph waits for a person.
FairSpec == Spec /\ WF_vars(node \notin HumanNodes /\ GraphStep)

-----------------------------------------------------------------------------
(* What the pipeline promises. *)

TypeOK ==
    /\ node \in Nodes
    /\ gate \in Gates \cup {"none"}
    /\ node \in {"cycle", "escalate", "human_review"} => gate \in Gates
    /\ cycles \in [Gates -> 0 .. MaxCycles]
    /\ escalatedGate \in Gates \cup {"none"}
    /\ humanReviewRequired \in BOOLEAN
    /\ currentStage \in {"stage", "delivered", "cancelled"}
    /\ reinvokes \in 0 .. MaxReinvokes
    /\ accepted \in SUBSET Gates
    /\ rejections \in [Gates -> Nat]

\* The first k gates have accepted the work as it stands.
Passed(k) == \A g \in Gates : Index[g] <= k => g \in accepted

\* No stage runs on work that an earlier gate has not accepted: whatever cycles,
\* escalations, resumes and retries led to a node, every gate before it has
\* accepted the work since the work it judges was last redone, through its own
\* verdict or through a person.  At "delivered" that is all nine of them.
GatesPassedInOrder ==
    /\ node \in WorkStages => Passed(StagePosition[node])
    /\ \A g \in Gates : node = GateNode[g] => Passed(Index[g] - 1)
    /\ node \in {"cycle", "escalate", "human_review"} => Passed(Index[gate] - 1)
    /\ node = "delivered" => Passed(9)
    /\ node = "end" /\ currentStage = "delivered" => Passed(9)

\* A gate turns the work back at most MaxCycles times on its own; the verdict
\* after that is the last one before a person decides (README, "Máximo de 3
\* ciclos automáticos por gate").
RejectionBudget == \A g \in Gates : rejections[g] <= MaxCycles + 1

\* Human review is reached neither early nor for the wrong gate: the gate has
\* used all its cycles since a person last let the run go on (also when that
\* person reset the counters), and the gate recorded for the resume is the one
\* that escalated.  Counters kept by a retry shorten the budget, see README.
EscalationEarned ==
    node \in {"escalate", "human_review"} =>
        /\ cycles[gate] = MaxCycles
        /\ reinvokes = 0 => rejections[gate] = MaxCycles + 1
        /\ node = "human_review" => escalatedGate = gate

\* The automatic part of the graph never runs for ever: it always comes to a
\* node where a person decides, or to the end (proposal 9.1, "O orquestrador
\* não pode criar loops ilimitados").
NoEndlessAutomaticLoop == []<>(node \in HumanNodes \cup {"end"})

\* A requester who refuses the clarification sends the run to human review: it
\* does no other work until then (test_intake_clarification.py:73, "rejected
\* forces human review").
RefusalForcesHumanReview ==
    humanReviewRequired =>
        node \in {"triage", "intake_analysis", "intake_clarification", "escalate",
                  "human_review", "cancelled", "end"}

\* The promise made by GatedDelivery, through the gates accepted so far.
Pipeline ==
    INSTANCE GatedDelivery WITH
        N <- 9,
        accepted <- {Index[g] : g \in accepted},
        outcome <- IF currentStage = "stage" THEN "open" ELSE currentStage

\* The graph implements a linear pipeline of nine gates.
ImplementsGatedDelivery == Pipeline!Spec
=============================================================================
