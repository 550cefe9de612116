------------------------- MODULE DeliveryGraphProofs -------------------------
(* Theorems about DeliveryGraph, for every MaxCycles and every bound: its
   invariants, its refinement of GatedDelivery, how many supersteps it can take
   without a person, and which recursion limit that needs. *)
EXTENDS DeliveryInvocation, TLAPS

-----------------------------------------------------------------------------
(* The inductive invariant. *)

\* A cycle is only ever under way while the gate has one left.
CycleLeft ==
    /\ node = "cycle" => cycles[gate] < MaxCycles
    /\ node = "intake_clarification" => cycles["intake"] < MaxCycles

\* 1 while a negative verdict of the gate is not yet counted in cycles; once a
\* person has cancelled the run it never will be.
Pending(g) ==
    IF \/ node \in {"cycle", "escalate", "human_review", "cancelled", "end"} /\ gate = g
       \/ node = "intake_clarification" /\ g = "intake"
    THEN 1 ELSE 0

\* The counters agree with the verdicts they count.  A retry forgets the
\* verdicts and keeps the counters, so that it only leaves an inequality.
CountersMatch ==
    \A g \in Gates :
        /\ rejections[g] <= cycles[g] + Pending(g)
        /\ reinvokes = 0 /\ node \notin {"cancelled", "end"} =>
              rejections[g] = cycles[g] + Pending(g)

\* What led to an escalation still holds while it is dealt with.
EscalationUnderWay ==
    node \in {"escalate", "human_review"} =>
        /\ cycles[gate] = MaxCycles
        /\ node = "human_review" => escalatedGate = gate

IInv ==
    /\ TypeOK
    /\ CycleLeft
    /\ CountersMatch
    /\ EscalationUnderWay
    /\ GatesPassedInOrder

-----------------------------------------------------------------------------
(* The tables of the graph, and what the aggregation of a stage tells. *)

\* The tables are functions from the gates, and the stages, to nodes.
LEMMA Tables ==
    /\ Index \in [Gates -> 1 .. 9]
    /\ GateNode \in [Gates -> GateNodes]
    /\ OnApproval \in [Gates -> Nodes]
    /\ ReworkNode \in [Gates -> Nodes]
    /\ NextStage \in [WorkStages -> Nodes]
    /\ StagePosition \in [WorkStages -> 0 .. 8]
  BY DEF Index, GateNode, OnApproval, ReworkNode, NextStage, StagePosition,
         Gates, GateNodes, Nodes, WorkStages

\* The nodes at which a verdict is being dealt with, or the run has ended.
Aside == {"cycle", "escalate", "human_review", "intake_clarification",
          "cancelled", "end"}

\* No more than k gates lie before node n, which judges or does work.
Reaches(n, k) ==
    /\ n \in Nodes \ Aside
    /\ n \in WorkStages => StagePosition[n] <= k
    /\ \A g \in Gates : n = GateNode[g] => Index[g] - 1 <= k
    /\ n = "delivered" => 9 <= k

\* An approval leads to the next gate's work and never past that gate; human
\* review resumes where the approval would have led.
LEMMA ApprovalReaches ==
    ASSUME NEW g \in Gates
    PROVE  Reaches(OnApproval[g], Index[g]) /\ ResumeAfterGate[g] = OnApproval[g]
  BY DEF Reaches, OnApproval, ResumeAfterGate, Index, StagePosition, GateNode,
         Gates, GateNodes, Nodes, WorkStages, Aside

\* The work a gate turns back restarts after an earlier gate.
LEMMA ReworkReaches ==
    ASSUME NEW g \in Gates
    PROVE  Reaches(ReworkNode[g], Index[g] - 1)
  BY DEF Reaches, ReworkNode, Index, StagePosition, GateNode, Gates, GateNodes,
         Nodes, WorkStages, Aside

\* A stage without a gate hands over to work with no further gate before it.
LEMMA StageReaches ==
    ASSUME NEW n \in WorkStages
    PROVE  Reaches(NextStage[n], StagePosition[n])
  BY DEF Reaches, NextStage, Index, StagePosition, GateNode, Gates, GateNodes,
         Nodes, WorkStages, Aside

\* The status of a stage is "approved" exactly if no agent objects.
LEMMA StatusTellsObjections ==
    ASSUME NEW answers \in SUBSET AgentAnswers
    PROVE  StageStatus(answers) = "approved" <=> answers \cap Objections = {}
  BY DEF StageStatus, Objections, AgentAnswers

\* No node of a gate is one where the graph is aside of its pipeline.
LEMMA GateNodeFacts ==
    ASSUME NEW g \in Gates
    PROVE  /\ GateNode[g] \notin Aside \cup WorkStages \cup {"delivered"}
           /\ \A h \in Gates : GateNode[h] = GateNode[g] => h = g
  BY DEF GateNode, Gates, Aside, WorkStages

\* What makes a step keep the order of the gates.
LEMMA OrderKept ==
    ASSUME NEW k \in 0 .. 9,
           Reaches(node', k),
           \A h \in Gates : Index[h] <= k => h \in accepted'
    PROVE  GatesPassedInOrder'
  BY Tables DEF GatesPassedInOrder, Passed, Reaches, Aside

-----------------------------------------------------------------------------
(* The steps. *)

LEMMA InitIInv == Init => IInv
<1> SUFFICES ASSUME Init PROVE IInv
  OBVIOUS
<1>1. TypeOK
  <2>1. NoCycles \in [Gates -> 0 .. MaxCycles] /\ NoCycles \in [Gates -> Nat]
    BY MaxCyclesAssumption DEF NoCycles
  <2>2. node \in Nodes /\ node \notin {"cycle", "escalate", "human_review"}
    BY DEF Init, Nodes, WorkStages
  <2>3. reinvokes \in 0 .. MaxReinvokes
    BY MaxReinvokesAssumption DEF Init
  <2> QED
    BY <2>1, <2>2, <2>3 DEF Init, TypeOK
<1>2. CycleLeft /\ EscalationUnderWay
  BY DEF Init, CycleLeft, EscalationUnderWay
<1>3. CountersMatch
  BY DEF Init, CountersMatch, Pending, NoCycles
<1>4. GatesPassedInOrder
  <2>1. \A g \in Gates : "triage" # GateNode[g]
    BY GateNodeFacts DEF WorkStages
  <2>2. StagePosition["triage"] = 0
    BY DEF StagePosition
  <2> QED
    BY <2>1, <2>2, Tables DEF Init, GatesPassedInOrder, Passed
<1> QED
  BY <1>1, <1>2, <1>3, <1>4 DEF IInv

\* A stage without a gate.
LEMMA StageStep ==
    ASSUME IInv, NEW n \in WorkStages, Stage(n)
    PROVE  IInv'
<1>1. Reaches(node', StagePosition[n])
  BY StageReaches DEF Stage
<1>2. node' \in Nodes \ Aside
  BY <1>1 DEF Reaches
<1>3. TypeOK'
  BY <1>2 DEF Stage, IInv, TypeOK, Aside
<1>4. CycleLeft' /\ EscalationUnderWay'
  BY <1>2 DEF CycleLeft, EscalationUnderWay, Aside
<1>5. CountersMatch'
  BY <1>2 DEF Stage, IInv, TypeOK, CountersMatch, Pending, Aside, WorkStages
<1>6. GatesPassedInOrder'
  <2>1. \A h \in Gates : Index[h] <= StagePosition[n] => h \in accepted'
    BY DEF Stage, IInv, GatesPassedInOrder, Passed
  <2> QED
    BY <1>1, <2>1, OrderKept, Tables
<1> QED
  BY <1>3, <1>4, <1>5, <1>6 DEF IInv

\* The verdict of a gate, whoever gives it.
LEMMA VerdictStep ==
    ASSUME IInv, NEW g \in Gates, node = GateNode[g], NEW approved \in BOOLEAN,
           Route(g, approved), Judge(g, approved),
           UNCHANGED <<cycles, escalatedGate, humanReviewRequired, reinvokes>>,
           currentStage' \in {currentStage, "stage"}
    PROVE  IInv'
<1>1. node \notin Aside
  BY GateNodeFacts
<1>2. \A h \in Gates : Index[h] < Index[g] => h \in accepted'
  <2>1. Passed(Index[g] - 1)
    BY DEF IInv, GatesPassedInOrder
  <2> QED
    BY <2>1, Tables DEF Passed, Judge
<1>3. accepted' \in SUBSET Gates /\ rejections' \in [Gates -> Nat]
  BY DEF Judge, IInv, TypeOK
<1>4. CASE approved
  <2>1. Reaches(node', Index[g]) /\ gate' = gate
    BY <1>4, ApprovalReaches DEF Route
  <2>2. node' \in Nodes \ Aside
    BY <2>1 DEF Reaches
  <2>3. TypeOK'
    BY <1>3, <2>1, <2>2 DEF IInv, TypeOK, Aside
  <2>4. CycleLeft' /\ EscalationUnderWay'
    BY <2>2 DEF CycleLeft, EscalationUnderWay, Aside
  <2>5. CountersMatch'
    BY <1>1, <1>4, <2>2 DEF Judge, IInv, TypeOK, CountersMatch, Pending, Aside
  <2>6. GatesPassedInOrder'
    <3>1. \A h \in Gates : Index[h] = Index[g] => h = g
      BY DEF Index, Gates
    <3>2. \A h \in Gates : Index[h] <= Index[g] => h \in accepted'
      BY <1>2, <1>4, <3>1, Tables DEF Judge
    <3> QED
      BY <2>1, <3>2, OrderKept, Tables
  <2> QED
    BY <2>3, <2>4, <2>5, <2>6 DEF IInv
<1>5. CASE ~approved
  <2>1. /\ gate' = g
        /\ node' \in {"cycle", "escalate", "intake_clarification"}
        /\ node' = "escalate" => cycles[g] >= MaxCycles
        /\ node' # "escalate" => ~(cycles[g] >= MaxCycles)
        /\ node' = "intake_clarification" => g = "intake"
    BY <1>5 DEF Route, CyclesExceeded
  <2>2. cycles[g] \in 0 .. MaxCycles
    BY DEF IInv, TypeOK
  <2>3. TypeOK'
    BY <1>3, <2>1 DEF IInv, TypeOK, Nodes
  <2>4. CycleLeft' /\ EscalationUnderWay'
    BY <2>1, <2>2, MaxCyclesAssumption DEF CycleLeft, EscalationUnderWay
  <2>5. CountersMatch'
    <3>1. rejections[g] <= cycles[g]
      <4>1. Pending(g) = 0
        BY <1>1 DEF Pending, Aside
      <4> QED
        BY <2>2, <4>1 DEF IInv, TypeOK, CountersMatch
    <3>2. rejections[g] <= MaxCycles + 1
      BY <2>2, <3>1, MaxCyclesAssumption DEF IInv, TypeOK
    <3>3. rejections' = [rejections EXCEPT ![g] = @ + 1]
      BY <1>5, <3>2 DEF Judge
    <3> QED
      BY <1>1, <2>1, <3>3 DEF IInv, TypeOK, CountersMatch, Pending, Aside
  <2>6. GatesPassedInOrder'
    <3>1. \A h \in Gates : node' # GateNode[h]
      BY <2>1, GateNodeFacts DEF Aside
    <3>2. node' \notin WorkStages \cup {"delivered", "end"}
      BY <2>1 DEF WorkStages
    <3> QED
      BY <1>2, <2>1, <3>1, <3>2, Tables DEF GatesPassedInOrder, Passed
  <2> QED
    BY <2>3, <2>4, <2>5, <2>6 DEF IInv
<1> QED
  BY <1>4, <1>5

LEMMA IntakeClarificationStep ==
    ASSUME IInv, NEW decision \in Decisions, IntakeClarification(decision)
    PROVE  IInv'
<1>1. "intake" \in Gates /\ Index["intake"] = 1
  BY DEF Gates, Index
<1>2. Reaches(node', 0)
  BY <1>1, ReworkReaches DEF IntakeClarification
<1>3. node' \in Nodes \ Aside
  BY <1>2 DEF Reaches
<1>4. cycles' \in [Gates -> 0 .. MaxCycles]
  <2>1. cycles \in [Gates -> 0 .. MaxCycles] /\ cycles["intake"] < MaxCycles
    BY DEF IntakeClarification, IInv, TypeOK, CycleLeft
  <2>2. cycles["intake"] + 1 \in 0 .. MaxCycles
    BY <1>1, <2>1, MaxCyclesAssumption
  <2> QED
    BY <2>1, <2>2 DEF IntakeClarification
<1>5. TypeOK'
  BY <1>3, <1>4 DEF IntakeClarification, IInv, TypeOK, Aside
<1>6. CycleLeft' /\ EscalationUnderWay'
  BY <1>3 DEF CycleLeft, EscalationUnderWay, Aside
<1>7. CountersMatch'
  BY <1>1, <1>3 DEF IntakeClarification, IInv, TypeOK, CountersMatch, Pending, Aside
<1>8. GatesPassedInOrder'
  <2>1. \A h \in Gates : Index[h] <= 0 => h \in accepted'
    BY Tables
  <2> QED
    BY <1>2, <2>1, OrderKept
<1> QED
  BY <1>5, <1>6, <1>7, <1>8 DEF IInv

LEMMA CycleNodeStep ==
    ASSUME IInv, CycleNode
    PROVE  IInv'
<1>1. gate \in Gates
  BY DEF CycleNode, IInv, TypeOK
<1>2. Reaches(node', Index[gate] - 1)
  BY <1>1, ReworkReaches DEF CycleNode
<1>3. node' \in Nodes \ Aside
  BY <1>2 DEF Reaches
<1>4. cycles' \in [Gates -> 0 .. MaxCycles]
  <2>1. cycles \in [Gates -> 0 .. MaxCycles] /\ cycles[gate] < MaxCycles
    BY DEF CycleNode, IInv, TypeOK, CycleLeft
  <2>2. cycles[gate] + 1 \in 0 .. MaxCycles
    BY <1>1, <2>1, MaxCyclesAssumption
  <2> QED
    BY <2>1, <2>2 DEF CycleNode
<1>5. TypeOK'
  BY <1>3, <1>4 DEF CycleNode, IInv, TypeOK, Aside
<1>6. CycleLeft' /\ EscalationUnderWay'
  BY <1>3 DEF CycleLeft, EscalationUnderWay, Aside
<1>7. CountersMatch'
  BY <1>1, <1>3 DEF CycleNode, IInv, TypeOK, CountersMatch, Pending, Aside
<1>8. GatesPassedInOrder'
  <2>1. \A h \in Gates : Index[h] <= Index[gate] - 1 => h \in accepted'
    BY DEF CycleNode, IInv, GatesPassedInOrder, Passed
  <2> QED
    BY <1>1, <1>2, <2>1, OrderKept, Tables
<1> QED
  BY <1>5, <1>6, <1>7, <1>8 DEF IInv

LEMMA EscalateNodeStep ==
    ASSUME IInv, EscalateNode
    PROVE  IInv'
<1>1. TypeOK' /\ CycleLeft'
  BY DEF EscalateNode, IInv, TypeOK, CycleLeft, Nodes
<1>2. EscalationUnderWay'
  BY DEF EscalateNode, IInv, EscalationUnderWay
<1>3. CountersMatch'
  BY DEF EscalateNode, IInv, CountersMatch, Pending
<1>4. GatesPassedInOrder'
  <2>1. Passed(Index[gate] - 1)
    BY DEF EscalateNode, IInv, GatesPassedInOrder
  <2>2. \A g \in Gates : GateNode[g] # "human_review"
    BY GateNodeFacts DEF Aside
  <2> QED
    BY <2>1, <2>2 DEF EscalateNode, GatesPassedInOrder, Passed, WorkStages
<1> QED
  BY <1>1, <1>2, <1>3, <1>4 DEF IInv

LEMMA HumanReviewApprovedStep ==
    ASSUME IInv, HumanReviewApproved
    PROVE  IInv'
<1>1. gate \in Gates /\ escalatedGate = gate
  BY DEF HumanReviewApproved, IInv, TypeOK, EscalationUnderWay
<1>2. Reaches(node', Index[gate])
  BY <1>1, ApprovalReaches DEF HumanReviewApproved, ResumeNode
<1>3. node' \in Nodes \ Aside
  BY <1>2 DEF Reaches
<1>4. NoCycles \in [Gates -> 0 .. MaxCycles] /\ NoCycles \in [Gates -> Nat]
  BY MaxCyclesAssumption DEF NoCycles
<1>5. TypeOK'
  BY <1>1, <1>3, <1>4 DEF HumanReviewApproved, IInv, TypeOK, Aside
<1>6. CycleLeft' /\ EscalationUnderWay'
  BY <1>3 DEF CycleLeft, EscalationUnderWay, Aside
<1>7. CountersMatch'
  BY <1>3 DEF HumanReviewApproved, NoCycles, CountersMatch, Pending, Aside
<1>8. GatesPassedInOrder'
  <2>1. Passed(Index[gate] - 1)
    BY DEF HumanReviewApproved, IInv, GatesPassedInOrder
  <2>2. \A h \in Gates : Index[h] = Index[gate] => h = gate
    BY <1>1 DEF Index, Gates
  <2>3. \A h \in Gates : Index[h] <= Index[gate] => h \in accepted'
    BY <1>1, <2>1, <2>2, Tables DEF HumanReviewApproved, Passed
  <2> QED
    BY <1>1, <1>2, <2>3, OrderKept, Tables
<1> QED
  BY <1>5, <1>6, <1>7, <1>8 DEF IInv

\* The three steps to the ends of the graph change no counter of a gate.
LEMMA EndingStep ==
    ASSUME IInv,
           HumanReviewRejected \/ Finish("delivered") \/ Finish("cancelled")
    PROVE  IInv'
<1>1. /\ node \in {"human_review", "delivered", "cancelled"}
      /\ node' \in {"cancelled", "end"}
      /\ UNCHANGED <<gate, cycles, rejections, accepted>>
  BY DEF HumanReviewRejected, Finish
<1>2. TypeOK'
  BY DEF HumanReviewRejected, Finish, IInv, TypeOK, Nodes
<1>3. CycleLeft' /\ EscalationUnderWay'
  BY <1>1 DEF CycleLeft, EscalationUnderWay
<1>4. CountersMatch'
  BY <1>1 DEF IInv, TypeOK, CountersMatch, Pending
<1>5. GatesPassedInOrder'
  <2>1. \A g \in Gates : GateNode[g] # node'
    BY <1>1, GateNodeFacts DEF Aside
  <2>2. node' = "end" /\ currentStage' = "delivered" => node = "delivered"
    BY DEF HumanReviewRejected, Finish
  <2> QED
    BY <1>1, <2>1, <2>2 DEF IInv, GatesPassedInOrder, Passed, WorkStages
<1> QED
  BY <1>2, <1>3, <1>4, <1>5 DEF IInv

\* The graph invoked again from triage, with or without the old state.
LEMMA ReinvokeStep ==
    ASSUME IInv, RetryFromTriage \/ RestartWithoutCheckpoint
    PROVE  IInv'
<1>1. /\ node' = "triage" /\ reinvokes' # 0 /\ reinvokes' \in 0 .. MaxReinvokes
      /\ rejections' = NoCycles /\ cycles' \in {cycles, NoCycles}
  BY MaxReinvokesAssumption DEF RetryFromTriage, RestartWithoutCheckpoint, IInv, TypeOK
<1>2. NoCycles \in [Gates -> 0 .. MaxCycles] /\ NoCycles \in [Gates -> Nat]
  BY MaxCyclesAssumption DEF NoCycles
<1>3. TypeOK'
  BY <1>1, <1>2 DEF RetryFromTriage, RestartWithoutCheckpoint, IInv, TypeOK, Nodes,
                    WorkStages
<1>4. CycleLeft' /\ EscalationUnderWay'
  BY <1>1 DEF CycleLeft, EscalationUnderWay
<1>5. CountersMatch'
  BY <1>1, <1>2 DEF IInv, TypeOK, CountersMatch, Pending, NoCycles
<1>6. GatesPassedInOrder'
  <2>1. \A g \in Gates : "triage" # GateNode[g]
    BY GateNodeFacts DEF WorkStages
  <2>2. StagePosition["triage"] = 0
    BY DEF StagePosition
  <2> QED
    BY <1>1, <2>1, <2>2, Tables DEF GatesPassedInOrder, Passed
<1> QED
  BY <1>3, <1>4, <1>5, <1>6 DEF IInv

LEMMA NextIInv == IInv /\ [Next]_vars => IInv'
<1> SUFFICES ASSUME IInv, [Next]_vars PROVE IInv'
  OBVIOUS
<1>1. ASSUME NEW n \in WorkStages, Stage(n) PROVE IInv'
  BY <1>1, StageStep
<1>2. ASSUME NEW g \in AgentGates, NEW answers \in SUBSET AgentAnswers,
             AgentGate(g, answers)
      PROVE  IInv'
  <2>1. g \in Gates
    BY <1>2 DEF AgentGates
  <2>2. StageStatus(answers) = "approved" <=> answers \cap Objections = {}
    BY StatusTellsObjections
  <2> DEFINE approved == answers \cap Objections = {}
  <2>3. /\ node = GateNode[g] /\ Route(g, approved) /\ Judge(g, approved)
        /\ UNCHANGED <<cycles, escalatedGate, humanReviewRequired, reinvokes>>
        /\ currentStage' = "stage"
    BY <1>2, <2>2 DEF AgentGate, Route
  <2> QED
    BY <2>1, <2>3, VerdictStep
<1>3. ASSUME NEW g \in HumanGates, NEW decision \in Decisions, ApprovalGate(g, decision)
      PROVE  IInv'
  <2>1. g \in Gates
    BY <1>3 DEF HumanGates, Gates
  <2> QED
    BY <1>3, <2>1, VerdictStep DEF ApprovalGate
<1>4. ASSUME NEW decision \in Decisions, IntakeClarification(decision) PROVE IInv'
  BY <1>4, IntakeClarificationStep
<1>5. CASE UNCHANGED vars
  BY <1>5 DEF vars, IInv, TypeOK, CycleLeft, CountersMatch, Pending,
              EscalationUnderWay, GatesPassedInOrder, Passed
<1> QED
  BY <1>1, <1>2, <1>3, <1>4, <1>5, CycleNodeStep, EscalateNodeStep,
     HumanReviewApprovedStep, EndingStep, ReinvokeStep
  DEF Next, GraphStep

-----------------------------------------------------------------------------
(* The theorems. *)

LEMMA Invariance == Spec => []IInv
  BY InitIInv, NextIInv, PTL DEF Spec

\* The state of the pipeline is well formed and no counter of a gate leaves
\* 0 .. MaxCycles, for every MaxCycles and however often the run is retried.
THEOREM TypeCorrect == Spec => []TypeOK
<1>1. IInv => TypeOK
  BY DEF IInv
<1> QED
  BY <1>1, Invariance, PTL

\* No stage and no gate works on what an earlier gate has not accepted, and
\* nothing is delivered without all nine gates.
THEOREM GatesInOrder == Spec => []GatesPassedInOrder
<1>1. IInv => GatesPassedInOrder
  BY DEF IInv
<1> QED
  BY <1>1, Invariance, PTL

\* No gate turns the work back more than MaxCycles + 1 times before a person
\* decides.
THEOREM RejectionsBounded == Spec => []RejectionBudget
<1>1. IInv => RejectionBudget
  BY MaxCyclesAssumption DEF IInv, TypeOK, CountersMatch, Pending, RejectionBudget
<1> QED
  BY <1>1, Invariance, PTL

\* Human review is reached for the gate that used up its cycles, and only then.
THEOREM EscalationsEarned == Spec => []EscalationEarned
<1>1. IInv => EscalationEarned
  BY DEF IInv, TypeOK, CountersMatch, Pending, EscalationUnderWay, EscalationEarned
<1> QED
  BY <1>1, Invariance, PTL

-----------------------------------------------------------------------------
(* The refinement of GatedDelivery. *)

\* The gates before a gate.
Before(g) == {h \in Gates : Index[h] < Index[g]}

\* Where the graph judges, or deals with a verdict, exactly the gates before have
\* accepted; and only a run that is invoked again starts with the end of the last one.
Exact ==
    /\ \A g \in Gates : node = GateNode[g] => accepted = Before(g)
    /\ node \in {"cycle", "escalate", "human_review"} => accepted = Before(gate)
    /\ node = "intake_clarification" => accepted = {}
    /\ node \notin {"triage", "end"} => currentStage = "stage"

\* The places of the gates that have accepted, as the pipeline counts them.
Places == {Index[g] : g \in accepted}

\* The gates have every place from 1 to 9.
LEMMA EveryPlace == \A i \in 1 .. 9 : \E g \in Gates : Index[g] = i
<1>1. /\ Index["intake"] = 1 /\ Index["scope"] = 2 /\ Index["architecture"] = 3
      /\ Index["code_review"] = 4 /\ Index["tests"] = 5 /\ Index["qa"] = 6
      /\ Index["security"] = 7 /\ Index["operational"] = 8 /\ Index["release"] = 9
  BY DEF Index
<1> QED BY <1>1 DEF Gates

\* Work done again after the first k gates takes back what the later ones said.
LEMMA RedoPlaces ==
    ASSUME NEW S \in SUBSET Gates, NEW k \in 0 .. 9
    PROVE  {Index[g] : g \in {h \in S : Index[h] <= k}} = {Index[g] : g \in S} \cap (1 .. k)
<1>1. \A g \in S : Index[g] \in 1 .. 9
  BY Tables
<1>2. \A g \in S : Index[g] <= k <=> Index[g] \in 1 .. k
  BY <1>1
<1> QED
  BY <1>2

LEMMA BeforePlaces ==
    ASSUME NEW g \in Gates
    PROVE  /\ Index[g] \in 1 .. 9
           /\ {Index[h] : h \in Before(g)} = 1 .. Index[g] - 1
           /\ {Index[h] : h \in Before(g) \cup {g}} = 1 .. Index[g]
<1>1. Index[g] \in 1 .. 9 /\ \A h \in Gates : Index[h] \in 1 .. 9
  BY Tables
<1>2. \A i \in 1 .. Index[g] - 1 : \E h \in Before(g) : Index[h] = i
  BY <1>1, EveryPlace DEF Before
<1>3. \A h \in Before(g) : Index[h] \in 1 .. Index[g] - 1
  BY <1>1 DEF Before
<1>4. {Index[h] : h \in Before(g)} = 1 .. Index[g] - 1
  BY <1>2, <1>3
<1>5. {Index[h] : h \in Before(g) \cup {g}} = {Index[h] : h \in Before(g)} \cup {Index[g]}
  OBVIOUS
<1>6. (1 .. Index[g] - 1) \cup {Index[g]} = 1 .. Index[g]
  BY <1>1
<1> QED
  BY <1>1, <1>4, <1>5, <1>6

\* To which gates the tables lead.
LEMMA NextGates ==
    ASSUME NEW h \in Gates
    PROVE  /\ \A g \in Gates : OnApproval[g] = GateNode[h] => Index[h] = Index[g] + 1
           /\ \A g \in Gates : ReworkNode[g] = GateNode[h] => h = g
           /\ \A n \in WorkStages : NextStage[n] = GateNode[h] => Index[h] = StagePosition[n] + 1
BY DEF OnApproval, ReworkNode, NextStage, GateNode, Index, StagePosition, Gates, WorkStages

\* The acceptance of one gate more.
LEMMA BeforeNext ==
    ASSUME NEW g \in Gates, NEW h \in Gates, Index[h] = Index[g] + 1
    PROVE  Before(g) \cup {g} = Before(h)
<1>1. \A f \in Gates : Index[f] \in 1 .. 9
  BY Tables
<1>2. \A f \in Gates : Index[f] = Index[g] => f = g
  BY DEF Index, Gates
<1> QED
  BY <1>1, <1>2 DEF Before

\* The steps of the pipeline, as steps of the graph.
LEMMA AcceptRefines ==
    ASSUME NEW g \in Gates, currentStage = "stage", currentStage' = "stage",
           accepted = Before(g), accepted' = Before(g) \cup {g}
    PROVE  Pipeline!Next
<1>1. Places = 1 .. Index[g] - 1 /\ Places' = 1 .. Index[g] /\ Index[g] \in 1 .. 9
  BY BeforePlaces DEF Places
<1>2. Pipeline!Accept(Index[g])
  BY <1>1 DEF Pipeline!Accept, Places
<1> QED
  BY <1>1, <1>2 DEF Pipeline!Next

LEMMA RedoRefines ==
    ASSUME TypeOK, NEW k \in 0 .. 9, currentStage = "stage", currentStage' = "stage",
           accepted' = {h \in accepted : Index[h] <= k}
    PROVE  Pipeline!Next
<1>1. Places' = Places \cap (1 .. k)
  BY RedoPlaces DEF TypeOK, Places
<1>2. Pipeline!Redo(k)
  BY <1>1 DEF Pipeline!Redo, Places
<1> QED
  BY <1>2 DEF Pipeline!Next

LEMMA ReopenRefines ==
    ASSUME TypeOK, currentStage # "stage", currentStage' = "stage", accepted' = {}
    PROVE  Pipeline!Next
<1>1. currentStage \in {"delivered", "cancelled"}
  BY DEF TypeOK
<1>2. Pipeline!Reopen
  BY <1>1 DEF Pipeline!Reopen
<1> QED
  BY <1>2 DEF Pipeline!Next

Refined == [Pipeline!Next]_(Pipeline!vars)

LEMMA StutterRefines == ASSUME UNCHANGED <<accepted, currentStage>> PROVE Refined
BY DEF Refined, Pipeline!vars

\* Each action keeps Exact and is a step of the pipeline, or none.
LEMMA StageRefines ==
    ASSUME IInv, Exact, NEW n \in WorkStages, Stage(n)
    PROVE  Exact' /\ Refined
<1>1. TypeOK /\ node = n /\ node' = NextStage[n] /\ currentStage' = "stage"
      /\ accepted' = {h \in accepted : Index[h] <= StagePosition[n]}
  BY DEF IInv, Stage
<1>2. StagePosition[n] \in 0 .. 8
  BY Tables
<1>3. node' \notin Aside
  BY <1>1, StageReaches DEF Reaches
<1>4. Exact'
  <2>1. ASSUME NEW g \in Gates, node' = GateNode[g]
        PROVE  accepted' = Before(g)
    <3>1. Index[g] = StagePosition[n] + 1
      BY <1>1, <2>1, NextGates
    <3>2. \A h \in Gates : Index[h] <= StagePosition[n] => h \in accepted
      BY <1>1 DEF IInv, GatesPassedInOrder, Passed
    <3>3. \A h \in Gates : Index[h] \in 1 .. 9
      BY Tables
    <3>4. \A h \in Gates : Index[h] <= StagePosition[n] <=> Index[h] < Index[g]
      BY <1>2, <3>1, <3>3
    <3>5. accepted \subseteq Gates
      BY <1>1 DEF TypeOK
    <3> QED
      BY <1>1, <3>2, <3>4, <3>5 DEF Before
  <2> QED
    BY <1>1, <1>3, <2>1 DEF Exact, Aside
<1>5. Refined
  <2>1. CASE currentStage = "stage"
    BY <1>1, <1>2, <2>1, RedoRefines DEF Refined
  <2>2. CASE currentStage # "stage"
    <3>1. n = "triage"
      BY <1>1, <2>2 DEF Exact, WorkStages
    <3>2. StagePosition[n] = 0
      BY <3>1 DEF StagePosition
    <3>3. accepted' = {}
      BY <1>1, <3>2, Tables DEF TypeOK
    <3> QED
      BY <1>1, <2>2, <3>3, ReopenRefines DEF Refined
  <2> QED
    BY <2>1, <2>2
<1> QED
  BY <1>4, <1>5

LEMMA VerdictRefines ==
    ASSUME IInv, Exact, NEW g \in Gates, node = GateNode[g], NEW approved \in BOOLEAN,
           Route(g, approved), Judge(g, approved), currentStage' \in {currentStage, "stage"}
    PROVE  Exact' /\ Refined
<1>1. accepted = Before(g)
  BY DEF Exact
<1>2. currentStage = "stage" /\ currentStage' = "stage"
  <2>1. node \notin {"triage", "end"}
    BY GateNodeFacts DEF Aside, WorkStages
  <2> QED
    BY <2>1 DEF Exact
<1>3. CASE approved
  <2>1. accepted' = Before(g) \cup {g}
    BY <1>1, <1>3 DEF Judge, Before
  <2>2. node' = OnApproval[g] /\ node' \notin Aside
    BY <1>3, ApprovalReaches DEF Route, Reaches
  <2>3. \A h \in Gates : node' = GateNode[h] => accepted' = Before(h)
    BY <2>1, <2>2, NextGates, BeforeNext
  <2>4. Exact'
    BY <1>2, <2>2, <2>3 DEF Exact, Aside
  <2>5. Pipeline!Next
    BY <1>1, <1>2, <2>1, AcceptRefines
  <2> QED
    BY <2>4, <2>5 DEF Refined
<1>4. CASE ~approved
  <2>1. accepted' = Before(g)
    BY <1>1, <1>4 DEF Judge, Before
  <2>2. /\ gate' = g
        /\ node' \in {"cycle", "escalate", "intake_clarification"}
        /\ node' = "intake_clarification" => g = "intake"
    BY <1>4 DEF Route
  <2>3. Before("intake") = {}
    <3>1. "intake" \in Gates /\ Index["intake"] = 1
      BY DEF Gates, Index
    <3> QED
      BY <3>1, Tables DEF Before
  <2>4. \A h \in Gates : node' # GateNode[h]
    BY <2>2, GateNodeFacts DEF Aside
  <2>5. Exact'
    BY <1>2, <2>1, <2>2, <2>3, <2>4 DEF Exact
  <2> QED
    BY <1>1, <1>2, <2>1, <2>5, StutterRefines
<1> QED
  BY <1>3, <1>4

\* Back to work: the node is left with the acceptances before its gate.
LEMMA ReworkRefines ==
    ASSUME IInv, Exact, NEW g \in Gates, accepted = Before(g), node' = ReworkNode[g],
           node \notin {"triage", "end"}, UNCHANGED <<accepted, currentStage>>
    PROVE  Exact' /\ Refined
<1>1. node' \notin Aside
  BY ReworkReaches DEF Reaches
<1>2. \A h \in Gates : node' = GateNode[h] => h = g
  BY NextGates
<1> QED
  BY <1>1, <1>2, StutterRefines DEF Exact, Aside

LEMMA ReviewRefines ==
    ASSUME IInv, Exact, HumanReviewApproved
    PROVE  Exact' /\ Refined
<1>1. gate \in Gates /\ escalatedGate = gate /\ node = "human_review"
  BY DEF HumanReviewApproved, IInv, TypeOK, EscalationUnderWay
<1>2. accepted = Before(gate) /\ currentStage = "stage"
  BY <1>1 DEF Exact
<1>3. accepted' = Before(gate) \cup {gate} /\ currentStage' = "stage"
  BY <1>2 DEF HumanReviewApproved, Before
<1>4. node' = OnApproval[gate] /\ node' \notin Aside
  BY <1>1, ApprovalReaches DEF HumanReviewApproved, ResumeNode, Reaches
<1>5. \A h \in Gates : node' = GateNode[h] => accepted' = Before(h)
  BY <1>1, <1>3, <1>4, NextGates, BeforeNext
<1>6. Exact'
  BY <1>3, <1>4, <1>5 DEF Exact, Aside
<1>7. Pipeline!Next
  BY <1>1, <1>2, <1>3, AcceptRefines
<1> QED
  BY <1>6, <1>7 DEF Refined

LEMMA EndRefines ==
    ASSUME IInv, Exact, HumanReviewRejected \/ Finish("delivered") \/ Finish("cancelled")
    PROVE  Exact' /\ Refined
<1>1. node' \in {"cancelled", "end"} /\ node \in {"human_review", "delivered", "cancelled"}
      /\ UNCHANGED accepted
  BY DEF HumanReviewRejected, Finish
<1>2. currentStage = "stage"
  BY <1>1 DEF Exact
<1>3. \A h \in Gates : node' # GateNode[h]
  BY <1>1, GateNodeFacts DEF Aside
<1>4. Exact'
  BY <1>2, <1>1, <1>3 DEF Exact, HumanReviewRejected, Finish
<1>5. Refined
  <2>1. CASE HumanReviewRejected
    BY <2>1, StutterRefines DEF HumanReviewRejected
  <2>2. CASE Finish("cancelled")
    <3>1. Pipeline!Cancel
      BY <1>2, <2>2 DEF Finish, Pipeline!Cancel
    <3> QED
      BY <3>1 DEF Refined, Pipeline!Next
  <2>3. CASE Finish("delivered")
    <3>1. Passed(9)
      BY <2>3 DEF Finish, IInv, GatesPassedInOrder
    <3>2. accepted = Gates
      BY <3>1, Tables DEF Passed, IInv, TypeOK
    <3>3. Places = 1 .. 9
      BY <3>2, EveryPlace, Tables DEF Places
    <3>4. Pipeline!Deliver
      BY <1>1, <1>2, <2>3, <3>3 DEF Finish, Pipeline!Deliver, Places
    <3> QED
      BY <3>4 DEF Refined, Pipeline!Next
  <2> QED
    BY <2>1, <2>2, <2>3
<1> QED
  BY <1>4, <1>5

LEMMA ReinvokeRefines ==
    ASSUME IInv, Exact, RetryFromTriage \/ RestartWithoutCheckpoint
    PROVE  Exact' /\ Refined
<1>1. node' = "triage"
  BY DEF RetryFromTriage, RestartWithoutCheckpoint
<1>2. \A h \in Gates : node' # GateNode[h]
  BY <1>1, GateNodeFacts DEF WorkStages
<1>3. Exact'
  BY <1>1, <1>2 DEF Exact
<1>4. Refined
  <2>1. CASE RetryFromTriage
    BY <2>1, StutterRefines DEF RetryFromTriage
  <2>2. CASE RestartWithoutCheckpoint
    <3>1. TypeOK /\ accepted' = {} /\ currentStage' = "stage"
      BY <2>2 DEF IInv, RestartWithoutCheckpoint
    <3>2. CASE currentStage = "stage"
      <4>1. {} = {h \in accepted : Index[h] <= 0}
        BY <3>1, Tables DEF TypeOK
      <4> QED
        BY <3>1, <3>2, <4>1, RedoRefines DEF Refined
    <3>3. CASE currentStage # "stage"
      BY <3>1, <3>3, ReopenRefines DEF Refined
    <3> QED
      BY <3>2, <3>3
  <2> QED
    BY <2>1, <2>2
<1> QED
  BY <1>3, <1>4

LEMMA NextRefines == IInv /\ Exact /\ [Next]_vars => Exact' /\ Refined
<1> SUFFICES ASSUME IInv, Exact, [Next]_vars PROVE Exact' /\ Refined
  OBVIOUS
<1>1. ASSUME NEW n \in WorkStages, Stage(n) PROVE Exact' /\ Refined
  BY <1>1, StageRefines
<1>2. ASSUME NEW g \in AgentGates, NEW answers \in SUBSET AgentAnswers,
             AgentGate(g, answers)
      PROVE  Exact' /\ Refined
  <2>1. g \in Gates
    BY <1>2 DEF AgentGates
  <2>2. StageStatus(answers) = "approved" <=> answers \cap Objections = {}
    BY StatusTellsObjections
  <2> DEFINE approved == answers \cap Objections = {}
  <2>3. /\ node = GateNode[g] /\ Route(g, approved) /\ Judge(g, approved)
        /\ currentStage' = "stage"
    BY <1>2, <2>2 DEF AgentGate, Route
  <2> QED
    BY <2>1, <2>3, VerdictRefines
<1>3. ASSUME NEW g \in HumanGates, NEW decision \in Decisions, ApprovalGate(g, decision)
      PROVE  Exact' /\ Refined
  <2>1. g \in Gates
    BY <1>3 DEF HumanGates, Gates
  <2> QED
    BY <1>3, <2>1, VerdictRefines DEF ApprovalGate
<1>4. ASSUME NEW decision \in Decisions, IntakeClarification(decision)
      PROVE  Exact' /\ Refined
  <2>1. "intake" \in Gates /\ Index["intake"] = 1
    BY DEF Gates, Index
  <2>2. Before("intake") = {}
    BY <2>1, Tables DEF Before
  <2>3. node = "intake_clarification" /\ node' = ReworkNode["intake"]
        /\ UNCHANGED <<accepted, currentStage>>
    BY <1>4 DEF IntakeClarification
  <2>4. accepted = Before("intake")
    BY <2>2, <2>3 DEF Exact
  <2> QED
    BY <2>1, <2>3, <2>4, ReworkRefines
<1>5. CASE CycleNode
  <2>1. gate \in Gates /\ accepted = Before(gate)
    BY <1>5 DEF CycleNode, IInv, TypeOK, Exact
  <2> QED
    BY <1>5, <2>1, ReworkRefines DEF CycleNode
<1>6. CASE EscalateNode
  <2>1. \A h \in Gates : node' # GateNode[h]
    BY <1>6, GateNodeFacts DEF EscalateNode, Aside
  <2>2. Exact'
    BY <1>6, <2>1 DEF EscalateNode, Exact
  <2> QED
    BY <1>6, <2>2, StutterRefines DEF EscalateNode
<1>7. CASE UNCHANGED vars
  <2>1. Exact'
    BY <1>7 DEF vars, Exact
  <2> QED
    BY <1>7, <2>1, StutterRefines DEF vars
<1> QED
  BY <1>1, <1>2, <1>3, <1>4, <1>5, <1>6, <1>7, ReviewRefines, EndRefines, ReinvokeRefines
  DEF Next, GraphStep

\* The graph is a linear pipeline of nine gates: whatever cycles, escalations, reviews
\* and retries there are, it accepts in order, takes back what it redoes, and delivers
\* only with every gate.
THEOREM ImplementsPipeline == Spec => ImplementsGatedDelivery
<1>1. Init => Exact /\ Pipeline!Init
  <2> SUFFICES ASSUME Init PROVE Exact /\ Pipeline!Init
    OBVIOUS
  <2>1. \A h \in Gates : node # GateNode[h]
    BY GateNodeFacts DEF Init, WorkStages
  <2>2. Exact
    BY <2>1 DEF Init, Exact
  <2>3. Pipeline!Init
    BY DEF Init, Pipeline!Init
  <2> QED
    BY <2>2, <2>3
<1>2. Spec => []Exact
  <2>1. IInv /\ Exact /\ [Next]_vars => Exact'
    BY NextRefines
  <2> QED
    BY <1>1, <2>1, Invariance, PTL DEF Spec
<1>3. IInv /\ Exact /\ [Next]_vars => [Pipeline!Next]_(Pipeline!vars)
  BY NextRefines DEF Refined
<1>4. Spec => Pipeline!Spec
  BY <1>1, <1>2, <1>3, Invariance, PTL DEF Spec, Pipeline!Spec
<1> QED
  BY <1>4 DEF ImplementsGatedDelivery

\* At every moment the gates that have accepted are the first ones of the pipeline, and
\* a run that has delivered has all nine.
THEOREM DeliversWithEveryGate == Spec => []Pipeline!DeliveredWithEveryGate
<1>1. Pipeline!Init => Pipeline!DeliveredWithEveryGate
  BY DEF Pipeline!Init, Pipeline!DeliveredWithEveryGate
<1>2. Pipeline!DeliveredWithEveryGate /\ [Pipeline!Next]_(Pipeline!vars)
        => Pipeline!DeliveredWithEveryGate'
  <2> SUFFICES ASSUME Pipeline!DeliveredWithEveryGate, [Pipeline!Next]_(Pipeline!vars)
               PROVE  Pipeline!DeliveredWithEveryGate'
    OBVIOUS
  <2> DEFINE open(stage) == IF stage = "stage" THEN "open" ELSE stage
             P == {Index[g] : g \in accepted}
             o == open(currentStage)
  <2>1. /\ \E k \in 0 .. 9 : P = 1 .. k
        /\ o = "delivered" => P = 1 .. 9
    BY DEF Pipeline!DeliveredWithEveryGate
  <2>2. SUFFICES /\ \E k \in 0 .. 9 : P' = 1 .. k
                 /\ o' = "delivered" => P' = 1 .. 9
    BY DEF Pipeline!DeliveredWithEveryGate
  <2>3. ASSUME NEW k \in 1 .. 9, Pipeline!Accept(k)
        PROVE  P' = 1 .. k /\ o' = o /\ o = "open"
    BY <2>3 DEF Pipeline!Accept
  <2>4. ASSUME NEW k \in 0 .. 9, Pipeline!Redo(k)
        PROVE  P' = P \cap (1 .. k) /\ o' = o /\ o = "open"
    BY <2>4 DEF Pipeline!Redo
  <2>5. ASSUME Pipeline!Deliver \/ Pipeline!Cancel \/ UNCHANGED Pipeline!vars
        PROVE  P' = P /\ (o' = "delivered" => o = "delivered" \/ P = 1 .. 9)
    BY <2>5 DEF Pipeline!Deliver, Pipeline!Cancel, Pipeline!vars
  <2>6. ASSUME Pipeline!Reopen PROVE P' = {} /\ o' = "open"
    BY <2>6 DEF Pipeline!Reopen
  <2>7. \/ \E k \in 1 .. 9 : Pipeline!Accept(k)
        \/ \E k \in 0 .. 9 : Pipeline!Redo(k)
        \/ Pipeline!Deliver \/ Pipeline!Cancel \/ Pipeline!Reopen \/ UNCHANGED Pipeline!vars
    BY DEF Pipeline!Next
  <2> HIDE DEF P, o
  <2>8. ASSUME NEW k \in 0 .. 9, P' = P \cap (1 .. k) PROVE \E i \in 0 .. 9 : P' = 1 .. i
    <3>1. PICK j \in 0 .. 9 : P = 1 .. j
      BY <2>1
    <3>2. (1 .. j) \cap (1 .. k) = 1 .. (IF j <= k THEN j ELSE k)
      OBVIOUS
    <3>3. (IF j <= k THEN j ELSE k) \in 0 .. 9
      OBVIOUS
    <3> QED
      BY <2>8, <3>1, <3>2, <3>3
  <2>9. {} = 1 .. 0
    OBVIOUS
  <2>10. CASE \E k \in 1 .. 9 : Pipeline!Accept(k)
    BY <2>3, <2>10
  <2>11. CASE \E k \in 0 .. 9 : Pipeline!Redo(k)
    BY <2>4, <2>8, <2>11
  <2>12. CASE Pipeline!Deliver \/ Pipeline!Cancel \/ UNCHANGED Pipeline!vars
    BY <2>1, <2>5, <2>12
  <2>13. CASE Pipeline!Reopen
    BY <2>6, <2>9, <2>13
  <2> QED
    BY <2>7, <2>10, <2>11, <2>12, <2>13
<1>3. Pipeline!Spec => []Pipeline!DeliveredWithEveryGate
  BY <1>1, <1>2, PTL DEF Pipeline!Spec
<1> QED
  BY <1>3, ImplementsPipeline DEF ImplementsGatedDelivery

-----------------------------------------------------------------------------
(* How long the graph can go on by itself: a bound on the supersteps before  *)
(* a person lets the run pass a gate, or it ends.                            *)

\* The supersteps from a node when every verdict is positive, or human review refuses.
Distance ==
    [triage |-> 18, intake_analysis |-> 17, intake_clarification |-> 16,
     product_discovery |-> 16, requirements |-> 15, scope_approval |-> 14,
     architecture |-> 13, technical_planning |-> 12, development |-> 11,
     code_review |-> 10, automated_tests |-> 9, functional_qa |-> 8,
     security_compliance |-> 7, operational_validation |-> 6,
     documentation_release |-> 5, release_approval |-> 4, delivered |-> 3,
     escalate |-> 3, human_review |-> 2, cancelled |-> 1, end |-> 0]

FromNode(n, g) == IF n = "cycle" THEN Distance[GateNode[g]] - 1 ELSE Distance[n]

\* The supersteps of one cycle of a gate: the cycle, and the way back to the gate.
CycleCost == [intake |-> 2, scope |-> 4, architecture |-> 2, code_review |-> 3, tests |-> 4,
              qa |-> 5, security |-> 6, operational |-> 8, release |-> 10]

\* The supersteps of the cycles that the counters c have counted, at the gates before
\* the plan, at those of development and at those of the release.
SpentBefore(c)      == 2 * c["intake"] + 4 * c["scope"] + 2 * c["architecture"]
SpentDeveloping(c)  == 3 * c["code_review"] + 4 * c["tests"] + 5 * c["qa"]
SpentReleasing(c)   == 6 * c["security"] + 8 * c["operational"] + 10 * c["release"]

Spent(c) == SpentBefore(c) + SpentDeveloping(c) + SpentReleasing(c)

MostSteps == 18 + 44 * MaxCycles
StepsToGo == FromNode(node, gate) + 44 * MaxCycles - Spent(cycles)

Bounded == StepsToGo \in 0 .. MostSteps
Nears   == GraphStep => HumanReviewApproved \/ StepsToGo' < StepsToGo

\* Every edge leads nearer to the end, but the one of a cycle, which costs the cycle.
LEMMA Distances ==
    /\ Distance \in [Nodes \ {"cycle"} -> 0 .. 18]
    /\ \A n \in Nodes \ {"cycle", "end", "delivered", "escalate", "human_review", "cancelled"} :
         Distance[n] > 3
    /\ \A n \in WorkStages : Distance[NextStage[n]] < Distance[n]
    /\ \A g \in Gates : /\ Distance[OnApproval[g]] < Distance[GateNode[g]]
                        /\ Distance["escalate"] < Distance[GateNode[g]]
                        /\ Distance[ReworkNode[g]] + 1 < Distance[GateNode[g]] + CycleCost[g]
                        /\ GateNode[g] \in Nodes \ {"cycle"}
                        /\ OnApproval[g] \in Nodes \ {"cycle"}
                        /\ ReworkNode[g] \in Nodes \ {"cycle"}
                        /\ CycleCost[g] \in 2 .. 10
    /\ \A n \in WorkStages : NextStage[n] \in Nodes \ {"cycle"}
<1>1. Distance \in [Nodes \ {"cycle"} -> 0 .. 18]
  BY DEF Distance, Nodes, WorkStages, GateNodes
<1>2. \A n \in Nodes \ {"cycle", "end", "delivered", "escalate", "human_review", "cancelled"} :
        Distance[n] > 3
  BY DEF Distance, Nodes, WorkStages, GateNodes
<1>3. ASSUME NEW n \in WorkStages
      PROVE  Distance[NextStage[n]] < Distance[n] /\ NextStage[n] \in Nodes \ {"cycle"}
  BY DEF Distance, NextStage, Nodes, WorkStages, GateNodes
<1>4. ASSUME NEW g \in Gates
      PROVE  /\ GateNode[g] \in Nodes \ {"cycle"}
             /\ OnApproval[g] \in Nodes \ {"cycle"}
             /\ ReworkNode[g] \in Nodes \ {"cycle"}
             /\ CycleCost[g] \in 2 .. 10
  BY DEF GateNode, OnApproval, ReworkNode, CycleCost, Gates, Nodes, WorkStages, GateNodes
<1>5. ASSUME NEW g \in Gates
      PROVE  /\ Distance[OnApproval[g]] < Distance[GateNode[g]]
             /\ Distance["escalate"] < Distance[GateNode[g]]
             /\ Distance[ReworkNode[g]] + 1 < Distance[GateNode[g]] + CycleCost[g]
  BY DEF Distance, GateNode, OnApproval, ReworkNode, CycleCost, Gates
<1> QED
  BY <1>1, <1>2, <1>3, <1>4, <1>5

Counters == [Gates -> 0 .. MaxCycles]

LEMMA SpentTyped ==
    ASSUME NEW c \in Counters
    PROVE  Spent(c) \in Int /\ 0 <= Spent(c) /\ Spent(c) <= 44 * MaxCycles
<1>1. MaxCycles \in Int
  BY MaxCyclesAssumption
<1>2. /\ c["intake"] \in 0 .. MaxCycles /\ c["scope"] \in 0 .. MaxCycles
      /\ c["architecture"] \in 0 .. MaxCycles
  BY DEF Counters, Gates
<1>3. /\ c["code_review"] \in 0 .. MaxCycles /\ c["tests"] \in 0 .. MaxCycles
      /\ c["qa"] \in 0 .. MaxCycles
  BY DEF Counters, Gates
<1>4. /\ c["security"] \in 0 .. MaxCycles /\ c["operational"] \in 0 .. MaxCycles
      /\ c["release"] \in 0 .. MaxCycles
  BY DEF Counters, Gates
<1>5. SpentBefore(c) \in 0 .. 8 * MaxCycles
  BY <1>1, <1>2 DEF SpentBefore
<1>6. SpentDeveloping(c) \in 0 .. 12 * MaxCycles
  BY <1>1, <1>3 DEF SpentDeveloping
<1>7. SpentReleasing(c) \in 0 .. 24 * MaxCycles
  BY <1>1, <1>4 DEF SpentReleasing
<1> QED
  BY <1>1, <1>5, <1>6, <1>7 DEF Spent

\* A cycle is paid for by the counter of its gate.
LEMMA CyclePaid ==
    ASSUME NEW c \in Counters, NEW d \in Counters, NEW g \in Gates, d = [c EXCEPT ![g] = @ + 1]
    PROVE  Spent(d) = Spent(c) + CycleCost[g]
<1> DEFINE cost(S) == IF g \in S THEN CycleCost[g] ELSE 0
<1>1. \A h \in Gates : c[h] \in Int /\ d[h] = IF h = g THEN c[h] + 1 ELSE c[h]
  BY DEF Counters
<1>2. /\ SpentBefore(d) = SpentBefore(c) + cost({"intake", "scope", "architecture"})
      /\ SpentBefore(c) \in Int
  <2>1. /\ c["intake"] \in Int /\ c["scope"] \in Int /\ c["architecture"] \in Int
        /\ d["intake"] = IF g = "intake" THEN c["intake"] + 1 ELSE c["intake"]
        /\ d["scope"] = IF g = "scope" THEN c["scope"] + 1 ELSE c["scope"]
        /\ d["architecture"] = IF g = "architecture" THEN c["architecture"] + 1
                                                     ELSE c["architecture"]
    BY <1>1 DEF Gates
  <2> QED
    BY <2>1 DEF SpentBefore, CycleCost
<1>3. /\ SpentDeveloping(d) = SpentDeveloping(c) + cost({"code_review", "tests", "qa"})
      /\ SpentDeveloping(c) \in Int
  <2>1. /\ c["code_review"] \in Int /\ c["tests"] \in Int /\ c["qa"] \in Int
        /\ d["code_review"] = IF g = "code_review" THEN c["code_review"] + 1
                                                   ELSE c["code_review"]
        /\ d["tests"] = IF g = "tests" THEN c["tests"] + 1 ELSE c["tests"]
        /\ d["qa"] = IF g = "qa" THEN c["qa"] + 1 ELSE c["qa"]
    BY <1>1 DEF Gates
  <2> QED
    BY <2>1 DEF SpentDeveloping, CycleCost
<1>4. /\ SpentReleasing(d) = SpentReleasing(c) + cost({"security", "operational", "release"})
      /\ SpentReleasing(c) \in Int
  <2>1. /\ c["security"] \in Int /\ c["operational"] \in Int /\ c["release"] \in Int
        /\ d["security"] = IF g = "security" THEN c["security"] + 1 ELSE c["security"]
        /\ d["operational"] = IF g = "operational" THEN c["operational"] + 1
                                                   ELSE c["operational"]
        /\ d["release"] = IF g = "release" THEN c["release"] + 1 ELSE c["release"]
    BY <1>1 DEF Gates
  <2> QED
    BY <2>1 DEF SpentReleasing, CycleCost
<1>5. CycleCost[g] \in Int
  BY DEF CycleCost, Gates
<1>6. cost({"intake", "scope", "architecture"}) + cost({"code_review", "tests", "qa"})
        + cost({"security", "operational", "release"}) = CycleCost[g]
  BY <1>5 DEF Gates
<1>7. \A S : cost(S) \in Int
  BY <1>5
<1> HIDE DEF cost
<1> QED
  BY <1>2, <1>3, <1>4, <1>5, <1>6, <1>7 DEF Spent

LEMMA FromNodeTyped ==
    ASSUME NEW n \in Nodes, NEW g, n = "cycle" => g \in Gates
    PROVE  FromNode(n, g) \in 0 .. 18
<1>1. CASE n = "cycle"
  <2>1. g \in Gates /\ GateNode[g] \in GateNodes
    BY <1>1, Tables
  <2>2. Distance[GateNode[g]] > 3 /\ Distance[GateNode[g]] \in 0 .. 18
    BY <2>1, Distances DEF GateNodes, Nodes
  <2> QED
    BY <1>1, <2>2 DEF FromNode
<1>2. CASE n # "cycle"
  BY <1>2, Distances DEF FromNode
<1> QED
  BY <1>1, <1>2

\* A run at work has as many supersteps to go as an escalation takes.
LEMMA AtWork ==
    ASSUME TypeOK, node \notin {"human_review", "cancelled", "end"}
    PROVE  FromNode(node, gate) >= 3
<1>1. CASE node = "cycle"
  <2>1. gate \in Gates /\ GateNode[gate] \in GateNodes
    BY <1>1, Tables DEF TypeOK
  <2>2. Distance[GateNode[gate]] > 3 /\ Distance[GateNode[gate]] \in 0 .. 18
    BY <2>1, Distances DEF GateNodes, Nodes
  <2> QED
    BY <1>1, <2>2 DEF FromNode
<1>2. CASE node \in {"delivered", "escalate"}
  BY <1>2 DEF FromNode, Distance
<1>3. CASE node \notin {"cycle", "delivered", "escalate"}
  <2>1. Distance[node] > 3 /\ Distance[node] \in 0 .. 18
    BY <1>3, Distances DEF TypeOK
  <2> QED
    BY <1>3, <2>1 DEF FromNode
<1> QED
  BY <1>1, <1>2, <1>3

LEMMA StepsTyped ==
    TypeOK => /\ cycles \in Counters /\ FromNode(node, gate) \in 0 .. 18
              /\ Spent(cycles) \in Int /\ Bounded /\ StepsToGo \in Int
<1> SUFFICES ASSUME TypeOK
             PROVE  /\ cycles \in Counters /\ FromNode(node, gate) \in 0 .. 18
                    /\ Spent(cycles) \in Int /\ Bounded /\ StepsToGo \in Int
  OBVIOUS
<1>1. cycles \in Counters /\ FromNode(node, gate) \in 0 .. 18
  BY FromNodeTyped DEF TypeOK, Counters
<1>2. /\ Spent(cycles) \in Int /\ 0 <= Spent(cycles) /\ Spent(cycles) <= 44 * MaxCycles
      /\ MaxCycles \in Int
  BY <1>1, SpentTyped, MaxCyclesAssumption
<1> QED
  BY <1>1, <1>2 DEF Bounded, StepsToGo, MostSteps

LEMMA StepsTypedNext ==
    ASSUME TypeOK'
    PROVE  cycles' \in Counters /\ FromNode(node', gate') \in 0 .. 18 /\ Spent(cycles') \in Int
<1>1. cycles' \in Counters /\ FromNode(node', gate') \in 0 .. 18
  BY FromNodeTyped DEF TypeOK, Counters
<1> QED
  BY <1>1, SpentTyped

\* A step that changes no counter of a gate and is nearer to the end,
LEMMA NearerByNode ==
    ASSUME TypeOK, TypeOK', UNCHANGED cycles, FromNode(node', gate') < FromNode(node, gate)
    PROVE  StepsToGo' < StepsToGo
<1>1. /\ FromNode(node, gate) \in Int /\ FromNode(node', gate') \in Int
      /\ Spent(cycles) \in Int /\ MaxCycles \in Int
  BY StepsTyped, StepsTypedNext, MaxCyclesAssumption
<1>2. Spent(cycles') = Spent(cycles)
  OBVIOUS
<1> QED
  BY <1>1, <1>2 DEF StepsToGo

\* and one that counts a cycle of gate g.
LEMMA NearerByCycle ==
    ASSUME TypeOK, TypeOK', NEW g \in Gates, cycles' = [cycles EXCEPT ![g] = @ + 1],
           FromNode(node', gate') < FromNode(node, gate) + CycleCost[g]
    PROVE  StepsToGo' < StepsToGo
<1>1. /\ FromNode(node, gate) \in Int /\ FromNode(node', gate') \in Int
      /\ Spent(cycles) \in Int /\ Spent(cycles') \in Int /\ CycleCost[g] \in Int
      /\ MaxCycles \in Int
  BY StepsTyped, StepsTypedNext, Distances, MaxCyclesAssumption
<1>2. Spent(cycles') = Spent(cycles) + CycleCost[g]
  BY CyclePaid, StepsTyped, StepsTypedNext, Zenon
<1> QED
  BY <1>1, <1>2 DEF StepsToGo

\* Every step of the graph but an approval of human review is nearer to the end.
LEMMA StepNears == IInv /\ IInv' /\ GraphStep => HumanReviewApproved \/ StepsToGo' < StepsToGo
<1> SUFFICES ASSUME IInv, IInv', GraphStep, ~HumanReviewApproved PROVE StepsToGo' < StepsToGo
  OBVIOUS
<1>1. TypeOK /\ TypeOK'
  BY DEF IInv
<1>2. ASSUME NEW n \in WorkStages, Stage(n) PROVE StepsToGo' < StepsToGo
  <2>1. node = n /\ node' = NextStage[n] /\ UNCHANGED cycles /\ n # "cycle"
    BY <1>2 DEF Stage, WorkStages
  <2>2. Distance[NextStage[n]] < Distance[n] /\ NextStage[n] # "cycle"
    BY Distances
  <2>3. FromNode(node', gate') < FromNode(node, gate)
    BY <2>1, <2>2 DEF FromNode
  <2> QED
    BY <1>1, <2>1, <2>3, NearerByNode
<1>3. ASSUME NEW g \in Gates, node = GateNode[g], NEW approved \in BOOLEAN, Route(g, approved),
             UNCHANGED cycles
      PROVE  StepsToGo' < StepsToGo
  <2>1. /\ node # "cycle" /\ Distance[OnApproval[g]] < Distance[node] /\ OnApproval[g] # "cycle"
        /\ Distance["escalate"] < Distance[node] /\ Distance[node] \in 0 .. 18
    BY <1>3, Distances
  <2>2. FromNode(node, gate) = Distance[node]
    BY <2>1 DEF FromNode
  <2>3. FromNode(node', gate') < FromNode(node, gate)
    <3>1. CASE approved
      BY <1>3, <2>1, <2>2, <3>1 DEF Route, FromNode
    <3>2. CASE ~approved
      <4>1. /\ gate' = g /\ node' \in {"cycle", "escalate", "intake_clarification"}
            /\ node' = "intake_clarification" => g = "intake"
        BY <1>3, <3>2 DEF Route
      <4>2. CASE node' = "cycle"
        BY <1>3, <2>1, <2>2, <4>1, <4>2 DEF FromNode
      <4>3. CASE node' = "escalate"
        BY <2>1, <2>2, <4>3 DEF FromNode
      <4>4. CASE node' = "intake_clarification"
        BY <1>3, <2>2, <4>1, <4>4 DEF FromNode, GateNode, Distance
      <4> QED
        BY <4>1, <4>2, <4>3, <4>4
    <3> QED
      BY <3>1, <3>2
  <2> QED
    BY <1>1, <1>3, <2>3, NearerByNode
<1>4. ASSUME NEW g \in AgentGates, NEW answers \in SUBSET AgentAnswers, AgentGate(g, answers)
      PROVE  StepsToGo' < StepsToGo
  <2> DEFINE approved == StageStatus(answers) = "approved"
  <2>1. g \in Gates /\ node = GateNode[g] /\ Route(g, approved) /\ UNCHANGED cycles
    BY <1>4 DEF AgentGate, AgentGates
  <2>2. approved \in BOOLEAN
    OBVIOUS
  <2> HIDE DEF approved
  <2> QED
    BY <1>3, <2>1, <2>2
<1>5. ASSUME NEW g \in HumanGates, NEW decision \in Decisions, ApprovalGate(g, decision)
      PROVE  StepsToGo' < StepsToGo
  <2> DEFINE approved == decision = "APPROVED"
  <2>1. g \in Gates /\ node = GateNode[g] /\ Route(g, approved) /\ UNCHANGED cycles
    BY <1>5 DEF ApprovalGate, HumanGates, Gates
  <2>2. approved \in BOOLEAN
    OBVIOUS
  <2> HIDE DEF approved
  <2> QED
    BY <1>3, <2>1, <2>2
<1>6. ASSUME NEW decision \in Decisions, IntakeClarification(decision)
      PROVE  StepsToGo' < StepsToGo
  <2>1. /\ node = "intake_clarification" /\ node' = "intake_analysis"
        /\ cycles' = [cycles EXCEPT !["intake"] = @ + 1] /\ "intake" \in Gates
    BY <1>6 DEF IntakeClarification, ReworkNode, Gates
  <2>2. FromNode(node', gate') = 17 /\ FromNode(node, gate) = 16 /\ CycleCost["intake"] = 2
    BY <2>1 DEF FromNode, Distance, CycleCost
  <2>3. FromNode(node', gate') < FromNode(node, gate) + CycleCost["intake"]
    BY <2>2
  <2> QED
    BY <1>1, <2>1, <2>3, NearerByCycle
<1>7. CASE CycleNode
  <2>1. /\ node = "cycle" /\ gate \in Gates /\ gate' = gate /\ node' = ReworkNode[gate]
        /\ cycles' = [cycles EXCEPT ![gate] = @ + 1]
    BY <1>1, <1>7 DEF CycleNode, TypeOK
  <2>2. /\ Distance[ReworkNode[gate]] + 1 < Distance[GateNode[gate]] + CycleCost[gate]
        /\ ReworkNode[gate] \in Nodes \ {"cycle"} /\ GateNode[gate] \in Nodes \ {"cycle"}
        /\ CycleCost[gate] \in Int
    BY <2>1, Distances
  <2>3. Distance[ReworkNode[gate]] \in Int /\ Distance[GateNode[gate]] \in Int
    BY <2>2, Distances
  <2>4. /\ FromNode(node', gate') = Distance[ReworkNode[gate]]
        /\ FromNode(node, gate) = Distance[GateNode[gate]] - 1
    BY <2>1, <2>2 DEF FromNode
  <2>5. FromNode(node', gate') < FromNode(node, gate) + CycleCost[gate]
    BY <2>2, <2>3, <2>4
  <2> QED
    BY <1>1, <2>1, <2>5, NearerByCycle
<1>8. CASE EscalateNode \/ HumanReviewRejected \/ Finish("delivered") \/ Finish("cancelled")
  <2>1. FromNode(node', gate') < FromNode(node, gate) /\ UNCHANGED cycles
    BY <1>8 DEF EscalateNode, HumanReviewRejected, Finish, FromNode, Distance
  <2> QED
    BY <1>1, <2>1, NearerByNode
<1> QED
  BY <1>2, <1>4, <1>5, <1>6, <1>7, <1>8 DEF GraphStep

\* Between two approvals of human review, or invocations, the graph takes a bounded
\* number of supersteps: there are at most 18 + 44 * MaxCycles to go, and every superstep
\* leaves fewer.
THEOREM AutomaticPartEnds == Spec => []Bounded /\ [][Nears]_vars
<1>1. IInv => Bounded
  BY StepsTyped DEF IInv
<1>2. IInv /\ IInv' /\ [Next]_vars => [Nears]_vars
  BY StepNears DEF Nears
<1>3. Spec => []Bounded
  BY <1>1, Invariance, PTL
<1>4. Spec => [][Nears]_vars
  BY <1>2, Invariance, PTL DEF Spec
<1> QED
  BY <1>3, <1>4

-----------------------------------------------------------------------------
(* The recursion limit of an invocation. *)

\* What a run that has not escalated has taken of its supersteps.
WithinLimit ==
    /\ supersteps \in Nat
    /\ escalatedGate = "none" => supersteps + StepsToGo <= MostSteps /\ ~raised
    /\ node \in {"human_review", "cancelled"} => escalatedGate # "none"

LEMMA InvocationIInv ==
    IInv /\ [InvocationNext]_invocationVars => IInv'
<1> SUFFICES ASSUME IInv, [InvocationNext]_invocationVars PROVE IInv'
  OBVIOUS
<1>1. CASE Superstep \/ Retry
  <2>1. Next
    BY <1>1 DEF Superstep, Retry, Next
  <2> QED
    BY <2>1, NextIInv
<1>2. CASE OutOfSteps \/ UNCHANGED invocationVars
  <2>1. UNCHANGED vars
    BY <1>2 DEF OutOfSteps, invocationVars
  <2> QED
    BY <2>1, NextIInv
<1>3. CASE Resume
  <2>1. /\ reinvokes' = reinvokes + 1 /\ reinvokes < MaxReinvokes
        /\ UNCHANGED <<node, gate, cycles, escalatedGate, humanReviewRequired, currentStage,
                       accepted, rejections>>
    BY <1>3 DEF Resume
  <2>2. reinvokes' \in 0 .. MaxReinvokes /\ reinvokes' # 0
    BY <2>1, MaxReinvokesAssumption DEF IInv, TypeOK
  <2>3. TypeOK'
    BY <2>1, <2>2 DEF IInv, TypeOK
  <2>4. CycleLeft' /\ EscalationUnderWay' /\ GatesPassedInOrder'
    BY <2>1 DEF IInv, CycleLeft, EscalationUnderWay, GatesPassedInOrder, Passed
  <2>5. CountersMatch'
    BY <2>1, <2>2 DEF IInv, CountersMatch, Pending
  <2> QED
    BY <2>3, <2>4, <2>5 DEF IInv
<1> QED
  BY <1>1, <1>2, <1>3 DEF InvocationNext

LEMMA InvocationInvariance == InvocationSpec => []IInv
<1>1. InvocationInit => IInv
  BY InitIInv DEF InvocationInit
<1> QED
  BY <1>1, InvocationIInv, PTL DEF InvocationSpec

\* Human review is reached through an escalation, and "cancelled" through its refusal.
LEMMA LeavesWork ==
    ASSUME IInv, GraphStep, node' \in {"human_review", "cancelled"}
    PROVE  EscalateNode \/ HumanReviewRejected
<1>1. \A n \in WorkStages : ~Stage(n)
  BY StageReaches DEF Stage, Reaches, Aside
<1>2. \A g \in Gates, approved \in BOOLEAN : ~Route(g, approved)
  BY ApprovalReaches DEF Route, Reaches, Aside
<1>3. \A g \in AgentGates, answers \in SUBSET AgentAnswers : ~AgentGate(g, answers)
  BY <1>2 DEF AgentGate, AgentGates
<1>4. \A g \in HumanGates, decision \in Decisions : ~ApprovalGate(g, decision)
  BY <1>2 DEF ApprovalGate, HumanGates, Gates
<1>5. \A g \in Gates : node' # ReworkNode[g]
  BY ReworkReaches DEF Reaches, Aside
<1>6. ~CycleNode /\ \A decision \in Decisions : ~IntakeClarification(decision)
  BY <1>5 DEF CycleNode, IntakeClarification, IInv, TypeOK, Gates
<1>7. ~HumanReviewApproved
  <2> SUFFICES ASSUME HumanReviewApproved PROVE FALSE
    OBVIOUS
  <2>1. gate \in Gates /\ escalatedGate = gate
    BY DEF HumanReviewApproved, IInv, TypeOK, EscalationUnderWay
  <2> QED
    BY <2>1, ApprovalReaches DEF HumanReviewApproved, ResumeNode, Reaches, Aside
<1>8. ~Finish("delivered") /\ ~Finish("cancelled")
  BY DEF Finish
<1> QED
  BY <1>1, <1>3, <1>4, <1>6, <1>7, <1>8 DEF GraphStep

LEMMA WithinLimitNext ==
    ASSUME RecursionLimit \in Int, RecursionLimit >= 16 + 44 * MaxCycles,
           IInv, IInv', WithinLimit, [InvocationNext]_invocationVars
    PROVE  WithinLimit'
<1>1. TypeOK /\ TypeOK' /\ MaxCycles \in Int /\ StepsToGo \in Int /\ supersteps \in Int
  BY StepsTyped, MaxCyclesAssumption DEF IInv, WithinLimit
<1>2. CASE Superstep
  <2>1. GraphStep /\ supersteps' = supersteps + 1 /\ raised' = raised
    BY <1>2 DEF Superstep
  <2>2. escalatedGate' = "none" => escalatedGate = "none" /\ ~HumanReviewApproved
    <3>1. escalatedGate' \in {escalatedGate, gate}
      BY <2>1 DEF GraphStep, Stage, AgentGate, ApprovalGate, IntakeClarification, CycleNode,
                  EscalateNode, HumanReviewApproved, HumanReviewRejected, Finish
    <3>2. EscalateNode => escalatedGate' \in Gates
      BY <1>1 DEF EscalateNode, TypeOK
    <3>3. ~EscalateNode => escalatedGate' = escalatedGate
      BY <2>1 DEF GraphStep, Stage, AgentGate, ApprovalGate, IntakeClarification, CycleNode,
                  HumanReviewApproved, HumanReviewRejected, Finish
    <3> QED
      BY <3>2, <3>3 DEF Gates, HumanReviewApproved, WithinLimit
  <2>3. StepsToGo' \in Int
    BY <1>1, StepsTypedNext, MaxCyclesAssumption DEF StepsToGo
  <2>4. escalatedGate' = "none" => supersteps' + StepsToGo' <= MostSteps
    <3> SUFFICES ASSUME escalatedGate' = "none" PROVE supersteps' + StepsToGo' <= MostSteps
      OBVIOUS
    <3>1. supersteps + StepsToGo <= MostSteps
      BY <2>2 DEF WithinLimit
    <3>2. StepsToGo' < StepsToGo
      BY <2>1, <2>2, StepNears
    <3>3. MostSteps \in Int
      BY <1>1 DEF MostSteps
    <3>4. \A s, x, y, m \in Int : s + x <= m /\ y < x => (s + 1) + y <= m
      OBVIOUS
    <3>5. (supersteps + 1) + StepsToGo' <= MostSteps
      BY <1>1, <2>3, <3>1, <3>2, <3>3, <3>4, Zenon
    <3> QED
      BY <2>1, <3>5, Zenon
  <2>5. node' \in {"human_review", "cancelled"} => escalatedGate' # "none"
    <3>1. EscalateNode => escalatedGate' # "none"
      BY <1>1 DEF EscalateNode, TypeOK, Gates
    <3>2. HumanReviewRejected => escalatedGate' # "none"
      BY DEF HumanReviewRejected, WithinLimit
    <3>3. node' \in {"human_review", "cancelled"} => EscalateNode \/ HumanReviewRejected
      BY <1>1, <2>1, LeavesWork
    <3> QED
      BY <3>1, <3>2, <3>3
  <2> QED
    BY <1>1, <2>1, <2>2, <2>4, <2>5 DEF WithinLimit
<1>3. CASE OutOfSteps
  <2>1. /\ supersteps = RecursionLimit /\ node # "end" /\ UNCHANGED <<vars, supersteps>>
    BY <1>3 DEF OutOfSteps
  <2>2. escalatedGate # "none"
    <3> SUFFICES ASSUME escalatedGate = "none" PROVE FALSE
      OBVIOUS
    <3>1. node \notin {"human_review", "cancelled", "end"}
      BY <2>1 DEF WithinLimit
    <3>2. FromNode(node, gate) >= 3
      BY <1>1, <3>1, AtWork
    <3>3. /\ Spent(cycles) \in Int /\ Spent(cycles) <= 44 * MaxCycles
          /\ FromNode(node, gate) \in Int
      BY <1>1, StepsTyped, SpentTyped
    <3>4. StepsToGo >= 3
      BY <1>1, <3>2, <3>3 DEF StepsToGo
    <3> QED
      BY <1>1, <2>1, <3>4 DEF WithinLimit, MostSteps
  <2>3. StepsToGo' = StepsToGo
    BY <2>1 DEF vars, StepsToGo, FromNode, Spent, SpentBefore, SpentDeveloping, SpentReleasing
  <2> QED
    BY <2>1, <2>2 DEF WithinLimit, vars
<1>4. CASE Retry \/ Resume
  <2>1. supersteps' = 0 /\ ~raised' /\ escalatedGate' = escalatedGate
    BY <1>4 DEF Retry, Resume, RetryFromTriage
  <2>2. node' = "triage" \/ node' = node
    BY <1>4 DEF Retry, Resume, RetryFromTriage
  <2>3. StepsToGo' \in Int /\ StepsToGo' <= MostSteps
    <3>1. (TypeOK => Bounded)' 
      BY StepsTyped, PTL
    <3> QED
      BY <1>1, <3>1 DEF Bounded, MostSteps
  <2>4. 0 + StepsToGo' <= MostSteps
    <3>1. \A x \in Int : 0 + x = x
      OBVIOUS
    <3> QED
      BY <2>3, <3>1, Zenon
  <2> QED
    BY <2>1, <2>2, <2>4 DEF WithinLimit
<1>5. CASE UNCHANGED invocationVars
  BY <1>5 DEF invocationVars, vars, WithinLimit, StepsToGo
<1> QED
  BY <1>2, <1>3, <1>4, <1>5 DEF InvocationNext

\* A recursion limit of 16 + 44 * MaxCycles supersteps lets every gate use all its cycles:
\* no run is stopped by LangGraph that has not been escalated to a person before.
THEOREM SufficientLimit ==
    ASSUME RecursionLimit \in Int, RecursionLimit >= 16 + 44 * MaxCycles
    PROVE  InvocationSpec => []CyclesEndBeforeTheLimit
<1>1. InvocationInit => WithinLimit
  <2> SUFFICES ASSUME InvocationInit PROVE WithinLimit
    OBVIOUS
  <2>1. TypeOK /\ MaxCycles \in Int
    BY InitIInv, MaxCyclesAssumption DEF InvocationInit, IInv
  <2>2. StepsToGo \in Int /\ StepsToGo <= MostSteps
    BY <2>1, StepsTyped DEF Bounded, MostSteps
  <2>3. 0 + StepsToGo <= MostSteps
    BY <2>1, <2>2 DEF MostSteps
  <2> QED
    BY <2>3 DEF InvocationInit, Init, WithinLimit
<1>2. IInv /\ IInv' /\ WithinLimit /\ [InvocationNext]_invocationVars => WithinLimit'
  BY WithinLimitNext
<1>3. WithinLimit => CyclesEndBeforeTheLimit
  BY DEF WithinLimit, CyclesEndBeforeTheLimit
<1> QED
  BY <1>1, <1>2, <1>3, InvocationInvariance, PTL DEF InvocationSpec

\* Also a run that the recursion limit stops, and that is then retried from triage or
\* resumed from its checkpoint, keeps the order of the gates and their cycles.
THEOREM OrderUnderLimit == InvocationSpec => [](GatesPassedInOrder /\ RejectionBudget)
<1>1. IInv => GatesPassedInOrder /\ RejectionBudget
  BY MaxCyclesAssumption DEF IInv, TypeOK, CountersMatch, Pending, RejectionBudget
<1> QED
  BY <1>1, InvocationInvariance, PTL
=============================================================================
