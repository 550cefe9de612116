----------------------------- MODULE ApprovalGate -----------------------------
(***************************************************************************)
(* The decisions of persons: the approvals API, the rows of approvals of   *)
(* one run, and the human nodes of its graph, which create a row, poll it  *)
(* until it is decided and hand the decision to the routers.  A handler of *)
(* the API reads the row and commits later; a node that is interrupted, by *)
(* a crash or an exception, is executed from its start when the run goes   *)
(* on, and creates another row.  Decisions about the run's status are the  *)
(* subject of RunLifecycle, what the routers do with them of DeliveryGraph.*)
(***************************************************************************)
EXTENDS Naturals, Sequences

CONSTANTS
    Calls,          \* concurrent calls of approve and reject, each of a person
    MaxApprovals,   \* bounds: rows of approvals of the run
    MaxInterrupts   \* and crashes and exceptions in a human node

ASSUME CallsAssumption  == Calls # {}
ASSUME BoundsAssumption == MaxApprovals \in Nat \ {0} /\ MaxInterrupts \in Nat

Nobody == "nobody"   \* neither a rationale nor a person
ASSUME NobodyAssumption == Nobody \notin Calls

VARIABLES
    approvals,   \* the rows as they were created: status, decided_by, rationale;
                 \* a rationale is told apart by its author
    pc,          \* where the node is, "between" two human nodes
    clarifying,  \* the node is intake_clarification
    row,         \* its approval_id: the place of its approval, 0 before it has one
    heard,       \* the status its polling has returned
    told,        \* the rationale it has read
    calls,       \* call -> what it is going to write since it read the row
    decisions,   \* the rows of decisions
    notes,       \* clarification_notes, with the approval each came from
    interrupts,  \* counter of the bound
    contested    \* history: approvals that two calls were deciding at a time

nodeVars == <<pc, clarifying, row, heard, told>>
vars == <<approvals, nodeVars, calls, decisions, notes, interrupts, contested>>

Rows == 1 .. MaxApprovals
Created == DOMAIN approvals
Newest == Len(approvals)
Verdicts == {"APPROVED", "REJECTED"}
Idle == [row |-> 0, verdict |-> "none", rationale |-> Nobody]
Writes == [row : Rows, verdict : Verdicts, rationale : Calls \cup {Nobody}]
Approvals == [status : {"REQUESTED"} \cup Verdicts, decidedBy : Calls \cup {Nobody},
              rationale : Calls \cup {Nobody}]
Requested == [status |-> "REQUESTED", decidedBy |-> Nobody, rationale |-> Nobody]

Init ==
    /\ approvals = <<>>
    /\ pc = "between"
    /\ clarifying = FALSE
    /\ row = 0
    /\ heard = "none"
    /\ told = Nobody
    /\ calls = [c \in Calls |-> Idle]
    /\ decisions = {}
    /\ notes = {}
    /\ interrupts = 0
    /\ contested = {}

-----------------------------------------------------------------------------
(* The node.  intake_clarification reads the rationale as well.             *)

EnterNode(clarification) ==
    /\ pc = "between"
    /\ Newest < MaxApprovals
    /\ pc' = "entered"
    /\ clarifying' = clarification
    /\ UNCHANGED <<approvals, row, heard, told, calls, decisions, notes, interrupts,
                   contested>>

CreateApproval ==
    /\ pc = "entered"
    /\ Newest < MaxApprovals
    /\ row' = Newest + 1
    /\ approvals' = Append(approvals, Requested)
    /\ pc' = "polling"
    /\ UNCHANGED <<clarifying, heard, told, calls, decisions, notes, interrupts,
                   contested>>

\* Mutant of Poll: any status is taken for a decision.
PollAny ==
    /\ pc = "polling"
    /\ heard' = approvals[row].status
    /\ pc' = IF clarifying THEN "asking" ELSE "deciding"
    /\ UNCHANGED <<approvals, clarifying, row, told, calls, decisions, notes, interrupts,
                   contested>>

\* Mutant of Poll: an approval of the run that is decided is as good as its own.
PollEveryRow ==
    /\ pc = "polling"
    /\ \E r \in Created : /\ approvals[r].status # "REQUESTED"
                          /\ heard' = approvals[r].status
    /\ pc' = IF clarifying THEN "asking" ELSE "deciding"
    /\ UNCHANGED <<approvals, clarifying, row, told, calls, decisions, notes, interrupts,
                   contested>>

\* Mutant of Poll: only an approval ends the wait.
PollApproved ==
    /\ pc = "polling"
    /\ approvals[row].status = "APPROVED"
    /\ heard' = "APPROVED"
    /\ pc' = IF clarifying THEN "asking" ELSE "deciding"
    /\ UNCHANGED <<approvals, clarifying, row, told, calls, decisions, notes, interrupts,
                   contested>>

\* _wait_for_approval sleeps while the status is REQUESTED.
Poll ==
    /\ pc = "polling"
    /\ approvals[row].status # "REQUESTED"
    /\ heard' = approvals[row].status
    /\ pc' = IF clarifying THEN "asking" ELSE "deciding"
    /\ UNCHANGED <<approvals, clarifying, row, told, calls, decisions, notes, interrupts,
                   contested>>

ReadRationale ==
    /\ pc = "asking"
    /\ told' = approvals[row].rationale
    /\ pc' = "deciding"
    /\ UNCHANGED <<approvals, clarifying, row, heard, calls, decisions, notes,
                   interrupts, contested>>

RecordDecision ==
    /\ pc = "deciding"
    /\ decisions' = decisions \cup {[row |-> row, option |-> heard, rationale |-> told]}
    /\ pc' = "returning"
    /\ UNCHANGED <<approvals, clarifying, row, heard, told, calls, notes, interrupts,
                   contested>>

Forget == row' = 0 /\ heard' = "none" /\ told' = Nobody

\* Mutant of Return: the text of a refusal becomes a note as well.
ReturnEveryText ==
    /\ pc = "returning"
    /\ pc' = "between"
    /\ notes' = IF clarifying /\ told # Nobody
                THEN notes \cup {[row |-> row, text |-> told]} ELSE notes
    /\ Forget
    /\ UNCHANGED <<approvals, clarifying, calls, decisions, interrupts, contested>>

\* The update of the node is in the checkpoint; the next human node comes later.
Return ==
    /\ pc = "returning"
    /\ pc' = "between"
    /\ notes' = IF clarifying /\ heard # "REJECTED" /\ told # Nobody
                THEN notes \cup {[row |-> row, text |-> told]} ELSE notes
    /\ Forget
    /\ UNCHANGED <<approvals, clarifying, calls, decisions, interrupts, contested>>

\* A crash or an exception, and the resume that executes the node again or the
\* restart of the graph from its first node.
Interrupt ==
    /\ interrupts < MaxInterrupts
    /\ Newest < MaxApprovals
    /\ interrupts' = interrupts + 1
    /\ pc \notin {"between", "entered"}
    /\ pc' \in {"between", "entered"}
    /\ Forget
    /\ UNCHANGED <<approvals, clarifying, calls, decisions, notes, contested>>

-----------------------------------------------------------------------------
(* The API. *)

Deciding(r) == {c \in Calls : calls[c].row = r}

\* Mutant of ReadApproval: what is decided may be decided again.
ReadAnyApproval(c, w) ==
    /\ calls[c] = Idle
    /\ w.row \in Created
    /\ w.rationale \in {c, Nobody}
    /\ calls' = [calls EXCEPT ![c] = w]
    /\ contested' = IF Deciding(w.row) # {} THEN contested \cup {w.row} ELSE contested
    /\ UNCHANGED <<approvals, nodeVars, decisions, notes, interrupts>>

\* _decide up to its first await after the check: 409 unless REQUESTED.
ReadApproval(c, w) ==
    /\ calls[c] = Idle
    /\ w.row \in Created
    /\ approvals[w.row].status = "REQUESTED"
    /\ w.rationale \in {c, Nobody}
    /\ calls' = [calls EXCEPT ![c] = w]
    /\ contested' = IF Deciding(w.row) # {} THEN contested \cup {w.row} ELSE contested
    /\ UNCHANGED <<approvals, nodeVars, decisions, notes, interrupts>>

\* Its commit.  The UPDATE names the columns that differ from what was read: a
\* call without rationale leaves the one of another call in the row.
CommitDecision(c) ==
    /\ calls[c] # Idle
    /\ calls' = [calls EXCEPT ![c] = Idle]
    /\ approvals' = [approvals EXCEPT ![calls[c].row] =
                        [status    |-> calls[c].verdict,
                         decidedBy |-> c,
                         rationale |-> IF calls[c].rationale = Nobody
                                       THEN @.rationale ELSE calls[c].rationale]]
    /\ UNCHANGED <<nodeVars, decisions, notes, interrupts, contested>>

\* An exception before the commit, or the end of the process: a rollback.
RollBack(c) ==
    /\ calls[c] # Idle
    /\ calls' = [calls EXCEPT ![c] = Idle]
    /\ UNCHANGED <<approvals, nodeVars, decisions, notes, interrupts, contested>>

-----------------------------------------------------------------------------
NodeStep == CreateApproval \/ Poll \/ ReadRationale \/ RecordDecision \/ Return

Next ==
    \/ \E clarification \in BOOLEAN : EnterNode(clarification)
    \/ NodeStep
    \/ Interrupt
    \/ \E c \in Calls : \/ CommitDecision(c) \/ RollBack(c)
                       \/ \E w \in Writes : ReadApproval(c, w)

Spec == Init /\ [][Next]_vars

\* The node polls every five seconds.  No person is obliged to decide.
FairSpec == Spec /\ WF_vars(NodeStep)

-----------------------------------------------------------------------------
(* What the gate promises. *)

TypeOK ==
    /\ approvals \in Seq(Approvals) /\ Newest <= MaxApprovals
    /\ pc \in {"between", "entered", "polling", "asking", "deciding", "returning"}
    /\ clarifying \in BOOLEAN
    /\ row \in Created \cup {0}
    /\ heard \in {"none"} \cup Verdicts
    /\ told \in Calls \cup {Nobody}
    /\ calls \in [Calls -> Writes \cup {Idle}]
    /\ decisions \subseteq [row : Created, option : Verdicts,
                            rationale : Calls \cup {Nobody}]
    /\ notes \subseteq [row : Created, text : Calls]
    /\ interrupts \in 0 .. MaxInterrupts
    /\ contested \subseteq Created

\* What the node goes on with is the decision of a person about the approval it
\* asked for itself, never that of an earlier one an interruption has orphaned.
ActsOnOwnDecision ==
    pc \in {"asking", "deciding", "returning"} =>
        /\ row = Newest
        /\ approvals[row].decidedBy # Nobody
        /\ row \notin contested => heard = approvals[row].status

\* A decided approval is not decided again ("Aprovação já decidida",
\* approvals.py:46 of the API), as long as nobody else was deciding it.
UncontestedIsFinal ==
    [][\A r \in Created : approvals[r].status # "REQUESTED" /\ r \notin contested =>
          approvals'[r] = approvals[r]]_vars

\* The rows of decisions, also those of interrupted executions of the node, say
\* what their approvals say.
RecordsAgree ==
    \A d \in decisions : d.row \notin contested =>
        /\ d.option = approvals[d.row].status
        /\ d.rationale \in {Nobody, approvals[d.row].decidedBy}

\* What is fed into the next analysis as an answer was given by the person who
\* answered, and not with a refusal (README:83 of the repository).
NotesAreAnswers ==
    \A n \in notes : n.row \notin contested =>
        /\ approvals[n.row].status = "APPROVED"
        /\ approvals[n.row].decidedBy = n.text

\* A person's decision ends the wait, unless the node is interrupted.
DecisionIsHeard ==
    \A r \in Rows :
        (pc = "polling" /\ row = r /\ approvals[r].status # "REQUESTED")
            ~> (pc = "between" \/ row # r)
=============================================================================
