-------------------------- MODULE ApprovalGateProofs --------------------------
(* Theorems about ApprovalGate, for any persons and bounds. *)
EXTENDS ApprovalGate, SequenceTheorems, TLAPS

Asked   == {"polling", "asking", "deciding", "returning"}
Heard   == {"asking", "deciding", "returning"}
Telling == {"deciding", "returning"}

\* The node that waits or has waited knows its approval, the newest one.
NodeKnowsRow ==
    /\ pc \notin Asked => row = 0
    /\ pc \in Asked => row = Newest /\ row \in Created
    /\ pc \in Heard => heard \in Verdicts
    /\ pc \notin Telling => told = Nobody

\* A row is decided when somebody has decided it, and unless two have at a time
\* its rationale is that person's.
RowsAgree ==
    \A r \in Created :
        /\ approvals[r].status = "REQUESTED" <=> approvals[r].decidedBy = Nobody
        /\ r \notin contested => approvals[r].rationale \in {Nobody, approvals[r].decidedBy}

\* Who alone decides an approval still finds it undecided at the commit.
CallsAlone ==
    \A c \in Calls : calls[c] # Idle =>
        /\ calls[c].row \in Created
        /\ calls[c].rationale \in {Nobody, c}
        /\ calls[c].row \notin contested =>
              /\ approvals[calls[c].row].status = "REQUESTED"
              /\ \A d \in Calls : calls[d].row = calls[c].row => d = c

\* What the node has read is of the person whose decision it has heard.
ToldByDecider ==
    pc \in Telling /\ row \notin contested =>
        told \in {Nobody, approvals[row].decidedBy}

IInv ==
    /\ TypeOK
    /\ NodeKnowsRow
    /\ RowsAgree
    /\ CallsAlone
    /\ ToldByDecider
    /\ ActsOnOwnDecision
    /\ RecordsAgree
    /\ NotesAreAnswers

USE NobodyAssumption, BoundsAssumption

-----------------------------------------------------------------------------
(* The places of a sequence of approvals. *)

LEMMA Places ==
    ASSUME TypeOK
    PROVE  /\ Newest \in Nat
           /\ Created = 1 .. Newest
           /\ Created \subseteq Rows
           /\ \A r \in Created : approvals[r] \in Approvals
<1>1. approvals \in Seq(Approvals) /\ Newest <= MaxApprovals
  BY DEF TypeOK
<1>2. Len(approvals) \in Nat /\ DOMAIN approvals = 1 .. Len(approvals)
  BY <1>1, LenProperties
<1>3. \A r \in 1 .. Len(approvals) : approvals[r] \in Approvals
  BY <1>1, ElementOfSeq
<1> QED
  BY <1>1, <1>2, <1>3 DEF Newest, Created, Rows

\* A new approval is requested, and the others stay as they are.
LEMMA Requesting ==
    ASSUME TypeOK, Newest < MaxApprovals, approvals' = Append(approvals, Requested)
    PROVE  /\ approvals' \in Seq(Approvals)
           /\ Newest' = Newest + 1 /\ Newest' <= MaxApprovals
           /\ Created' = Created \cup {Newest'} /\ Newest' \notin Created
           /\ approvals'[Newest'] = Requested
           /\ \A r \in Created : approvals'[r] = approvals[r]
<1>1. Requested \in Approvals
  BY DEF Requested, Approvals
<1>2. approvals \in Seq(Approvals)
  BY DEF TypeOK
<1>3. /\ approvals' \in Seq(Approvals)
      /\ Len(approvals') = Len(approvals) + 1
      /\ \A r \in 1 .. Len(approvals) : approvals'[r] = approvals[r]
      /\ approvals'[Len(approvals) + 1] = Requested
  BY <1>1, <1>2, AppendProperties
<1>4. Created = 1 .. Newest /\ Newest \in Nat
  BY Places
<1>5. Created' = 1 .. Newest'
  BY <1>3, LenProperties DEF Created, Newest
<1>6. Newest' = Newest + 1
  BY <1>3 DEF Newest
<1>7. Created' = Created \cup {Newest'} /\ Newest' \notin Created /\ Newest' <= MaxApprovals
  BY <1>4, <1>5, <1>6
<1> QED
  BY <1>3, <1>4, <1>6, <1>7 DEF Newest

\* A commit changes the approval of its call and no other.
LEMMA Committing ==
    ASSUME TypeOK, CallsAlone, NEW c \in Calls, CommitDecision(c)
    PROVE  /\ calls[c] \in Writes /\ calls[c].row \in Created
           /\ approvals' \in Seq(Approvals) /\ Newest' = Newest /\ Created' = Created
           /\ approvals'[calls[c].row].status = calls[c].verdict
           /\ approvals'[calls[c].row].decidedBy = c
           /\ approvals'[calls[c].row].rationale =
                 (IF calls[c].rationale = Nobody THEN approvals[calls[c].row].rationale
                                                 ELSE calls[c].rationale)
           /\ \A r \in Created : r # calls[c].row => approvals'[r] = approvals[r]
<1> DEFINE r == calls[c].row
           new == [status    |-> calls[c].verdict,
                   decidedBy |-> c,
                   rationale |-> IF calls[c].rationale = Nobody
                                 THEN approvals[r].rationale ELSE calls[c].rationale]
<1>1. calls[c] \in Writes /\ calls[c] # Idle
  BY DEF TypeOK, CommitDecision
<1>2. r \in Created
  BY <1>1 DEF CallsAlone
<1>3. approvals[r] \in Approvals
  BY <1>2, Places
<1>4. new \in Approvals
  BY <1>1, <1>3 DEF Writes, Approvals
<1>5. approvals' = [approvals EXCEPT ![r] = new]
  BY DEF CommitDecision
<1>6. approvals \in Seq(Approvals)
  BY DEF TypeOK
<1>7. r \in 1 .. Len(approvals)
  BY <1>2, Places DEF Newest
<1> HIDE DEF new
<1>8. /\ approvals' \in Seq(Approvals)
      /\ Len(approvals') = Len(approvals)
      /\ \A q \in 1 .. Len(approvals) : approvals'[q] = IF q = r THEN new ELSE approvals[q]
  BY <1>4, <1>5, <1>6, <1>7, ExceptSeq
<1>9. Newest' = Newest /\ Created' = Created
  BY <1>6, <1>8, LenProperties DEF Newest, Created
<1>10. approvals'[r] = new
  BY <1>7, <1>8
<1>11. \A q \in Created : q # r => approvals'[q] = approvals[q]
  BY <1>8, Places DEF Newest
<1> QED
  BY <1>1, <1>2, <1>8, <1>9, <1>10, <1>11 DEF new

-----------------------------------------------------------------------------

LEMMA InitIInv == Init => IInv
<1> SUFFICES ASSUME Init PROVE IInv
  OBVIOUS
<1>1. Created = {} /\ Newest = 0
  BY EmptySeq, LenProperties DEF Init, Created, Newest
<1>2. approvals \in Seq(Approvals) /\ Newest <= MaxApprovals
  BY <1>1, EmptySeq DEF Init
<1>3. TypeOK
  <2>1. calls \in [Calls -> Writes \cup {Idle}] /\ interrupts \in 0 .. MaxInterrupts
    BY DEF Init
  <2> QED
    BY <1>1, <1>2, <2>1 DEF Init, TypeOK
<1>4. NodeKnowsRow /\ ToldByDecider /\ ActsOnOwnDecision
  BY DEF Init, NodeKnowsRow, ToldByDecider, ActsOnOwnDecision, Asked, Heard, Telling
<1>5. RowsAgree /\ CallsAlone /\ RecordsAgree /\ NotesAreAnswers
  BY <1>1 DEF Init, RowsAgree, CallsAlone, RecordsAgree, NotesAreAnswers
<1> QED
  BY <1>3, <1>4, <1>5 DEF IInv

LEMMA CreateStep ==
    ASSUME IInv, CreateApproval
    PROVE  IInv'
<1>1. TypeOK
  BY DEF IInv
<1>2. /\ approvals' \in Seq(Approvals)
      /\ Newest' = Newest + 1 /\ Newest' <= MaxApprovals
      /\ Created' = Created \cup {Newest'} /\ Newest' \notin Created
      /\ approvals'[Newest'] = Requested
      /\ \A r \in Created : approvals'[r] = approvals[r]
  BY <1>1, Requesting DEF CreateApproval
<1>3. TypeOK'
  BY <1>1, <1>2 DEF TypeOK, CreateApproval
<1>4. NodeKnowsRow'
  BY <1>2 DEF IInv, NodeKnowsRow, CreateApproval, Asked, Heard, Telling
<1>5. RowsAgree'
  <2>1. /\ approvals'[Newest'].status = "REQUESTED"
        /\ approvals'[Newest'].decidedBy = Nobody
        /\ approvals'[Newest'].rationale = Nobody
    BY <1>2 DEF Requested
  <2>2. contested' = contested
    BY DEF CreateApproval
  <2>3. \A r \in Created' : r = Newest' \/ (r \in Created /\ approvals'[r] = approvals[r])
    BY <1>2
  <2> QED
    BY <2>1, <2>2, <2>3 DEF IInv, RowsAgree
<1>6. CallsAlone'
  BY <1>2 DEF IInv, CallsAlone, CreateApproval
<1>7. ToldByDecider' /\ ActsOnOwnDecision'
  BY DEF CreateApproval, ToldByDecider, ActsOnOwnDecision, Telling
<1>8. RecordsAgree' /\ NotesAreAnswers'
  BY <1>1, <1>2 DEF IInv, TypeOK, RecordsAgree, NotesAreAnswers, CreateApproval
<1> QED
  BY <1>3, <1>4, <1>5, <1>6, <1>7, <1>8 DEF IInv

\* The other steps of the node read the approvals and write none.
LEMMA HearStep ==
    ASSUME IInv, Poll \/ ReadRationale
    PROVE  IInv'
<1>1. /\ pc' \in Heard /\ pc \in Asked /\ row \in Created /\ row = Newest
      /\ heard' = (IF pc = "polling" THEN approvals[row].status ELSE heard)
      /\ told' = (IF pc = "asking" THEN approvals[row].rationale ELSE told)
      /\ UNCHANGED <<approvals, clarifying, row, calls, decisions, notes, interrupts,
                     contested>>
  BY DEF IInv, NodeKnowsRow, Poll, ReadRationale, Asked, Heard
<1>2. Created' = Created /\ Newest' = Newest
  BY <1>1 DEF Created, Newest
<1>3. approvals[row] \in Approvals
  BY <1>1, Places DEF IInv
<1>4. heard' \in Verdicts /\ told' \in Calls \cup {Nobody}
  <2>1. CASE Poll
    BY <1>1, <1>3, <2>1 DEF IInv, TypeOK, Poll, Approvals, Verdicts
  <2>2. CASE ReadRationale
    BY <1>1, <1>3, <2>2 DEF IInv, TypeOK, NodeKnowsRow, ReadRationale, Approvals, Heard
  <2> QED
    BY <2>1, <2>2
<1>5. TypeOK'
  BY <1>1, <1>2, <1>4 DEF IInv, TypeOK, Heard
<1>6. NodeKnowsRow'
  <2>1. pc' \notin Telling => told' = Nobody
    BY DEF IInv, NodeKnowsRow, Poll, ReadRationale, Telling
  <2> QED
    BY <1>1, <1>2, <1>4, <2>1 DEF NodeKnowsRow, Heard, Asked
<1>7. ActsOnOwnDecision'
  <2>1. approvals[row].decidedBy # Nobody
    BY <1>1 DEF IInv, RowsAgree, ActsOnOwnDecision, Poll, ReadRationale
  <2>2. row \notin contested => heard' = approvals[row].status
    BY <1>1 DEF IInv, ActsOnOwnDecision, Poll, ReadRationale
  <2> QED
    BY <1>1, <1>2, <2>1, <2>2 DEF ActsOnOwnDecision
<1>8. ToldByDecider'
  <2>1. row \notin contested => approvals[row].rationale \in {Nobody, approvals[row].decidedBy}
    BY <1>1 DEF IInv, RowsAgree
  <2> QED
    BY <1>1, <2>1 DEF IInv, NodeKnowsRow, ToldByDecider, Poll, ReadRationale, Telling
<1>9. RowsAgree' /\ CallsAlone' /\ RecordsAgree' /\ NotesAreAnswers'
  BY <1>1, <1>2 DEF IInv, RowsAgree, CallsAlone, RecordsAgree, NotesAreAnswers
<1> QED
  BY <1>5, <1>6, <1>7, <1>8, <1>9 DEF IInv

LEMMA RecordStep ==
    ASSUME IInv, RecordDecision
    PROVE  IInv'
<1>1. /\ pc = "deciding" /\ pc' = "returning" /\ row \in Created
      /\ heard \in Verdicts /\ told \in Calls \cup {Nobody}
      /\ UNCHANGED <<approvals, clarifying, row, heard, told, calls, notes, interrupts,
                     contested>>
  BY DEF IInv, TypeOK, NodeKnowsRow, RecordDecision, Asked, Heard
<1>2. Created' = Created /\ Newest' = Newest
  BY <1>1 DEF Created, Newest
<1>3. TypeOK'
  BY <1>1, <1>2 DEF IInv, TypeOK, RecordDecision
<1>4. NodeKnowsRow' /\ ToldByDecider' /\ ActsOnOwnDecision'
  BY <1>1, <1>2 DEF IInv, NodeKnowsRow, ToldByDecider, ActsOnOwnDecision, Asked, Heard,
                    Telling
<1>5. RecordsAgree'
  <2>1. row \notin contested => /\ heard = approvals[row].status
                                /\ told \in {Nobody, approvals[row].decidedBy}
    BY <1>1 DEF IInv, ActsOnOwnDecision, ToldByDecider, Telling
  <2> QED
    BY <1>1, <2>1 DEF IInv, RecordsAgree, RecordDecision
<1>6. RowsAgree' /\ CallsAlone' /\ NotesAreAnswers'
  BY <1>1, <1>2 DEF IInv, RowsAgree, CallsAlone, NotesAreAnswers
<1> QED
  BY <1>3, <1>4, <1>5, <1>6 DEF IInv

\* The node returns, is interrupted or entered: it forgets its approval.
LEMMA ForgetStep ==
    ASSUME IInv, Return \/ Interrupt \/ \E clarification \in BOOLEAN : EnterNode(clarification)
    PROVE  IInv'
<1>1. /\ pc' \in {"between", "entered"} /\ clarifying' \in BOOLEAN
      /\ row' = 0 /\ heard' \in {"none"} \cup Verdicts /\ told' = Nobody
      /\ UNCHANGED <<approvals, calls, decisions, contested>>
  BY DEF IInv, TypeOK, NodeKnowsRow, Return, Interrupt, EnterNode, Forget, Asked, Telling
<1>2. Created' = Created /\ Newest' = Newest
  BY <1>1 DEF Created, Newest
<1>3. \/ notes' = notes
      \/ /\ pc = "returning" /\ heard # "REJECTED" /\ told # Nobody
         /\ notes' = notes \cup {[row |-> row, text |-> told]}
  BY DEF Return, Interrupt, EnterNode
<1>4. interrupts' \in 0 .. MaxInterrupts
  BY DEF IInv, TypeOK, Return, Interrupt, EnterNode
<1>5. pc = "returning" => row \in Created /\ told \in Calls \cup {Nobody}
  BY DEF IInv, TypeOK, NodeKnowsRow, Asked
<1>6. notes' \subseteq [row : Created, text : Calls]
  BY <1>3, <1>5 DEF IInv, TypeOK
<1>7. TypeOK'
  BY <1>1, <1>2, <1>4, <1>6 DEF IInv, TypeOK
<1>8. NodeKnowsRow' /\ ToldByDecider' /\ ActsOnOwnDecision'
  BY <1>1 DEF NodeKnowsRow, ToldByDecider, ActsOnOwnDecision, Asked, Heard, Telling
<1>9. NotesAreAnswers'
  <2>1. pc = "returning" /\ heard # "REJECTED" /\ told # Nobody /\ row \notin contested =>
           approvals[row].status = "APPROVED" /\ approvals[row].decidedBy = told
    BY DEF IInv, NodeKnowsRow, ActsOnOwnDecision, ToldByDecider, Verdicts, Heard, Telling
  <2> QED
    BY <1>1, <1>3, <2>1 DEF IInv, NotesAreAnswers
<1>10. RowsAgree' /\ CallsAlone' /\ RecordsAgree'
  BY <1>1, <1>2 DEF IInv, RowsAgree, CallsAlone, RecordsAgree
<1> QED
  BY <1>7, <1>8, <1>9, <1>10 DEF IInv

LEMMA ReadStep ==
    ASSUME IInv, NEW c \in Calls, NEW w \in Writes, ReadApproval(c, w)
    PROVE  IInv'
<1>1. /\ w.row \in Created /\ approvals[w.row].status = "REQUESTED"
      /\ calls' = [calls EXCEPT ![c] = w] /\ calls[c] = Idle
      /\ w.rationale \in {c, Nobody}
      /\ contested' = IF Deciding(w.row) # {} THEN contested \cup {w.row} ELSE contested
      /\ UNCHANGED <<approvals, pc, clarifying, row, heard, told, decisions, notes,
                     interrupts>>
  BY DEF ReadApproval, nodeVars
<1>2. Created' = Created /\ Newest' = Newest
  BY <1>1 DEF Created, Newest
<1>3. contested \subseteq contested' /\ contested' \subseteq Created
  BY <1>1 DEF IInv, TypeOK
<1>4. calls' \in [Calls -> Writes \cup {Idle}]
  BY <1>1 DEF IInv, TypeOK
<1>5. TypeOK'
  BY <1>1, <1>2, <1>3, <1>4 DEF IInv, TypeOK
<1>6. CallsAlone'
  <2> SUFFICES ASSUME NEW d \in Calls, calls'[d] # Idle
               PROVE  /\ calls'[d].row \in Created
                      /\ calls'[d].rationale \in {Nobody, d}
                      /\ calls'[d].row \notin contested' =>
                           /\ approvals[calls'[d].row].status = "REQUESTED"
                           /\ \A e \in Calls : calls'[e].row = calls'[d].row => e = d
    BY <1>1, <1>2 DEF CallsAlone
  <2>1. calls'[c] = w /\ \A e \in Calls : e # c => calls'[e] = calls[e]
    BY <1>1 DEF IInv, TypeOK
  <2>2. w.row \notin contested' => \A e \in Calls : calls[e].row # w.row
    BY <1>1 DEF Deciding
  <2>3. CASE d = c
    BY <1>1, <2>1, <2>2, <2>3
  <2>4. CASE d # c
    BY <1>3, <2>1, <2>2, <2>4 DEF IInv, CallsAlone
  <2> QED
    BY <2>3, <2>4
<1>7. NodeKnowsRow'
  BY <1>1, <1>2 DEF IInv, NodeKnowsRow
<1>8. RowsAgree' /\ ToldByDecider' /\ ActsOnOwnDecision'
  BY <1>1, <1>2, <1>3 DEF IInv, RowsAgree, ToldByDecider, ActsOnOwnDecision
<1>9. RecordsAgree' /\ NotesAreAnswers'
  BY <1>1, <1>3 DEF IInv, RecordsAgree, NotesAreAnswers
<1> QED
  BY <1>5, <1>6, <1>7, <1>8, <1>9 DEF IInv

\* An approval that nobody else is deciding is decided once, before the node and
\* the records look at it.
LEMMA CommitStep ==
    ASSUME IInv, NEW c \in Calls, CommitDecision(c)
    PROVE  IInv'
<1> DEFINE r == calls[c].row
<1>1. TypeOK /\ CallsAlone
  BY DEF IInv
<1>2. /\ calls[c] \in Writes /\ calls[c] # Idle /\ r \in Created
      /\ approvals' \in Seq(Approvals) /\ Newest' = Newest /\ Created' = Created
      /\ approvals'[r].status = calls[c].verdict
      /\ approvals'[r].decidedBy = c
      /\ approvals'[r].rationale = (IF calls[c].rationale = Nobody
                                    THEN approvals[r].rationale ELSE calls[c].rationale)
      /\ \A q \in Created : q # r => approvals'[q] = approvals[q]
  BY <1>1, Committing DEF CommitDecision
<1>3. /\ calls' = [calls EXCEPT ![c] = Idle]
      /\ UNCHANGED <<pc, clarifying, row, heard, told, decisions, notes, interrupts,
                     contested>>
  BY DEF CommitDecision, nodeVars
<1>4. r \notin contested => /\ approvals[r].status = "REQUESTED"
                            /\ approvals[r].decidedBy = Nobody
                            /\ approvals[r].rationale = Nobody
                            /\ \A d \in Calls : calls[d].row = r => d = c
  BY <1>2 DEF IInv, CallsAlone, RowsAgree
<1>5. TypeOK'
  <2>1. calls' \in [Calls -> Writes \cup {Idle}]
    BY <1>3 DEF IInv, TypeOK
  <2> QED
    BY <1>2, <1>3, <2>1 DEF IInv, TypeOK
<1>6. NodeKnowsRow'
  BY <1>2, <1>3 DEF IInv, NodeKnowsRow
<1>7. RowsAgree'
  <2>1. calls[c].verdict # "REQUESTED" /\ calls[c].rationale \in {Nobody, c}
    BY <1>2 DEF IInv, CallsAlone, Writes, Verdicts
  <2>2. c # Nobody
    OBVIOUS
  <2> QED
    BY <1>2, <1>3, <1>4, <2>1, <2>2 DEF IInv, RowsAgree
<1>8. CallsAlone'
  <2>1. calls'[c] = Idle /\ \A d \in Calls : d # c => calls'[d] = calls[d]
    BY <1>3 DEF IInv, TypeOK
  <2>2. r # 0
    BY <1>2 DEF Writes, Rows
  <2>3. \A d \in Calls : calls'[d] # Idle => d # c /\ calls[d] # Idle /\ calls'[d] = calls[d]
    BY <2>1
  <2>4. \A d, e \in Calls : calls'[d] # Idle /\ calls'[e].row = calls'[d].row /\ e # c =>
           calls[e].row = calls[d].row
    BY <2>1, <2>3
  <2>5. \A d \in Calls : calls'[d] # Idle => calls'[d].row # 0
    BY <2>3 DEF IInv, TypeOK, Writes, Rows
  <2>6. calls'[c].row = 0
    BY <2>1 DEF Idle
  <2> QED
    BY <1>2, <1>3, <1>4, <2>1, <2>3, <2>4, <2>5, <2>6 DEF IInv, CallsAlone
<1>9. pc \in Heard /\ row \notin contested => row # r
  BY <1>4 DEF IInv, ActsOnOwnDecision, Heard
<1>10. ToldByDecider' /\ ActsOnOwnDecision'
  <2>1. pc \in Heard => row \in Created
    BY DEF IInv, NodeKnowsRow, Asked, Heard
  <2>2. c # Nobody
    OBVIOUS
  <2> QED
    BY <1>2, <1>3, <1>9, <2>1, <2>2 DEF IInv, ToldByDecider, ActsOnOwnDecision, Heard,
                                        Telling
<1>11. RecordsAgree'
  <2>1. \A d \in decisions : d.row \in Created /\ d.option \in Verdicts
    BY DEF IInv, TypeOK
  <2>2. \A d \in decisions : d.row \notin contested => d.row # r
    BY <1>4, <2>1 DEF IInv, RecordsAgree, Verdicts
  <2> QED
    BY <1>2, <1>3, <2>1, <2>2 DEF IInv, RecordsAgree
<1>12. NotesAreAnswers'
  <2>1. \A n \in notes : n.row \in Created
    BY DEF IInv, TypeOK
  <2>2. \A n \in notes : n.row \notin contested => n.row # r
    BY <1>4 DEF IInv, NotesAreAnswers
  <2> QED
    BY <1>2, <1>3, <2>1, <2>2 DEF IInv, NotesAreAnswers
<1> QED
  BY <1>5, <1>6, <1>7, <1>8, <1>10, <1>11, <1>12 DEF IInv

LEMMA RollBackStep ==
    ASSUME IInv, NEW c \in Calls, RollBack(c)
    PROVE  IInv'
<1>1. /\ calls' = [calls EXCEPT ![c] = Idle]
      /\ UNCHANGED <<approvals, pc, clarifying, row, heard, told, decisions, notes,
                     interrupts, contested>>
  BY DEF RollBack, nodeVars
<1>2. Created' = Created /\ Newest' = Newest
  BY <1>1 DEF Created, Newest
<1>3. calls' \in [Calls -> Writes \cup {Idle}]
  BY <1>1 DEF IInv, TypeOK
<1>4. TypeOK'
  BY <1>1, <1>2, <1>3 DEF IInv, TypeOK
<1>5. CallsAlone'
  <2>1. calls'[c] = Idle /\ \A d \in Calls : d # c => calls'[d] = calls[d]
    BY <1>1 DEF IInv, TypeOK
  <2>2. \A d \in Calls : calls[d] # Idle => calls[d].row # 0
    BY DEF IInv, TypeOK, Writes, Rows
  <2>3. calls'[c].row = 0
    BY <2>1 DEF Idle
  <2> QED
    BY <1>1, <1>2, <2>1, <2>2, <2>3 DEF IInv, CallsAlone
<1>6. NodeKnowsRow' /\ RowsAgree' /\ ToldByDecider' /\ ActsOnOwnDecision'
  BY <1>1, <1>2 DEF IInv, NodeKnowsRow, RowsAgree, ToldByDecider, ActsOnOwnDecision
<1>7. RecordsAgree' /\ NotesAreAnswers'
  BY <1>1 DEF IInv, RecordsAgree, NotesAreAnswers
<1> QED
  BY <1>4, <1>5, <1>6, <1>7 DEF IInv

LEMMA NextIInv == IInv /\ [Next]_vars => IInv'
<1> SUFFICES ASSUME IInv, [Next]_vars PROVE IInv'
  OBVIOUS
<1>1. CASE UNCHANGED vars
  BY <1>1 DEF vars, nodeVars, IInv, TypeOK, NodeKnowsRow, RowsAgree, CallsAlone,
              ToldByDecider, ActsOnOwnDecision, RecordsAgree, NotesAreAnswers, Created,
              Newest
<1>2. CASE Next
  BY <1>2, CreateStep, HearStep, RecordStep, ForgetStep, ReadStep, CommitStep,
     RollBackStep
  DEF Next, NodeStep
<1> QED
  BY <1>1, <1>2

LEMMA Invariance == Spec => []IInv
  BY InitIInv, NextIInv, PTL DEF Spec

-----------------------------------------------------------------------------

\* The rows, the node, the calls and the records are well formed.
THEOREM TypeCorrect == Spec => []TypeOK
  BY Invariance, PTL DEF IInv

\* After any interruptions the node goes on only with the decision about the
\* approval it asked for itself.
THEOREM OwnDecision == Spec => []ActsOnOwnDecision
  BY Invariance, PTL DEF IInv

\* The table of decisions says what the approvals say, unless two persons were
\* deciding one of them at a time.
THEOREM RecordsTrue == Spec => []RecordsAgree
  BY Invariance, PTL DEF IInv

\* What is fed into the next analysis is the answer of the person who approved.
THEOREM NotesTrue == Spec => []NotesAreAnswers
  BY Invariance, PTL DEF IInv

LEMMA FinalStep ==
    IInv /\ [Next]_vars =>
        [\A r \in Created : approvals[r].status # "REQUESTED" /\ r \notin contested =>
            approvals'[r] = approvals[r]]_vars
<1> SUFFICES ASSUME IInv, Next, NEW r \in Created,
                    approvals[r].status # "REQUESTED", r \notin contested
             PROVE  approvals'[r] = approvals[r]
  OBVIOUS
<1>1. CASE CreateApproval
  BY <1>1, Requesting DEF IInv, CreateApproval
<1>2. ASSUME NEW c \in Calls, CommitDecision(c)
      PROVE  approvals'[r] = approvals[r]
  <2>1. calls[c] # Idle
    BY <1>2 DEF CommitDecision
  <2>2. calls[c].row # r
    BY <2>1 DEF IInv, CallsAlone
  <2> QED
    BY <1>2, <2>2, Committing DEF IInv
<1>3. CASE UNCHANGED approvals
  BY <1>3
<1> QED
  BY <1>1, <1>2, <1>3 DEF Next, NodeStep, Poll, ReadRationale, RecordDecision, Return,
                          Interrupt, EnterNode, ReadApproval, RollBack

\* The check for REQUESTED makes a decision final for all who do not decide at the
\* same time.
THEOREM DecidedIsFinal == Spec => UncontestedIsFinal
<1>1. IInv /\ [Next]_vars =>
        [\A r \in Created : approvals[r].status # "REQUESTED" /\ r \notin contested =>
            approvals'[r] = approvals[r]]_vars
  BY FinalStep
<1> QED
  BY <1>1, Invariance, PTL DEF Spec, UncontestedIsFinal
=============================================================================
