--------------------------- MODULE TaskDispatchProofs ---------------------------
(***************************************************************************)
(* Proofs about TaskDispatch, for any number of workers, attempts and      *)
(* faults.  The key in Redis is a lock that outlives its owner, and while  *)
(* no process breaks it has one until the result is there (KeyIsHeld);     *)
(* that is why a duplicate can be dropped without losing the message       *)
(* (NotLost).  Then the budget of executions, by counting what the copies  *)
(* of the message can still cause, and the refinement of                   *)
(* ExclusiveExecution.                                                     *)
(***************************************************************************)
EXTENDS TaskDispatch, FiniteSetTheorems, TLAPS

Jobs == [pc : InExecute \cup {"idle", "received", "failing", "unlocked", "republished"},
         attempt : Attempts, verdict : Verdicts \cup {"none"}, attached : BOOLEAN]

Holding == InExecute \cup {"failing"}

\* What a worker knows of the verdict of its agent.
VerdictsKnown ==
    \A w \in Workers :
      /\ At(w, "answered") => job[w].verdict \in Verdicts
      /\ job[w].pc \in {"persisted", "statused", "stored"} => job[w].verdict \in persisted
      /\ At(w, "stored") => result # "none"

\* What is in Redis, and what the call has returned, is in the database.
VerdictIsPersisted ==
    /\ result # "none" => result \in persisted
    /\ outcome \in Verdicts => outcome \in persisted

\* While nothing breaks, every delivery has its channel,
Attached == breaks = 0 => \A w \in Workers : ~At(w, "idle") => job[w].attached

\* the key in Redis has an owner until the result is there,
KeyIsHeld == breaks = 0 /\ processed => result # "none" \/ Executing # {}

\* and the message is somewhere, besides with a worker that has sent it on.
NotLost ==
    breaks = 0 /\ sent =>
      \/ result # "none"
      \/ dead > 0
      \/ \E a \in Attempts : queued[a] > 0
      \/ \E w \in Workers : job[w].pc \notin {"idle", "republished"}

IInv ==
    /\ TypeOK
    /\ OneExecution /\ VerdictIsPersisted
    /\ VerdictsKnown /\ Attached /\ KeyIsHeld /\ NotLost

-----------------------------------------------------------------------------
(* The data. *)

LEMMA Bounds ==
  /\ MaxAttempts \in Nat /\ MaxAttempts # 0 /\ MaxFaults \in Nat /\ MaxBreaks \in Nat
  /\ MaxRetries \in Nat /\ 1 \in Attempts
BY AttemptsAssumption, BoundsAssumption DEF Attempts

\* No verdict is one of the other ways in which a call ends.
LEMMA VerdictsApart ==
  /\ Verdicts \subseteq {"approved", "changes_requested", "blocked", "failed"}
  /\ Verdicts \cap {"none", "no_result", "timeout", "raised"} = {}
BY VerdictsAssumption

LEMMA IdleIsJob == Idle \in Jobs /\ Idle.pc = "idle"
BY Bounds DEF Idle, Jobs

LEMMA JobTyped ==
  ASSUME TypeOK, NEW w \in Workers
  PROVE  /\ job \in [Workers -> Jobs] /\ job[w] \in Jobs
         /\ job[w].attempt \in Attempts /\ job[w].verdict \in Verdicts \cup {"none"}
         /\ job[w].attached \in BOOLEAN
BY DEF TypeOK, Jobs

\* A step of one worker, as the place it goes to.
LEMMA GotoEffect ==
  ASSUME TypeOK, NEW w \in Workers,
         NEW pc \in InExecute \cup {"received", "failing", "unlocked", "republished"},
         Goto(w, pc)
  PROVE  /\ job' \in [Workers -> Jobs]
         /\ job'[w].pc = pc /\ job'[w].attempt = job[w].attempt
         /\ job'[w].verdict = job[w].verdict /\ job'[w].attached = job[w].attached
         /\ \A v \in Workers : v # w => job'[v] = job[v]
<1>1. job \in [Workers -> Jobs] /\ job[w] \in Jobs BY JobTyped
<1>2. job' = [job EXCEPT ![w] = [job[w] EXCEPT !.pc = pc]] BY <1>1 DEF Goto
<1>3. [job[w] EXCEPT !.pc = pc] \in Jobs BY <1>1 DEF Jobs
<1>4. job'[w] = [job[w] EXCEPT !.pc = pc] BY <1>1, <1>2
<1>5. \A v \in Workers : v # w => job'[v] = job[v] BY <1>1, <1>2
<1>6. job' \in [Workers -> Jobs] BY <1>1, <1>2, <1>3
<1>7. /\ job'[w].pc = pc /\ job'[w].attempt = job[w].attempt
      /\ job'[w].verdict = job[w].verdict /\ job'[w].attached = job[w].attached
  BY <1>1, <1>4 DEF Jobs
<1> QED BY <1>5, <1>6, <1>7

LEMMA RestEffect ==
  ASSUME TypeOK, NEW w \in Workers, Rest(w)
  PROVE  /\ job' \in [Workers -> Jobs] /\ job'[w].pc = "idle"
         /\ \A v \in Workers : v # w => job'[v] = job[v]
<1>1. job \in [Workers -> Jobs] BY JobTyped
<1> QED BY <1>1, IdleIsJob DEF Rest

\* Of the owner of the key.
LEMMA Owner ==
  ASSUME IInv, NEW w \in Workers, job[w].pc \in Holding
  PROVE  processed /\ \A v \in Workers : v # w => job[v].pc \notin Holding
BY DEF IInv, OneExecution, Executing, Holding

-----------------------------------------------------------------------------
(* Moves of one worker: what each part of the invariant asks of them. *)

Working == InExecute \cup {"received", "failing", "unlocked"}

\* The key is set by who takes it, and deleted by who has it.
LEMMA KeepsOneExecution ==
  ASSUME IInv, NEW w \in Workers, \A v \in Workers : v # w => job'[v] = job[v],
         job'[w].pc \in Holding => processed' /\ (job[w].pc \in Holding \/ ~processed),
         processed' \/ ~processed \/ job[w].pc \in Holding
  PROVE  OneExecution'
<1>1. \A v \in Workers : job[v].pc \in Holding => processed BY Owner
<1>2. ASSUME NEW v \in Workers, job'[v].pc \in Holding
      PROVE  processed' /\ \A u \in Workers : job'[u].pc \in Holding => u = v
  <2>1. CASE v = w
    <3>1. \A u \in Workers : u # w => job[u].pc \notin Holding BY <1>1, <1>2, <2>1, Owner
    <3> QED BY <1>2, <2>1, <3>1
  <2>2. CASE v # w
    <3>1. job[v].pc \in Holding BY <1>2, <2>2
    <3>2. processed /\ \A u \in Workers : u # v => job[u].pc \notin Holding BY <3>1, Owner
    <3>3. job'[w].pc \notin Holding BY <2>2, <3>2
    <3>4. processed' BY <2>2, <3>2
    <3> QED BY <2>2, <3>2, <3>3, <3>4
  <2> QED BY <2>1, <2>2
<1> QED BY <1>2 DEF OneExecution, Executing, Holding

LEMMA KeepsVerdicts ==
  ASSUME IInv, NEW w \in Workers, \A v \in Workers : v # w => job'[v] = job[v],
         persisted \subseteq persisted', result # "none" => result' # "none",
         job'[w].pc = "answered" => job'[w].verdict \in Verdicts,
         job'[w].pc \in {"persisted", "statused", "stored"} => job'[w].verdict \in persisted',
         job'[w].pc = "stored" => result' # "none"
  PROVE  VerdictsKnown'
<1> SUFFICES ASSUME NEW v \in Workers
             PROVE  /\ job'[v].pc = "answered" => job'[v].verdict \in Verdicts
                    /\ job'[v].pc \in {"persisted", "statused", "stored"} =>
                         job'[v].verdict \in persisted'
                    /\ job'[v].pc = "stored" => result' # "none"
  BY DEF VerdictsKnown, At
<1>1. CASE v = w BY <1>1
<1>2. CASE v # w BY <1>2 DEF IInv, VerdictsKnown, At
<1> QED BY <1>1, <1>2

\* While nothing breaks.
LEMMA KeepsMessage ==
  ASSUME IInv, NEW w \in Workers, \A v \in Workers : v # w => job'[v] = job[v],
         UNCHANGED <<breaks, sent>>, result # "none" => result' # "none", dead > 0 => dead' > 0,
         job'[w].pc # "idle" => job'[w].attached \/ (job[w].pc # "idle" /\ ~job[w].attached),
         processed' => processed \/ job'[w].pc \in Holding,
         job[w].pc \in Holding =>
           job'[w].pc \in Holding \/ ~processed' \/ result' # "none",
         \/ job'[w].pc \in Working
         \/ result' # "none" \/ dead' > 0 \/ \E a \in Attempts : queued'[a] > 0
         \/ \E v \in Workers : v # w /\ job[v].pc \in Holding
         \/ job[w].pc \notin Working /\ \A a \in Attempts : queued'[a] = queued[a]
         \/ breaks # 0
  PROVE  Attached' /\ KeyIsHeld' /\ NotLost'
<1> DEFINE Lives(v) == job[v].pc \notin {"idle", "republished"}
<1>1. Attached'
  <2> SUFFICES ASSUME breaks = 0, NEW v \in Workers, job'[v].pc # "idle"
               PROVE  job'[v].attached
    BY DEF Attached, At
  <2>1. job[v].pc # "idle" => job[v].attached BY DEF IInv, Attached, At
  <2> QED BY <2>1
<1>2. KeyIsHeld'
  <2> SUFFICES ASSUME breaks = 0, processed', result' = "none"
               PROVE  \E v \in Workers : job'[v].pc \in Holding
    BY DEF KeyIsHeld, Executing, Holding
  <2>1. CASE job'[w].pc \in Holding BY <2>1
  <2>2. CASE job'[w].pc \notin Holding
    <3>1. PICK v \in Workers : job[v].pc \in Holding
      BY <2>2 DEF IInv, KeyIsHeld, Executing, Holding
    <3>2. v # w BY <2>2, <3>1
    <3> QED BY <3>1, <3>2
  <2> QED BY <2>1, <2>2
<1>3. NotLost'
  <2> SUFFICES ASSUME breaks = 0, sent, result' = "none", ~(dead' > 0),
                      \A a \in Attempts : ~(queued'[a] > 0)
               PROVE  \E v \in Workers : job'[v].pc \notin {"idle", "republished"}
    BY DEF NotLost
  <2>1. CASE job'[w].pc \in Working BY <2>1 DEF Working, InExecute
  <2>2. CASE \E v \in Workers : v # w /\ job[v].pc \in Holding
    BY <2>2 DEF Holding, InExecute
  <2>3. CASE job[w].pc \notin Working /\ \A a \in Attempts : queued'[a] = queued[a]
    <3>1. \E v \in Workers : Lives(v) BY <2>3 DEF IInv, NotLost
    <3>2. job[w].pc \in Working \cup {"idle", "republished"}
      BY JobTyped DEF IInv, Jobs, Working
    <3> QED BY <2>3, <3>1, <3>2
  <2> QED BY <2>1, <2>2, <2>3
<1> QED BY <1>1, <1>2, <1>3

\* After a break nothing is promised of the message.
LEMMA BreakKeepsNothing ==
  ASSUME IInv, breaks' = breaks + 1
  PROVE  Attached' /\ KeyIsHeld' /\ NotLost'
<1>1. breaks \in Nat BY Bounds DEF IInv, TypeOK
<1>2. breaks + 1 # 0 BY <1>1
<1> QED BY <1>2 DEF Attached, KeyIsHeld, NotLost

-----------------------------------------------------------------------------
(* The steps of _execute. *)

\* What a step within the execution, or into its except clause, does not touch.
Frame == UNCHANGED <<caller, expired, outcome, sent, queued, dead, processed, retrying, retries,
                     breaks>>

LEMMA ExecuteStep ==
  ASSUME IInv, NEW w \in Workers, job[w].pc \in InExecute, Frame,
         job' \in [Workers -> Jobs], job'[w].pc \in Holding,
         job'[w].attached = job[w].attached,
         \A v \in Workers : v # w => job'[v] = job[v],
         result # "none" => result' # "none"
  PROVE  OneExecution' /\ Attached' /\ KeyIsHeld' /\ NotLost'
<1>1. job[w].pc \in Holding BY DEF Holding
<1>2. processed' BY <1>1, Owner DEF Frame
<1>3. OneExecution' BY <1>1, <1>2, KeepsOneExecution
<1>4. job'[w].pc \in Working BY DEF Holding, Working
<1>5. job[w].pc # "idle" BY DEF InExecute
<1>6. job[w].attached \in BOOLEAN BY JobTyped DEF IInv
<1>7. Attached' /\ KeyIsHeld' /\ NotLost'
  BY <1>1, <1>2, <1>4, <1>5, <1>6, KeepsMessage DEF Frame
<1> QED BY <1>3, <1>7

LEMMA BeginStep == ASSUME IInv, NEW w \in Workers, Begin(w) PROVE IInv'
<1>1. TypeOK BY DEF IInv
<1>2. Goto(w, "running") /\ At(w, "claimed") BY DEF Begin
<1>3. /\ job' \in [Workers -> Jobs] /\ job'[w].pc = "running"
      /\ job'[w].attached = job[w].attached
      /\ \A v \in Workers : v # w => job'[v] = job[v]
  BY <1>1, <1>2, GotoEffect DEF InExecute
<1>4. Frame /\ UNCHANGED <<result, persisted, faults>>
  BY DEF Begin, Frame, orchestratorVars, brokerVars, redisVars, apiVars
<1>5. TypeOK'
  BY <1>1, <1>3, <1>4 DEF TypeOK, Jobs, Begin, Frame
<1>6. OneExecution' /\ Attached' /\ KeyIsHeld' /\ NotLost'
  BY <1>2, <1>3, <1>4, ExecuteStep DEF At, InExecute, Holding
<1>7. VerdictsKnown' BY <1>3, <1>4, KeepsVerdicts
<1>8. VerdictIsPersisted' BY <1>4 DEF IInv, VerdictIsPersisted, Frame
<1> QED BY <1>5, <1>6, <1>7, <1>8 DEF IInv

LEMMA AnswerStep == ASSUME IInv, NEW w \in Workers, AgentAnswers(w) PROVE IInv'
<1>1. TypeOK /\ At(w, "running") BY DEF IInv, AgentAnswers
<1>2. PICK v \in Verdicts : job' = [job EXCEPT ![w].pc = "answered", ![w].verdict = v]
  BY DEF AgentAnswers
<1>3. job \in [Workers -> Jobs] /\ job[w] \in Jobs BY <1>1, JobTyped
<1> DEFINE x == [job[w] EXCEPT !.pc = "answered", !.verdict = v]
<1>4. job' = [job EXCEPT ![w] = x] BY <1>2, <1>3
<1>5. /\ x \in Jobs /\ x.pc = "answered" /\ x.verdict = v /\ x.attached = job[w].attached
  BY <1>3 DEF Jobs, InExecute
<1> HIDE DEF x
<1>6. /\ job' \in [Workers -> Jobs] /\ job'[w] = x
      /\ \A u \in Workers : u # w => job'[u] = job[u]
  BY <1>3, <1>4, <1>5
<1>7. Frame /\ UNCHANGED <<result, persisted, executions, faults, status, attempt>>
  BY DEF AgentAnswers, Frame, orchestratorVars, brokerVars, redisVars, apiVars, taskRow, history
<1>8. TypeOK' BY <1>1, <1>6, <1>7 DEF TypeOK, Jobs, Frame
<1>9. OneExecution' /\ Attached' /\ KeyIsHeld' /\ NotLost'
  BY <1>1, <1>5, <1>6, <1>7, ExecuteStep DEF At, InExecute, Holding
<1>10. VerdictsKnown' BY <1>5, <1>6, <1>7, KeepsVerdicts
<1>11. VerdictIsPersisted' BY <1>7 DEF IInv, VerdictIsPersisted, Frame
<1> QED BY <1>8, <1>9, <1>10, <1>11 DEF IInv

LEMMA PersistStep == ASSUME IInv, NEW w \in Workers, Persist(w) PROVE IInv'
<1>1. TypeOK BY DEF IInv
<1>2. Goto(w, "persisted") /\ At(w, "answered") BY DEF Persist
<1>3. /\ job' \in [Workers -> Jobs] /\ job'[w].pc = "persisted"
      /\ job'[w].attached = job[w].attached /\ job'[w].verdict = job[w].verdict
      /\ \A v \in Workers : v # w => job'[v] = job[v]
  BY <1>1, <1>2, GotoEffect DEF InExecute
<1>4. Frame /\ UNCHANGED <<result, executions, faults, status, attempt>>
  BY DEF Persist, Frame, orchestratorVars, brokerVars, redisVars, apiVars, taskRow
<1>5. job[w].verdict \in Verdicts /\ persisted' = persisted \cup {job[w].verdict}
  BY <1>2 DEF IInv, VerdictsKnown, Persist
<1>6. TypeOK' BY <1>1, <1>3, <1>4, <1>5 DEF TypeOK, Jobs, Frame
<1>7. OneExecution' /\ Attached' /\ KeyIsHeld' /\ NotLost'
  BY <1>2, <1>3, <1>4, ExecuteStep DEF At, InExecute, Holding
<1>8. VerdictsKnown' BY <1>3, <1>4, <1>5, KeepsVerdicts
<1>9. VerdictIsPersisted' BY <1>4, <1>5 DEF IInv, VerdictIsPersisted, Frame
<1> QED BY <1>6, <1>7, <1>8, <1>9 DEF IInv

LEMMA FinalStatusStep == ASSUME IInv, NEW w \in Workers, SetFinalStatus(w) PROVE IInv'
<1>1. TypeOK BY DEF IInv
<1>2. Goto(w, "statused") /\ At(w, "persisted") BY DEF SetFinalStatus
<1>3. /\ job' \in [Workers -> Jobs] /\ job'[w].pc = "statused"
      /\ job'[w].attached = job[w].attached /\ job'[w].verdict = job[w].verdict
      /\ \A v \in Workers : v # w => job'[v] = job[v]
  BY <1>1, <1>2, GotoEffect DEF InExecute
<1>4. Frame /\ UNCHANGED <<result, executions, persisted, faults, attempt>>
  BY DEF SetFinalStatus, Frame, orchestratorVars, brokerVars, redisVars, apiVars, history
<1>5. status' \in {"BLOCKED", "FAILED", "DONE"} BY DEF SetFinalStatus, FinalStatus
<1>6. TypeOK' BY <1>1, <1>3, <1>4, <1>5 DEF TypeOK, Jobs, Frame
<1>7. OneExecution' /\ Attached' /\ KeyIsHeld' /\ NotLost'
  BY <1>2, <1>3, <1>4, ExecuteStep DEF At, InExecute, Holding
<1>8. job[w].verdict \in persisted BY <1>2 DEF IInv, VerdictsKnown, At
<1>9. VerdictsKnown' BY <1>3, <1>4, <1>8, KeepsVerdicts
<1>10. VerdictIsPersisted' BY <1>4 DEF IInv, VerdictIsPersisted, Frame
<1> QED BY <1>6, <1>7, <1>9, <1>10 DEF IInv

LEMMA StoreResultStep == ASSUME IInv, NEW w \in Workers, StoreResult(w) PROVE IInv'
<1>1. TypeOK BY DEF IInv
<1>2. Goto(w, "stored") /\ At(w, "statused") BY DEF StoreResult
<1>3. /\ job' \in [Workers -> Jobs] /\ job'[w].pc = "stored"
      /\ job'[w].attached = job[w].attached /\ job'[w].verdict = job[w].verdict
      /\ \A v \in Workers : v # w => job'[v] = job[v]
  BY <1>1, <1>2, GotoEffect DEF InExecute
<1>4. Frame /\ UNCHANGED <<executions, persisted, faults, status, attempt>>
  BY DEF StoreResult, Frame, orchestratorVars, brokerVars, apiVars, history, taskRow
<1>5. result' = job[w].verdict /\ job[w].verdict \in persisted
  BY <1>2 DEF IInv, VerdictsKnown, At, StoreResult
<1>6. result' \in Verdicts /\ result' # "none" BY <1>1, <1>5, VerdictsApart DEF TypeOK
<1>7. TypeOK' BY <1>1, <1>3, <1>4, <1>6 DEF TypeOK, Jobs, Frame
<1>8. OneExecution' /\ Attached' /\ KeyIsHeld' /\ NotLost'
  BY <1>2, <1>3, <1>4, <1>6, ExecuteStep DEF At, InExecute, Holding
<1>9. VerdictsKnown' BY <1>3, <1>4, <1>5, <1>6, KeepsVerdicts
<1>10. VerdictIsPersisted' BY <1>4, <1>5 DEF IInv, VerdictIsPersisted, Frame
<1> QED BY <1>7, <1>8, <1>9, <1>10 DEF IInv

\* An exception of the agent, of the database or of the ack.
LEMMA FailingStep ==
  ASSUME IInv, NEW w \in Workers, AckRaises(w) \/ ExecuteRaises(w)
  PROVE  IInv'
<1>1. TypeOK BY DEF IInv
<1>2. Goto(w, "failing") /\ job[w].pc \in InExecute
  BY DEF AckRaises, ExecuteRaises, At, InExecute
<1>3. /\ job' \in [Workers -> Jobs] /\ job'[w].pc = "failing"
      /\ job'[w].attached = job[w].attached
      /\ \A v \in Workers : v # w => job'[v] = job[v]
  BY <1>1, <1>2, GotoEffect
<1>4. Frame /\ UNCHANGED <<result, executions, persisted, status, attempt>>
  BY DEF AckRaises, ExecuteRaises, Frame, orchestratorVars, brokerVars, redisVars, apiVars,
         history, taskRow
<1>5. faults' \in 0 .. MaxFaults
  <2>1. faults \in 0 .. MaxFaults BY <1>1 DEF TypeOK
  <2> QED BY <2>1, Bounds DEF AckRaises, ExecuteRaises
<1>6. TypeOK' BY <1>1, <1>3, <1>4, <1>5 DEF TypeOK, Jobs, Frame
<1>7. OneExecution' /\ Attached' /\ KeyIsHeld' /\ NotLost'
  BY <1>2, <1>3, <1>4, ExecuteStep DEF Holding
<1>8. VerdictsKnown' BY <1>3, <1>4, KeepsVerdicts
<1>9. VerdictIsPersisted' BY <1>4 DEF IInv, VerdictIsPersisted, Frame
<1> QED BY <1>6, <1>7, <1>8, <1>9 DEF IInv

-----------------------------------------------------------------------------
(* The steps of _handle around it. *)

LEMMA DeliverStep == ASSUME IInv, NEW w \in Workers, Deliver(w) PROVE IInv'
<1>1. TypeOK /\ At(w, "idle") BY DEF IInv, Deliver
<1>2. PICK a \in Attempts :
        /\ queued[a] > 0 /\ queued' = [queued EXCEPT ![a] = @ - 1]
        /\ job' = [job EXCEPT ![w] = [pc |-> "received", attempt |-> a,
                                      verdict |-> "none", attached |-> TRUE]]
  BY DEF Deliver
<1> DEFINE x == [pc |-> "received", attempt |-> a, verdict |-> "none", attached |-> TRUE]
<1>3. x \in Jobs /\ x.pc = "received" /\ x.attached BY DEF Jobs
<1>4. job' = [job EXCEPT ![w] = x] BY <1>2
<1> HIDE DEF x
<1>5. job \in [Workers -> Jobs] BY <1>1, JobTyped
<1>6. /\ job' \in [Workers -> Jobs] /\ job'[w].pc = "received" /\ job'[w].attached
      /\ \A v \in Workers : v # w => job'[v] = job[v]
  BY <1>3, <1>4, <1>5
<1>7. queued' \in [Attempts -> Nat]
  <2>1. queued \in [Attempts -> Nat] BY <1>1 DEF TypeOK
  <2>2. queued[a] - 1 \in Nat BY <1>2, <2>1
  <2> QED BY <1>2, <2>1, <2>2
<1>8. UNCHANGED <<caller, expired, outcome, sent, dead, processed, result, status, attempt,
                  retrying, retries, executions, persisted, faults, breaks>>
  BY DEF Deliver, orchestratorVars, redisVars, taskRow, apiVars, history
<1>9. TypeOK' BY <1>1, <1>6, <1>7, <1>8 DEF TypeOK, Jobs
<1>10. job'[w].pc \notin Holding /\ job'[w].pc \in Working /\ job[w].pc \notin Holding
  BY <1>1, <1>6 DEF At, Holding, Working, InExecute
<1>11. OneExecution' BY <1>6, <1>8, <1>10, KeepsOneExecution
<1>12. Attached' /\ KeyIsHeld' /\ NotLost' BY <1>6, <1>8, <1>10, KeepsMessage
<1>13. VerdictsKnown' BY <1>6, <1>8, KeepsVerdicts
<1>14. VerdictIsPersisted' BY <1>8 DEF IInv, VerdictIsPersisted
<1> QED BY <1>9, <1>11, <1>12, <1>13, <1>14 DEF IInv

LEMMA ClaimStep == ASSUME IInv, NEW w \in Workers, Claim(w) PROVE IInv'
<1>1. TypeOK BY DEF IInv
<1>2. At(w, "received") /\ ~processed /\ processed' /\ Goto(w, "claimed") BY DEF Claim
<1>3. /\ job' \in [Workers -> Jobs] /\ job'[w].pc = "claimed"
      /\ job'[w].attached = job[w].attached
      /\ \A v \in Workers : v # w => job'[v] = job[v]
  BY <1>1, <1>2, GotoEffect DEF InExecute
<1>4. UNCHANGED <<caller, expired, outcome, sent, queued, dead, result, status, attempt,
                  retrying, retries, executions, persisted, faults, breaks>>
  BY DEF Claim, orchestratorVars, brokerVars, taskRow, apiVars, history
<1>5. processed' \in BOOLEAN BY DEF Claim
<1>6. TypeOK' BY <1>1, <1>3, <1>4, <1>5 DEF TypeOK, Jobs
<1>7. job'[w].pc \in Holding /\ job'[w].pc \in Working /\ job[w].pc \notin Holding
  BY <1>2, <1>3 DEF At, Holding, Working, InExecute
<1>8. OneExecution' BY <1>2, <1>3, <1>7, KeepsOneExecution
<1>9. job[w].pc # "idle" /\ job[w].attached \in BOOLEAN BY <1>1, <1>2, JobTyped DEF At
<1>10. Attached' /\ KeyIsHeld' /\ NotLost' BY <1>3, <1>4, <1>7, <1>9, KeepsMessage
<1>11. VerdictsKnown' BY <1>3, <1>4, KeepsVerdicts
<1>12. VerdictIsPersisted' BY <1>4 DEF IInv, VerdictIsPersisted
<1> QED BY <1>6, <1>8, <1>10, <1>11, <1>12 DEF IInv

\* A worker that goes back to its queue, and leaves the key as it is.
LEMMA RestStep ==
  ASSUME IInv, NEW w \in Workers, Rest(w),
         UNCHANGED <<caller, expired, outcome, sent, processed, result, status, attempt,
                     retrying, retries, executions, persisted, faults>>,
         queued' \in [Attempts -> Nat], dead' \in Nat, breaks' \in 0 .. MaxBreaks,
         Attached' /\ KeyIsHeld' /\ NotLost'
  PROVE  IInv'
<1>1. TypeOK BY DEF IInv
<1>2. /\ job' \in [Workers -> Jobs] /\ job'[w].pc = "idle"
      /\ \A v \in Workers : v # w => job'[v] = job[v]
  BY <1>1, RestEffect
<1>3. TypeOK' BY <1>1, <1>2 DEF TypeOK, Jobs
<1>4. job'[w].pc \notin Holding BY <1>2 DEF Holding, InExecute
<1>5. job[w].pc \in Holding => processed BY Owner
<1>6. OneExecution' BY <1>2, <1>4, <1>5, KeepsOneExecution
<1>7. VerdictsKnown' BY <1>2, KeepsVerdicts
<1>8. VerdictIsPersisted' BY DEF IInv, VerdictIsPersisted
<1> QED BY <1>3, <1>6, <1>7, <1>8 DEF IInv

LEMMA QueuesTyped ==
  ASSUME TypeOK
  PROVE  /\ queued \in [Attempts -> Nat] /\ dead \in Nat
         /\ breaks \in 0 .. MaxBreaks /\ breaks \in Nat
BY Bounds DEF TypeOK

\* A duplicate is dropped while the owner of the key is at work, or has left the result.
LEMMA DropDuplicateStep == ASSUME IInv, NEW w \in Workers, DropDuplicate(w) PROVE IInv'
<1>1. TypeOK BY DEF IInv
<1>2. At(w, "received") /\ processed /\ Rest(w) BY DEF DropDuplicate
<1>3. job'[w].pc = "idle" /\ \A v \in Workers : v # w => job'[v] = job[v]
  BY <1>1, <1>2, RestEffect
<1>4. UNCHANGED <<caller, expired, outcome, sent, queued, dead, processed, result, status,
                  attempt, retrying, retries, executions, persisted, faults, breaks>>
  BY DEF DropDuplicate, orchestratorVars, brokerVars, redisVars, taskRow, apiVars, history
<1>5. job[w].pc \notin Holding BY <1>2 DEF At, Holding, InExecute
<1>6. breaks # 0 \/ result # "none" \/ \E v \in Workers : v # w /\ job[v].pc \in Holding
  BY <1>2, <1>5 DEF IInv, KeyIsHeld, Executing, Holding
<1>7. Attached' /\ KeyIsHeld' /\ NotLost' BY <1>3, <1>4, <1>5, <1>6, KeepsMessage
<1> QED BY <1>1, <1>2, <1>4, <1>7, QueuesTyped, RestStep

LEMMA AckStep == ASSUME IInv, NEW w \in Workers, Ack(w) PROVE IInv'
<1>1. TypeOK BY DEF IInv
<1>2. At(w, "stored") /\ Rest(w) BY DEF Ack
<1>3. job'[w].pc = "idle" /\ \A v \in Workers : v # w => job'[v] = job[v]
  BY <1>1, <1>2, RestEffect
<1>4. UNCHANGED <<caller, expired, outcome, sent, queued, dead, processed, result, status,
                  attempt, retrying, retries, executions, persisted, faults, breaks>>
  BY DEF Ack, orchestratorVars, brokerVars, redisVars, taskRow, apiVars, history
<1>5. result # "none" BY <1>2 DEF IInv, VerdictsKnown
<1>6. Attached' /\ KeyIsHeld' /\ NotLost' BY <1>3, <1>4, <1>5, KeepsMessage
<1> QED BY <1>1, <1>2, <1>4, <1>6, QueuesTyped, RestStep

LEMMA DeleteKeyStep == ASSUME IInv, NEW w \in Workers, DeleteKey(w) PROVE IInv'
<1>1. TypeOK BY DEF IInv
<1>2. At(w, "failing") /\ processed' = FALSE /\ Goto(w, "unlocked") BY DEF DeleteKey
<1>3. /\ job' \in [Workers -> Jobs] /\ job'[w].pc = "unlocked"
      /\ job'[w].attached = job[w].attached
      /\ \A v \in Workers : v # w => job'[v] = job[v]
  BY <1>1, <1>2, GotoEffect
<1>4. UNCHANGED <<caller, expired, outcome, sent, queued, dead, result, status, attempt,
                  retrying, retries, executions, persisted, faults, breaks>>
  BY DEF DeleteKey, orchestratorVars, brokerVars, taskRow, apiVars, history
<1>5. TypeOK' BY <1>1, <1>2, <1>3, <1>4 DEF TypeOK, Jobs
<1>6. job'[w].pc \notin Holding /\ job'[w].pc \in Working /\ job[w].pc \in Holding
  BY <1>2, <1>3 DEF At, Holding, Working, InExecute
<1>7. OneExecution' BY <1>3, <1>6, KeepsOneExecution
<1>8. job[w].pc # "idle" /\ job[w].attached \in BOOLEAN BY <1>1, <1>2, JobTyped DEF At
<1>9. ~processed' BY <1>2
<1>10. Attached' /\ KeyIsHeld' /\ NotLost' BY <1>3, <1>4, <1>6, <1>8, <1>9, KeepsMessage
<1>11. VerdictsKnown' BY <1>3, <1>4, KeepsVerdicts
<1>12. VerdictIsPersisted' BY <1>4 DEF IInv, VerdictIsPersisted
<1> QED BY <1>5, <1>7, <1>10, <1>11, <1>12 DEF IInv

LEMMA RejectStep == ASSUME IInv, NEW w \in Workers, Reject(w) PROVE IInv'
<1>1. TypeOK BY DEF IInv
<1>2. /\ At(w, "unlocked") /\ Rest(w)
      /\ dead' = IF job[w].attached THEN dead + 1 ELSE dead
  BY DEF Reject
<1>3. job'[w].pc = "idle" /\ \A v \in Workers : v # w => job'[v] = job[v]
  BY <1>1, <1>2, RestEffect
<1>4. UNCHANGED <<caller, expired, outcome, sent, queued, processed, result, status,
                  attempt, retrying, retries, executions, persisted, faults, breaks>>
  BY DEF Reject, orchestratorVars, redisVars, taskRow, apiVars, history
<1>5. dead \in Nat /\ dead' \in Nat /\ (dead > 0 => dead' > 0) BY <1>1, <1>2, QueuesTyped
<1>6. breaks # 0 \/ dead' > 0
  <2>1. breaks = 0 => job[w].attached BY <1>2 DEF IInv, Attached, At
  <2> QED BY <1>2, <1>5, <2>1
<1>7. job[w].pc \notin Holding BY <1>2 DEF At, Holding, InExecute
<1>8. Attached' /\ KeyIsHeld' /\ NotLost' BY <1>3, <1>4, <1>5, <1>6, <1>7, KeepsMessage
<1> QED BY <1>1, <1>2, <1>4, <1>5, <1>8, QueuesTyped, RestStep

LEMMA RepublishStep == ASSUME IInv, NEW w \in Workers, Republish(w) PROVE IInv'
<1> DEFINE a == job[w].attempt + 1
<1>1. TypeOK BY DEF IInv
<1>2. /\ At(w, "unlocked") /\ Goto(w, "republished") /\ job[w].attempt < MaxAttempts
      /\ queued' = [queued EXCEPT ![a] = @ + 1]
  BY DEF Republish
<1>3. /\ job' \in [Workers -> Jobs] /\ job'[w].pc = "republished"
      /\ job'[w].attached = job[w].attached
      /\ \A v \in Workers : v # w => job'[v] = job[v]
  BY <1>1, <1>2, GotoEffect
<1>4. a \in Attempts BY <1>1, <1>2, JobTyped, Bounds DEF Attempts
<1> HIDE DEF a
<1>5. queued' \in [Attempts -> Nat] /\ queued'[a] > 0
  <2>1. queued \in [Attempts -> Nat] /\ queued[a] \in Nat BY <1>1, <1>4, QueuesTyped
  <2>2. queued'[a] = queued[a] + 1 BY <1>2, <1>4, <2>1
  <2> QED BY <1>2, <2>1, <2>2
<1>6. UNCHANGED <<caller, expired, outcome, sent, dead, processed, result, status, attempt,
                  retrying, retries, executions, persisted, faults, breaks>>
  BY DEF Republish, orchestratorVars, redisVars, taskRow, apiVars, history
<1>7. TypeOK' BY <1>1, <1>3, <1>5, <1>6 DEF TypeOK, Jobs
<1>8. job'[w].pc \notin Holding /\ job[w].pc \notin Holding
  BY <1>2, <1>3 DEF At, Holding, InExecute
<1>9. OneExecution' BY <1>3, <1>6, <1>8, KeepsOneExecution
<1>10. job[w].pc # "idle" /\ job[w].attached \in BOOLEAN BY <1>1, <1>2, JobTyped DEF At
<1>11. Attached' /\ KeyIsHeld' /\ NotLost'
  BY <1>3, <1>4, <1>5, <1>6, <1>8, <1>10, KeepsMessage
<1>12. VerdictsKnown' BY <1>3, <1>6, KeepsVerdicts
<1>13. VerdictIsPersisted' BY <1>6 DEF IInv, VerdictIsPersisted
<1> QED BY <1>7, <1>9, <1>11, <1>12, <1>13 DEF IInv

LEMMA AckOriginalStep == ASSUME IInv, NEW w \in Workers, AckOriginal(w) PROVE IInv'
<1>1. TypeOK BY DEF IInv
<1>2. At(w, "republished") /\ Rest(w) BY DEF AckOriginal
<1>3. job'[w].pc = "idle" /\ \A v \in Workers : v # w => job'[v] = job[v]
  BY <1>1, <1>2, RestEffect
<1>4. UNCHANGED <<caller, expired, outcome, sent, queued, dead, processed, result, status,
                  attempt, retrying, retries, executions, persisted, faults, breaks>>
  BY DEF AckOriginal, orchestratorVars, brokerVars, redisVars, taskRow, apiVars, history
<1>5. job[w].pc \notin Holding /\ job[w].pc \notin Working
  BY <1>2 DEF At, Holding, Working, InExecute
<1>6. Attached' /\ KeyIsHeld' /\ NotLost' BY <1>3, <1>4, <1>5, KeepsMessage
<1> QED BY <1>1, <1>2, <1>4, <1>6, QueuesTyped, RestStep

-----------------------------------------------------------------------------
(* Breaks. *)

LEMMA RequeueTyped ==
  ASSUME TypeOK, NEW w \in Workers, Requeue(w)
  PROVE  queued' \in [Attempts -> Nat]
<1> DEFINE a == job[w].attempt
           n == IF job[w].attached THEN queued[a] + 1 ELSE queued[a]
<1>1. queued \in [Attempts -> Nat] BY QueuesTyped
<1>2. a \in Attempts BY JobTyped
<1>3. n \in Nat BY <1>1, <1>2
<1>4. queued' = [queued EXCEPT ![a] = n] BY <1>1, <1>2 DEF Requeue
<1> HIDE DEF n, a
<1> QED BY <1>1, <1>3, <1>4

LEMMA BreakTyped ==
  ASSUME TypeOK, breaks < MaxBreaks, breaks' = breaks + 1
  PROVE  breaks' \in 0 .. MaxBreaks
<1>1. breaks \in Nat /\ breaks + 1 \in 0 .. MaxBreaks BY QueuesTyped, Bounds
<1> QED BY <1>1

LEMMA LeaveStep ==
  ASSUME IInv, NEW w \in Workers, HandleRaises(w) \/ Crash(w)
  PROVE  IInv'
<1>1. TypeOK BY DEF IInv
<1>2. breaks < MaxBreaks /\ breaks' = breaks + 1 /\ Rest(w) /\ Requeue(w)
  BY DEF HandleRaises, Crash
<1>3. UNCHANGED <<caller, expired, outcome, sent, dead, processed, result, status, attempt,
                  retrying, retries, executions, persisted, faults>>
  BY DEF HandleRaises, Crash, orchestratorVars, redisVars, taskRow, apiVars, history
<1>4. queued' \in [Attempts -> Nat] /\ dead' \in Nat /\ breaks' \in 0 .. MaxBreaks
  BY <1>1, <1>2, <1>3, QueuesTyped, RequeueTyped, BreakTyped
<1>5. Attached' /\ KeyIsHeld' /\ NotLost' BY <1>2, BreakKeepsNothing
<1> QED BY <1>2, <1>3, <1>4, <1>5, RestStep

LEMMA LoseConnectionStep == ASSUME IInv, NEW w \in Workers, LoseConnection(w) PROVE IInv'
<1> DEFINE x == [job[w] EXCEPT !.attached = FALSE]
<1>1. TypeOK BY DEF IInv
<1>2. job \in [Workers -> Jobs] /\ job[w] \in Jobs BY <1>1, JobTyped
<1>3. /\ breaks < MaxBreaks /\ breaks' = breaks + 1 /\ Requeue(w)
      /\ job' = [job EXCEPT ![w] = x]
  BY <1>2 DEF LoseConnection
<1>4. x \in Jobs /\ x.pc = job[w].pc /\ x.verdict = job[w].verdict BY <1>2 DEF Jobs
<1> HIDE DEF x
<1>5. /\ job' \in [Workers -> Jobs] /\ job'[w].pc = job[w].pc
      /\ job'[w].verdict = job[w].verdict
      /\ \A v \in Workers : v # w => job'[v] = job[v]
  BY <1>2, <1>3, <1>4
<1>6. UNCHANGED <<caller, expired, outcome, sent, dead, processed, result, status, attempt,
                  retrying, retries, executions, persisted, faults>>
  BY DEF LoseConnection, orchestratorVars, redisVars, taskRow, apiVars, history
<1>7. queued' \in [Attempts -> Nat] /\ breaks' \in 0 .. MaxBreaks
  BY <1>1, <1>3, RequeueTyped, BreakTyped
<1>8. TypeOK' BY <1>1, <1>5, <1>6, <1>7 DEF TypeOK, Jobs
<1>9. job[w].pc \in Holding => processed BY Owner
<1>10. OneExecution' BY <1>5, <1>6, <1>9, KeepsOneExecution
<1>11. Attached' /\ KeyIsHeld' /\ NotLost' BY <1>3, BreakKeepsNothing
<1>12. /\ job[w].pc = "answered" => job[w].verdict \in Verdicts
       /\ job[w].pc \in {"persisted", "statused", "stored"} => job[w].verdict \in persisted
       /\ job[w].pc = "stored" => result # "none"
  BY DEF IInv, VerdictsKnown, At
<1>13. VerdictsKnown' BY <1>5, <1>6, <1>12, KeepsVerdicts
<1>14. VerdictIsPersisted' BY <1>6 DEF IInv, VerdictIsPersisted
<1> QED BY <1>8, <1>10, <1>11, <1>13, <1>14 DEF IInv

-----------------------------------------------------------------------------
(* The call of the orchestrator, and the API. *)

\* Neither of them touches a worker, the key or the copies of the message.
LEMMA OtherStep ==
  ASSUME IInv, TypeOK', VerdictIsPersisted',
         UNCHANGED <<job, processed, result, persisted, dead, breaks>>,
         \/ UNCHANGED <<queued, sent>>
         \/ \E a \in Attempts : queued'[a] > 0
  PROVE  IInv'
<1>1. OneExecution' BY DEF IInv, OneExecution, Executing
<1>2. VerdictsKnown' BY DEF IInv, VerdictsKnown, At
<1>3. Attached' /\ KeyIsHeld' BY DEF IInv, Attached, KeyIsHeld, Executing, At
<1>4. NotLost' BY DEF IInv, NotLost
<1> QED BY <1>1, <1>2, <1>3, <1>4 DEF IInv

LEMMA PublishStep == ASSUME IInv, Publish PROVE IInv'
<1>1. TypeOK BY DEF IInv
<1>2. queued \in [Attempts -> Nat] /\ queued[1] \in Nat BY <1>1, QueuesTyped, Bounds
<1>3. queued' = [queued EXCEPT ![1] = queued[1] + 1] BY <1>2 DEF Publish
<1>4. queued' \in [Attempts -> Nat] /\ queued'[1] = queued[1] + 1 BY <1>2, <1>3, Bounds
<1>5. queued'[1] > 0 BY <1>2, <1>4
<1>6. UNCHANGED <<expired, outcome, dead, processed, result, status, attempt, retrying, retries,
                  executions, persisted, job, faults, breaks>>
  BY DEF Publish, redisVars, taskRow, apiVars, history
<1>7. caller' = "result" /\ sent' = TRUE BY DEF Publish
<1>8. TypeOK' BY <1>1, <1>4, <1>6, <1>7 DEF TypeOK
<1>9. VerdictIsPersisted' BY <1>6 DEF IInv, VerdictIsPersisted
<1> QED BY <1>5, <1>6, <1>8, <1>9, Bounds, OtherStep

\* What the call returns is a verdict only when it has read the result.
LEMMA ReturnsPersisted ==
  ASSUME IInv, ReadResult \/ ReadStatus \/ TimeOut \/ CallerRaises
  PROVE  IInv'
<1>1. TypeOK BY DEF IInv
<1>2. UNCHANGED <<expired, sent, queued, dead, processed, result, status, attempt, retrying,
                  retries, executions, persisted, job, faults, breaks>>
  BY DEF ReadResult, ReadStatus, TimeOut, CallerRaises, brokerVars, redisVars, taskRow, apiVars,
         history
<1>3. caller' \in {"result", "status", "returned"}
  BY DEF ReadResult, ReadStatus, TimeOut, CallerRaises, Return
<1>4. \/ outcome' = outcome
      \/ outcome' = result /\ result # "none"
      \/ outcome' \in {"no_result", "timeout", "raised"}
  BY DEF ReadResult, ReadStatus, TimeOut, CallerRaises, Return
<1>5. outcome' \in Verdicts \cup {"none", "no_result", "timeout", "raised"}
  BY <1>1, <1>4 DEF TypeOK
<1>6. outcome' \in Verdicts => outcome' \in persisted
  BY <1>4, VerdictsApart DEF IInv, VerdictIsPersisted
<1>7. TypeOK' BY <1>1, <1>2, <1>3, <1>5 DEF TypeOK
<1>8. VerdictIsPersisted' BY <1>2, <1>6 DEF IInv, VerdictIsPersisted
<1> QED BY <1>2, <1>7, <1>8, OtherStep

\* The rest writes the row of the task, or counts.
LEMMA RowStep ==
  ASSUME IInv, CreateTask \/ DeadlinePasses \/ CheckRetry \/ CommitRetry \/ UNCHANGED vars
  PROVE  IInv'
<1>1. TypeOK BY DEF IInv
<1>2. UNCHANGED <<outcome, sent, queued, dead, processed, result, attempt, executions, persisted,
                  job, faults, breaks>>
  BY DEF CreateTask, DeadlinePasses, CheckRetry, CommitRetry, vars, orchestratorVars, brokerVars,
         redisVars, taskRow, apiVars, history
<1>3. caller' \in {caller, "publish"} /\ expired' \in {expired, TRUE}
  BY DEF CreateTask, DeadlinePasses, CheckRetry, CommitRetry, vars, orchestratorVars
<1>4. status' \in {status, "READY"} /\ retrying' \in {retrying, TRUE, FALSE}
  BY DEF CreateTask, DeadlinePasses, CheckRetry, CommitRetry, vars, taskRow, apiVars
<1>5. retries' \in 0 .. MaxRetries
  <2>1. retries \in 0 .. MaxRetries BY <1>1 DEF TypeOK
  <2>2. CASE CheckRetry
    <3>1. retries + 1 \in 0 .. MaxRetries /\ retries' = retries + 1
      BY <2>1, <2>2, Bounds DEF CheckRetry
    <3> QED BY <3>1
  <2>3. CASE ~CheckRetry
    BY <2>1, <2>3 DEF CreateTask, DeadlinePasses, CommitRetry, vars, apiVars
  <2> QED BY <2>2, <2>3
<1>6. TypeOK'
  <2>1. /\ caller' \in {"create", "publish", "result", "status", "returned"}
        /\ status' \in {"none", "READY", "IN_PROGRESS", "DONE", "BLOCKED", "FAILED"}
    BY <1>1, <1>3, <1>4 DEF TypeOK
  <2>2. expired' \in BOOLEAN
    <3>1. expired \in BOOLEAN BY <1>1 DEF TypeOK
    <3> QED BY <1>3, <3>1, Zenon
  <2>3. retrying' \in BOOLEAN
    <3>1. retrying \in BOOLEAN BY <1>1 DEF TypeOK
    <3> QED BY <1>4, <3>1, Zenon
  <2> QED BY <1>1, <1>2, <1>5, <2>1, <2>2, <2>3 DEF TypeOK
<1>7. VerdictIsPersisted' BY <1>2 DEF IInv, VerdictIsPersisted
<1> QED BY <1>2, <1>6, <1>7, OtherStep

-----------------------------------------------------------------------------
(* The theorems. *)

LEMMA InvInit == Init => IInv
<1> SUFFICES ASSUME Init PROVE IInv
  OBVIOUS
<1>1. job = [w \in Workers |-> Idle] BY DEF Init
<1>2. job \in [Workers -> Jobs] /\ \A w \in Workers : job[w].pc = "idle" BY <1>1, IdleIsJob
<1>3. queued \in [Attempts -> Nat] BY DEF Init
<1>4. /\ faults \in 0 .. MaxFaults /\ breaks \in 0 .. MaxBreaks /\ retries \in 0 .. MaxRetries
  BY Bounds DEF Init
<1>5. TypeOK BY <1>2, <1>3, <1>4 DEF Init, TypeOK, Jobs
<1>6. OneExecution /\ VerdictsKnown /\ Attached
  BY <1>2 DEF OneExecution, Executing, InExecute, VerdictsKnown, Attached, At
<1>7. VerdictIsPersisted BY VerdictsApart DEF Init, VerdictIsPersisted
<1>8. KeyIsHeld /\ NotLost BY DEF Init, KeyIsHeld, NotLost
<1> QED BY <1>5, <1>6, <1>7, <1>8 DEF IInv

LEMMA InvNext == IInv /\ [Next]_vars => IInv'
<1> SUFFICES ASSUME IInv, [Next]_vars PROVE IInv'
  OBVIOUS
<1>1. CASE CallerStep BY <1>1, PublishStep, ReturnsPersisted, RowStep DEF CallerStep
<1>2. CASE DeadlinePasses \/ CheckRetry \/ CommitRetry \/ UNCHANGED vars BY <1>2, RowStep
<1>3. CASE CallerRaises BY <1>3, ReturnsPersisted
<1>4. ASSUME NEW w \in Workers, WorkerStep(w) PROVE IInv'
  <2>1. CASE Deliver(w) \/ Claim(w) \/ DropDuplicate(w)
    BY <2>1, DeliverStep, ClaimStep, DropDuplicateStep
  <2>2. CASE Begin(w) \/ AgentAnswers(w) \/ Persist(w) \/ SetFinalStatus(w) \/ StoreResult(w)
    BY <2>2, BeginStep, AnswerStep, PersistStep, FinalStatusStep, StoreResultStep
  <2>3. CASE Ack(w) \/ AckRaises(w) BY <2>3, AckStep, FailingStep
  <2>4. CASE DeleteKey(w) \/ Reject(w) \/ Republish(w) \/ AckOriginal(w)
    BY <2>4, DeleteKeyStep, RejectStep, RepublishStep, AckOriginalStep
  <2> QED BY <1>4, <2>1, <2>2, <2>3, <2>4 DEF WorkerStep
<1>5. ASSUME NEW w \in Workers, WorkerFault(w) PROVE IInv'
  BY <1>5, FailingStep, LeaveStep, LoseConnectionStep DEF WorkerFault
<1> QED BY <1>1, <1>2, <1>3, <1>4, <1>5 DEF Next

\* The inductive invariant holds in every state.
THEOREM Invariance == Spec => []IInv
BY InvInit, InvNext, PTL DEF Spec

\* The call, the queue, the keys, the row and the workers are well formed.
THEOREM TypeCorrect == Spec => []TypeOK
<1>1. IInv => TypeOK BY DEF IInv
<1> QED BY <1>1, Invariance, PTL

\* The key of Redis keeps an agent from being run twice at a time, whatever copies of
\* its message the broker holds.
THEOREM OneAtATime == Spec => []OneExecution
<1>1. IInv => OneExecution BY DEF IInv
<1> QED BY <1>1, Invariance, PTL

\* The call returns no verdict that is not in the database.
THEOREM PersistedFirst == Spec => []VerdictIsPersisted
<1>1. IInv => VerdictIsPersisted BY DEF IInv
<1> QED BY <1>1, Invariance, PTL

\* The retries lose no message: while nothing breaks, a message that nobody has any
\* more has left its result or is a dead letter.
THEOREM NothingIsLost == Spec => []ResultOrDeadLetter
<1>1. ASSUME IInv, breaks = 0, Consumed PROVE result # "none" \/ dead > 0
  <2>1. \A a \in Attempts : ~(queued[a] > 0) BY <1>1 DEF Consumed
  <2>2. \A w \in Workers : job[w].pc = "idle" BY <1>1 DEF Consumed, At
  <2> QED BY <1>1, <2>1, <2>2 DEF IInv, NotLost, Consumed
<1>2. IInv => ResultOrDeadLetter BY <1>1 DEF ResultOrDeadLetter
<1> QED BY <1>2, Invariance, PTL

-----------------------------------------------------------------------------
(* The budget of executions: those that the copies of the message can still  *)
(* cause are pairs of a copy and an attempt.                                 *)

\* The first attempt that the copy of a worker can still be executed with.
FirstLeft(w) ==
    IF job[w].pc \in {"received", "claimed"} THEN job[w].attempt
    ELSE IF job[w].pc \in {"idle", "republished"} THEN MaxAttempts + 1
    ELSE job[w].attempt + 1

Lefts == [w \in Workers |-> FirstLeft(w)]

\* Of the copies of a queue, as <<attempt, number of the copy>> and a later attempt,
InQueue(q) == {c \in (Attempts \X (Nat \ {0})) \X Attempts : c[1][2] <= q[c[1][1]] /\ c[1][1] <= c[2]}

\* and of the workers.
AtWorkers(left) == {s \in Workers \X Attempts : left[s[1]] <= s[2]}

Unsent == IF sent THEN 0 ELSE MaxAttempts

\* Every execution, past or possible, is paid for by the message or by a break.
Budget ==
    /\ caller \in {"create", "publish"} => ~sent
    /\ IsFiniteSet(InQueue(queued)) /\ IsFiniteSet(AtWorkers(Lefts))
    /\ executions + Cardinality(InQueue(queued)) + Cardinality(AtWorkers(Lefts)) + Unsent
         <= MaxAttempts * (1 + breaks)

\* A copy has as many pairs as attempts left.
LEMMA Column ==
  ASSUME NEW x, NEW l \in 1 .. MaxAttempts + 1, NEW S, IsFiniteSet(S),
         \A k : <<x, k>> \notin S
  PROVE  LET C == {x} \X (l .. MaxAttempts)
         IN  /\ IsFiniteSet(S \cup C)
             /\ Cardinality(S \cup C) = Cardinality(S) + (MaxAttempts + 1 - l)
<1> DEFINE C == {x} \X (l .. MaxAttempts)
<1>1. MaxAttempts \in Int /\ l \in Int /\ l <= MaxAttempts + 1 BY Bounds
<1>2. IsFiniteSet(l .. MaxAttempts) /\ Cardinality(l .. MaxAttempts) = MaxAttempts + 1 - l
  <2>1. /\ IsFiniteSet(l .. MaxAttempts)
        /\ Cardinality(l .. MaxAttempts) = IF l > MaxAttempts THEN 0 ELSE MaxAttempts - l + 1
    BY <1>1, FS_Interval, Zenon
  <2>2. Cardinality(l .. MaxAttempts) = MaxAttempts + 1 - l BY <1>1, <2>1
  <2> QED BY <2>1, <2>2
<1>3. IsFiniteSet({x}) /\ Cardinality({x}) = 1 BY FS_Singleton
<1>4. IsFiniteSet(C) /\ Cardinality(C) = MaxAttempts + 1 - l
  <2> DEFINE R == l .. MaxAttempts
             X == {x}
  <2>1. IsFiniteSet(R) /\ IsFiniteSet(X) BY <1>2, <1>3
  <2>2. Cardinality(R) = MaxAttempts + 1 - l /\ Cardinality(X) = 1 BY <1>2, <1>3
  <2> HIDE DEF R, X
  <2>3. IsFiniteSet(X \X R) /\ Cardinality(X \X R) = Cardinality(X) * Cardinality(R)
    BY <2>1, FS_Product, Zenon
  <2>4. Cardinality(X) * Cardinality(R) = MaxAttempts + 1 - l BY <1>1, <2>2
  <2> QED BY <2>3, <2>4 DEF R, X
<1>5. S \cap C = {} OBVIOUS
<1>6. /\ IsFiniteSet(S \cup C)
      /\ Cardinality(S \cup C) = Cardinality(S) + Cardinality(C) - Cardinality({})
  <2> HIDE DEF C
  <2>1. /\ IsFiniteSet(S \cup C)
        /\ Cardinality(S \cup C) = Cardinality(S) + Cardinality(C) - Cardinality(S \cap C)
    BY <1>4, FS_Union, Zenon
  <2> QED BY <1>5, <2>1
<1>7. Cardinality({}) = 0 /\ Cardinality(S) \in Nat BY FS_EmptySet, FS_CardinalityType
<1> QED BY <1>1, <1>4, <1>6, <1>7

\* One more copy in the queue.
LEMMA OneMoreCopy ==
  ASSUME NEW q \in [Attempts -> Nat], NEW r \in [Attempts -> Nat], NEW a \in Attempts,
         r = [q EXCEPT ![a] = q[a] + 1], IsFiniteSet(InQueue(q))
  PROVE  /\ IsFiniteSet(InQueue(r))
         /\ Cardinality(InQueue(r)) = Cardinality(InQueue(q)) + (MaxAttempts + 1 - a)
<1> DEFINE x == <<a, q[a] + 1>>
           C == {x} \X (a .. MaxAttempts)
<1>1. a \in 1 .. MaxAttempts + 1 /\ a \in Nat /\ MaxAttempts \in Nat BY Bounds DEF Attempts
<1>2. q[a] \in Nat /\ q[a] + 1 \in Nat \ {0} OBVIOUS
<1>3. \A k : <<x, k>> \notin InQueue(q) BY <1>2 DEF InQueue
<1>4. InQueue(r) = InQueue(q) \cup C
  <2>1. ASSUME NEW c \in InQueue(r) PROVE c \in InQueue(q) \cup C
    <3>1. PICK b \in Attempts, i \in Nat \ {0}, k \in Attempts :
            c = <<<<b, i>>, k>> /\ i <= r[b] /\ b <= k
      BY <2>1 DEF InQueue
    <3>2. CASE b = a /\ i = q[a] + 1 BY <3>1, <3>2, <1>1 DEF Attempts
    <3>3. CASE b = a /\ i # q[a] + 1
      <4>1. i <= q[a] BY <3>1, <3>3, <1>2
      <4> QED BY <3>1, <3>3, <4>1 DEF InQueue
    <3>4. CASE b # a BY <3>1, <3>4 DEF InQueue
    <3> QED BY <3>2, <3>3, <3>4
  <2>2. ASSUME NEW c \in InQueue(q) PROVE c \in InQueue(r)
    <3>1. PICK b \in Attempts, i \in Nat \ {0}, k \in Attempts :
            c = <<<<b, i>>, k>> /\ i <= q[b] /\ b <= k
      BY <2>2 DEF InQueue
    <3>2. q[b] \in Nat /\ r[b] \in Nat /\ q[b] <= r[b] BY <1>2
    <3>3. i <= r[b] BY <3>1, <3>2
    <3> QED BY <3>1, <3>3 DEF InQueue
  <2>3. ASSUME NEW c \in C PROVE c \in InQueue(r)
    <3>1. PICK k \in a .. MaxAttempts : c = <<x, k>> BY <2>3
    <3>2. k \in Attempts /\ a <= k BY <3>1, <1>1 DEF Attempts
    <3>3. r[a] = q[a] + 1 OBVIOUS
    <3>4. q[a] + 1 <= r[a] BY <3>3, <1>2
    <3> QED BY <3>1, <3>2, <3>4, <1>2 DEF InQueue
  <2> QED BY <2>1, <2>2, <2>3
<1> HIDE DEF x
<1>5. IsFiniteSet(InQueue(q) \cup C)
      /\ Cardinality(InQueue(q) \cup C) = Cardinality(InQueue(q)) + (MaxAttempts + 1 - a)
  BY <1>1, <1>3, Column, Zenon
<1> QED BY <1>4, <1>5

\* Another first attempt for the copy of a worker, or none.
LEMMA OtherLeft ==
  ASSUME NEW f \in [Workers -> 1 .. MaxAttempts + 1], NEW g \in [Workers -> 1 .. MaxAttempts + 1],
         NEW w \in Workers, \A v \in Workers : v # w => g[v] = f[v],
         IsFiniteSet(AtWorkers(f))
  PROVE  /\ IsFiniteSet(AtWorkers(g))
         /\ Cardinality(AtWorkers(g)) = Cardinality(AtWorkers(f)) + (f[w] - g[w])
<1> DEFINE Rest0 == {s \in AtWorkers(f) : s[1] # w}
           C(l) == {w} \X (l .. MaxAttempts)
<1>1. IsFiniteSet(Rest0) BY FS_Subset
<1>2. \A k : <<w, k>> \notin Rest0 OBVIOUS
<1>3. f[w] \in 1 .. MaxAttempts + 1 /\ g[w] \in 1 .. MaxAttempts + 1 OBVIOUS
<1>4. AtWorkers(f) = Rest0 \cup C(f[w])
  BY <1>3, Bounds DEF AtWorkers, Attempts
<1>5. AtWorkers(g) = Rest0 \cup C(g[w])
  BY <1>3, Bounds DEF AtWorkers, Attempts
<1> HIDE DEF Rest0
<1>6. ASSUME NEW l \in 1 .. MaxAttempts + 1
      PROVE  /\ IsFiniteSet(Rest0 \cup C(l))
             /\ Cardinality(Rest0 \cup C(l)) = Cardinality(Rest0) + (MaxAttempts + 1 - l)
  BY <1>1, <1>2, Column, Zenon
<1>7. /\ IsFiniteSet(AtWorkers(g))
      /\ Cardinality(AtWorkers(f)) = Cardinality(Rest0) + (MaxAttempts + 1 - f[w])
      /\ Cardinality(AtWorkers(g)) = Cardinality(Rest0) + (MaxAttempts + 1 - g[w])
  BY <1>3, <1>4, <1>5, <1>6
<1>8. Cardinality(Rest0) \in Nat /\ MaxAttempts \in Nat /\ f[w] \in Int /\ g[w] \in Int
  BY <1>1, <1>3, FS_CardinalityType, Bounds
<1> QED BY <1>7, <1>8

LEMMA LeftsTyped ==
  ASSUME TypeOK
  PROVE  /\ Lefts \in [Workers -> 1 .. MaxAttempts + 1]
         /\ \A w \in Workers : /\ FirstLeft(w) \in 1 .. MaxAttempts + 1
                               /\ FirstLeft(w) \in Int /\ FirstLeft(w) <= MaxAttempts + 1
<1>1. \A v \in Workers : job[v].attempt \in 1 .. MaxAttempts
  BY DEF TypeOK, Attempts
<1>2. ASSUME NEW v \in Workers PROVE FirstLeft(v) \in 1 .. MaxAttempts + 1
  <2>1. /\ job[v].attempt \in 1 .. MaxAttempts + 1
        /\ job[v].attempt + 1 \in 1 .. MaxAttempts + 1
        /\ MaxAttempts + 1 \in 1 .. MaxAttempts + 1
    BY <1>1, Bounds
  <2> QED BY <2>1 DEF FirstLeft
<1> QED BY <1>2, Bounds DEF Lefts

\* A step of one worker that takes no copy from the queue: what it gives up pays for
\* what it starts and for what it publishes.
LEMMA WorkerPays ==
  ASSUME TypeOK, TypeOK', Budget, NEW w \in Workers,
         \A v \in Workers : v # w => job'[v] = job[v], UNCHANGED <<caller, sent>>,
         NEW d \in Nat,
         IsFiniteSet(InQueue(queued')),
         Cardinality(InQueue(queued')) = Cardinality(InQueue(queued)) + d,
         executions' + d + MaxAttempts * (1 + breaks)
           <= executions + (FirstLeft(w)' - FirstLeft(w)) + MaxAttempts * (1 + breaks')
  PROVE  Budget'
<1> DEFINE m == MaxAttempts * (1 + breaks)
           n == MaxAttempts * (1 + breaks')
<1>1. Lefts \in [Workers -> 1 .. MaxAttempts + 1] /\ Lefts' \in [Workers -> 1 .. MaxAttempts + 1]
  <2>1. Lefts' \in [Workers -> 1 .. MaxAttempts + 1]
    <3>1. \A v \in Workers : job'[v].attempt \in 1 .. MaxAttempts
      BY DEF TypeOK, Attempts
    <3>2. \A v \in Workers : FirstLeft(v)' \in 1 .. MaxAttempts + 1
      BY <3>1, Bounds DEF FirstLeft
    <3> QED BY <3>2 DEF Lefts
  <2> QED BY <2>1, LeftsTyped
<1>2. \A v \in Workers : Lefts[v] = FirstLeft(v) /\ Lefts'[v] = FirstLeft(v)' BY DEF Lefts
<1>3. \A v \in Workers : v # w => Lefts'[v] = Lefts[v] BY <1>2 DEF FirstLeft
<1>4. IsFiniteSet(AtWorkers(Lefts)) BY DEF Budget
<1>5. /\ IsFiniteSet(AtWorkers(Lefts'))
      /\ Cardinality(AtWorkers(Lefts')) = Cardinality(AtWorkers(Lefts)) + (Lefts[w] - Lefts'[w])
  BY <1>1, <1>3, <1>4, OtherLeft, Zenon
<1>6. /\ Cardinality(AtWorkers(Lefts)) \in Nat /\ Cardinality(InQueue(queued)) \in Nat
      /\ executions \in Nat /\ executions' \in Nat
      /\ Lefts[w] \in Int /\ Lefts'[w] \in Int
  BY <1>1, <1>4, FS_CardinalityType DEF Budget, TypeOK
<1>7. m \in Int /\ n \in Int
  BY Bounds DEF TypeOK
<1>8. executions + Cardinality(InQueue(queued)) + Cardinality(AtWorkers(Lefts)) + Unsent <= m
  BY DEF Budget
<1>9. executions' + d + m <= executions + (Lefts'[w] - Lefts[w]) + n BY <1>2
<1>10. Unsent' = Unsent /\ Unsent \in Nat BY Bounds DEF Unsent, TypeOK
<1> HIDE DEF m, n
<1>11. executions' + Cardinality(InQueue(queued')) + Cardinality(AtWorkers(Lefts')) + Unsent' <= n
  BY <1>5, <1>6, <1>7, <1>8, <1>9, <1>10
<1> QED BY <1>5, <1>11 DEF Budget, n

\* A step that leaves the queue alone.
LEMMA WorkerSpends ==
  ASSUME TypeOK, TypeOK', Budget, NEW w \in Workers,
         \A v \in Workers : v # w => job'[v] = job[v],
         UNCHANGED <<caller, sent, queued, breaks>>,
         executions' <= executions + (FirstLeft(w)' - FirstLeft(w))
  PROVE  Budget'
<1> DEFINE m == MaxAttempts * (1 + breaks)
<1>1. m \in Int /\ executions \in Int /\ executions' \in Int
      /\ FirstLeft(w) \in Int /\ FirstLeft(w)' \in Int
  BY Bounds DEF TypeOK, FirstLeft, Attempts
<1>2. m' = m OBVIOUS
<1> HIDE DEF m
<1>3. executions' + 0 + m <= executions + (FirstLeft(w)' - FirstLeft(w)) + m BY <1>1
<1>4. Cardinality(InQueue(queued)) \in Nat /\ IsFiniteSet(InQueue(queued))
  BY FS_CardinalityType DEF Budget
<1>5. /\ IsFiniteSet(InQueue(queued'))
      /\ Cardinality(InQueue(queued')) = Cardinality(InQueue(queued)) + 0
  BY <1>4
<1> QED BY <1>2, <1>3, <1>5, WorkerPays, 0 \in Nat DEF m

\* The steps of a worker that take and publish nothing.
LEMMA QuietBudget ==
  ASSUME TypeOK, TypeOK', Budget, NEW w \in Workers,
         \/ Claim(w) \/ DropDuplicate(w) \/ Begin(w) \/ AgentAnswers(w) \/ Persist(w)
         \/ SetFinalStatus(w) \/ StoreResult(w) \/ Ack(w) \/ AckRaises(w)
         \/ DeleteKey(w) \/ Reject(w) \/ AckOriginal(w) \/ ExecuteRaises(w)
  PROVE  Budget'
<1> DEFINE Steps == job[w].pc \in InExecute \cup {"received", "failing", "unlocked", "republished"}
<1>1. UNCHANGED <<caller, sent, queued, breaks>>
  BY DEF Claim, DropDuplicate, Begin, AgentAnswers, Persist, SetFinalStatus, StoreResult, Ack,
         AckRaises, DeleteKey, Reject, AckOriginal, ExecuteRaises, orchestratorVars, brokerVars
<1>2. job \in [Workers -> Jobs] /\ job[w].attempt \in 1 .. MaxAttempts /\ executions \in Nat
  BY JobTyped DEF TypeOK, Attempts
<1>3. CASE Rest(w) /\ executions' = executions
  <2>1. job'[w].pc = "idle" /\ \A v \in Workers : v # w => job'[v] = job[v]
    BY <1>3, RestEffect
  <2>2. FirstLeft(w)' = MaxAttempts + 1 BY <2>1 DEF FirstLeft
  <2>3. FirstLeft(w) \in Int /\ FirstLeft(w) <= MaxAttempts + 1 BY LeftsTyped
  <2>4. executions' <= executions + (FirstLeft(w)' - FirstLeft(w))
    BY <1>2, <1>3, <2>2, <2>3, Bounds
  <2> QED BY <1>1, <2>1, <2>4, WorkerSpends
<1>4. CASE Claim(w)
  <2>1. At(w, "received") /\ Goto(w, "claimed") /\ executions' = executions
    BY <1>4 DEF Claim, history
  <2>2. /\ job'[w].pc = "claimed" /\ job'[w].attempt = job[w].attempt
        /\ \A v \in Workers : v # w => job'[v] = job[v]
    BY <2>1, GotoEffect DEF InExecute
  <2>3. FirstLeft(w)' = job[w].attempt /\ FirstLeft(w) = job[w].attempt
    BY <2>1, <2>2 DEF FirstLeft, At
  <2>4. executions' <= executions + (FirstLeft(w)' - FirstLeft(w)) BY <1>2, <2>1, <2>3
  <2> QED BY <1>1, <2>2, <2>4, WorkerSpends
<1>5. CASE Begin(w)
  <2>1. At(w, "claimed") /\ Goto(w, "running") /\ executions' = executions + 1
    BY <1>5 DEF Begin
  <2>2. /\ job'[w].pc = "running" /\ job'[w].attempt = job[w].attempt
        /\ \A v \in Workers : v # w => job'[v] = job[v]
    BY <2>1, GotoEffect DEF InExecute
  <2>3. FirstLeft(w)' = job[w].attempt + 1 /\ FirstLeft(w) = job[w].attempt
    BY <2>1, <2>2 DEF FirstLeft, At
  <2>4. executions' <= executions + (FirstLeft(w)' - FirstLeft(w)) BY <1>2, <2>1, <2>3
  <2> QED BY <1>1, <2>2, <2>4, WorkerSpends
<1>6. ASSUME executions' = executions, job[w].pc \in InExecute \cup {"failing"},
             job'[w].pc \in InExecute \cup {"failing", "unlocked"}, job'[w].pc # "claimed",
             job'[w].attempt = job[w].attempt,
             \A v \in Workers : v # w => job'[v] = job[v]
      PROVE  Budget'
  <2>1. FirstLeft(w)' = job[w].attempt + 1 BY <1>6 DEF FirstLeft, InExecute
  <2>2. FirstLeft(w) \in {job[w].attempt, job[w].attempt + 1} BY <1>6 DEF FirstLeft, InExecute
  <2>3. executions' <= executions + (FirstLeft(w)' - FirstLeft(w)) BY <1>2, <1>6, <2>1, <2>2
  <2> QED BY <1>1, <1>6, <2>3, WorkerSpends
<1>7. ASSUME NEW pc \in (InExecute \ {"claimed"}) \cup {"failing", "unlocked"}, Goto(w, pc),
             executions' = executions, job[w].pc \in InExecute \cup {"failing"}
      PROVE  Budget'
  <2>1. /\ job'[w].pc = pc /\ job'[w].attempt = job[w].attempt
        /\ \A v \in Workers : v # w => job'[v] = job[v]
    BY <1>7, GotoEffect
  <2>2. pc \in InExecute \cup {"failing", "unlocked"} /\ pc # "claimed" BY <1>7 DEF InExecute
  <2> QED BY <1>6, <1>7, <2>1, <2>2
<1>8. CASE AgentAnswers(w)
  <2>1. PICK v \in Verdicts : job' = [job EXCEPT ![w].pc = "answered", ![w].verdict = v]
    BY <1>8 DEF AgentAnswers
  <2>2. job[w] \in Jobs BY JobTyped
  <2>3. job'[w] = [job[w] EXCEPT !.pc = "answered", !.verdict = v] BY <1>2, <2>1
  <2>4. job'[w].pc = "answered" /\ job'[w].attempt = job[w].attempt BY <2>2, <2>3 DEF Jobs
  <2>5. \A u \in Workers : u # w => job'[u] = job[u] BY <1>2, <2>1
  <2>6. executions' = executions /\ job[w].pc = "running" BY <1>8 DEF AgentAnswers, history, At
  <2> QED BY <1>6, <2>4, <2>5, <2>6 DEF InExecute
<1>9. CASE Persist(w) \/ SetFinalStatus(w) \/ StoreResult(w) \/ AckRaises(w) \/ ExecuteRaises(w)
           \/ DeleteKey(w)
  <2>1. executions' = executions /\ job[w].pc \in InExecute \cup {"failing"}
    BY <1>9 DEF Persist, SetFinalStatus, StoreResult, AckRaises, ExecuteRaises, DeleteKey, history,
                At, InExecute
  <2>2. \E pc \in (InExecute \ {"claimed"}) \cup {"failing", "unlocked"} : Goto(w, pc)
    BY <1>9 DEF Persist, SetFinalStatus, StoreResult, AckRaises, ExecuteRaises, DeleteKey, InExecute
  <2> QED BY <1>7, <2>1, <2>2
<1>10. CASE DropDuplicate(w) \/ Ack(w) \/ Reject(w) \/ AckOriginal(w)
  BY <1>3, <1>10 DEF DropDuplicate, Ack, Reject, AckOriginal, history
<1> QED BY <1>4, <1>5, <1>8, <1>9, <1>10

LEMMA DeliverBudget ==
  ASSUME TypeOK, TypeOK', Budget, NEW w \in Workers, Deliver(w)
  PROVE  Budget'
<1>1. PICK a \in Attempts :
        /\ queued[a] > 0 /\ queued' = [queued EXCEPT ![a] = @ - 1]
        /\ job' = [job EXCEPT ![w] = [pc |-> "received", attempt |-> a,
                                      verdict |-> "none", attached |-> TRUE]]
  BY DEF Deliver
<1>2. queued \in [Attempts -> Nat] /\ queued' \in [Attempts -> Nat] /\ job \in [Workers -> Jobs]
  BY JobTyped DEF TypeOK
<1>3. queued[a] \in Nat /\ queued'[a] = queued[a] - 1 /\ queued = [queued' EXCEPT ![a] = queued'[a] + 1]
  <2> DEFINE r == [queued' EXCEPT ![a] = queued'[a] + 1]
  <2>1. queued[a] \in Nat /\ queued[a] # 0 BY <1>1, <1>2
  <2>2. queued' = [queued EXCEPT ![a] = queued[a] - 1] BY <1>1, <1>2
  <2>3. queued'[a] = queued[a] - 1 /\ \A b \in Attempts : b # a => queued'[b] = queued[b]
    BY <1>2, <2>2
  <2>4. queued'[a] + 1 = queued[a] BY <2>1, <2>3
  <2>5. r = [queued' EXCEPT ![a] = queued[a]] BY <2>4
  <2>6. \A b \in Attempts : r[b] = queued[b] BY <1>2, <2>3, <2>5
  <2>7. r \in [Attempts -> Nat] BY <1>2, <2>1, <2>5
  <2> HIDE DEF r
  <2>8. r = queued BY <1>2, <2>6, <2>7
  <2> QED BY <2>1, <2>3, <2>8 DEF r
<1>4. InQueue(queued') \subseteq InQueue(queued)
  <2> SUFFICES ASSUME NEW c \in InQueue(queued') PROVE c \in InQueue(queued)
    OBVIOUS
  <2>1. PICK b \in Attempts, i \in Nat \ {0}, k \in Attempts :
          c = <<<<b, i>>, k>> /\ i <= queued'[b] /\ b <= k
    BY DEF InQueue
  <2>2. queued[b] \in Nat /\ queued'[b] \in Nat /\ queued'[b] <= queued[b] BY <1>1, <1>2, <1>3
  <2>3. i <= queued[b] BY <2>1, <2>2
  <2> QED BY <2>1, <2>3 DEF InQueue
<1>5. IsFiniteSet(InQueue(queued')) BY <1>4, FS_Subset DEF Budget
<1>6. Cardinality(InQueue(queued)) = Cardinality(InQueue(queued')) + (MaxAttempts + 1 - a)
  BY <1>2, <1>3, <1>5, OneMoreCopy, Zenon
<1>7. job'[w].pc = "received" /\ job'[w].attempt = a /\ \A v \in Workers : v # w => job'[v] = job[v]
  BY <1>1, <1>2
<1>8. FirstLeft(w) = MaxAttempts + 1 BY DEF Deliver, At, FirstLeft
<1>9. FirstLeft(w)' = a BY <1>7 DEF FirstLeft
<1>10. Lefts \in [Workers -> 1 .. MaxAttempts + 1] /\ Lefts' \in [Workers -> 1 .. MaxAttempts + 1]
  <2>1. \A v \in Workers : job'[v].attempt \in 1 .. MaxAttempts
    BY DEF TypeOK, Attempts
  <2>2. \A v \in Workers : FirstLeft(v)' \in 1 .. MaxAttempts + 1
    BY <2>1, Bounds DEF FirstLeft
  <2> QED BY <2>2, LeftsTyped DEF Lefts
<1>11. \A v \in Workers : v # w => Lefts'[v] = Lefts[v] BY <1>7 DEF Lefts, FirstLeft
<1>12. IsFiniteSet(AtWorkers(Lefts)) BY DEF Budget
<1>13. /\ IsFiniteSet(AtWorkers(Lefts'))
       /\ Cardinality(AtWorkers(Lefts')) = Cardinality(AtWorkers(Lefts)) + (Lefts[w] - Lefts'[w])
  BY <1>10, <1>11, <1>12, OtherLeft, Zenon
<1>14. Lefts[w] - Lefts'[w] = MaxAttempts + 1 - a
  <2>1. Lefts[w] = FirstLeft(w) /\ Lefts'[w] = FirstLeft(w)' BY DEF Lefts
  <2>2. Lefts[w] = MaxAttempts + 1 /\ Lefts'[w] = a BY <1>8, <1>9, <2>1, Zenon
  <2> QED BY <2>2, Bounds DEF Attempts
<1>15. /\ Cardinality(AtWorkers(Lefts)) \in Nat /\ Cardinality(InQueue(queued')) \in Nat
       /\ MaxAttempts + 1 - a \in Int
  BY <1>5, <1>12, FS_CardinalityType, Bounds DEF Attempts
<1>16. Cardinality(InQueue(queued')) + Cardinality(AtWorkers(Lefts'))
         = Cardinality(InQueue(queued)) + Cardinality(AtWorkers(Lefts))
  BY <1>6, <1>13, <1>14, <1>15
<1>17. UNCHANGED <<caller, sent, breaks, executions>> BY DEF Deliver, orchestratorVars, history
<1>18. executions \in Nat /\ Unsent \in Nat /\ Unsent' = Unsent
       /\ Cardinality(AtWorkers(Lefts')) \in Nat /\ Cardinality(InQueue(queued)) \in Nat
  BY <1>13, <1>17, FS_CardinalityType, Bounds DEF TypeOK, Unsent, Budget
<1>19. executions' + Cardinality(InQueue(queued')) + Cardinality(AtWorkers(Lefts')) + Unsent'
         = executions + Cardinality(InQueue(queued)) + Cardinality(AtWorkers(Lefts)) + Unsent
  BY <1>15, <1>16, <1>17, <1>18
<1> QED BY <1>5, <1>13, <1>17, <1>19 DEF Budget

\* What a copy put into the queue adds, for the attempt it has.
LEMMA PutCopy ==
  ASSUME TypeOK, Budget, NEW a \in Attempts, queued' = [queued EXCEPT ![a] = queued[a] + 1]
  PROVE  /\ IsFiniteSet(InQueue(queued')) /\ MaxAttempts + 1 - a \in Nat
         /\ Cardinality(InQueue(queued')) = Cardinality(InQueue(queued)) + (MaxAttempts + 1 - a)
<1>1. queued \in [Attempts -> Nat] BY QueuesTyped
<1>2. queued' \in [Attempts -> Nat]
  <2>1. queued[a] + 1 \in Nat BY <1>1
  <2> QED BY <1>1, <2>1
<1>3. IsFiniteSet(InQueue(queued)) BY DEF Budget
<1>4. MaxAttempts + 1 - a \in Nat BY Bounds DEF Attempts
<1> QED BY <1>1, <1>2, <1>3, <1>4, OneMoreCopy, Zenon

\* The copy of the next attempt has one execution less left than the failed one.
LEMMA RepublishBudget ==
  ASSUME TypeOK, TypeOK', Budget, NEW w \in Workers, Republish(w)
  PROVE  Budget'
<1> DEFINE a == job[w].attempt
           m == MaxAttempts * (1 + breaks)
<1>1. Goto(w, "republished") /\ At(w, "unlocked") BY DEF Republish
<1>2. job'[w].pc = "republished" /\ \A v \in Workers : v # w => job'[v] = job[v]
  BY <1>1, GotoEffect
<1>3. a \in Attempts /\ a < MaxAttempts /\ MaxAttempts \in Nat
  BY JobTyped, Bounds DEF Republish
<1>4. a + 1 \in Attempts /\ MaxAttempts + 1 - (a + 1) = MaxAttempts - a
  BY <1>3 DEF Attempts
<1>5. queued \in [Attempts -> Nat] BY QueuesTyped
<1>6. queued' = [queued EXCEPT ![a + 1] = queued[a + 1] + 1] BY <1>4, <1>5 DEF Republish
<1>7. /\ IsFiniteSet(InQueue(queued')) /\ MaxAttempts - a \in Nat
      /\ Cardinality(InQueue(queued')) = Cardinality(InQueue(queued)) + (MaxAttempts - a)
  <2> HIDE DEF a
  <2> QED BY <1>4, <1>6, PutCopy
<1>8. FirstLeft(w)' = MaxAttempts + 1 /\ FirstLeft(w) = a + 1
  BY <1>1, <1>2 DEF FirstLeft, At, InExecute
<1>9. UNCHANGED <<caller, sent, breaks, executions>> BY DEF Republish, orchestratorVars, history
<1>10. m \in Int /\ m' = m /\ executions \in Nat BY <1>9, Bounds DEF TypeOK
<1> HIDE DEF m
<1>11. executions' + (MaxAttempts - a) + m <= executions + (FirstLeft(w)' - FirstLeft(w)) + m'
  BY <1>3, <1>8, <1>9, <1>10 DEF Attempts
<1> HIDE DEF a
<1> QED BY <1>2, <1>7, <1>9, <1>11, WorkerPays DEF m

\* The copy a broken worker gives back has its attempts again: the break pays.
LEMMA BreakBudget ==
  ASSUME TypeOK, TypeOK', Budget, NEW w \in Workers,
         HandleRaises(w) \/ Crash(w) \/ LoseConnection(w)
  PROVE  Budget'
<1> DEFINE a == job[w].attempt
           d == IF job[w].attached THEN MaxAttempts + 1 - a ELSE 0
           m == MaxAttempts * (1 + breaks)
           n == MaxAttempts * (1 + breaks')
<1>1. /\ breaks' = breaks + 1 /\ Requeue(w)
      /\ Rest(w) \/ job' = [job EXCEPT ![w].attached = FALSE]
      /\ UNCHANGED <<caller, sent, executions>>
  BY DEF HandleRaises, Crash, LoseConnection, orchestratorVars, history
<1>2. job \in [Workers -> Jobs] /\ job[w] \in Jobs /\ a \in Attempts BY JobTyped
<1>3. /\ \A v \in Workers : v # w => job'[v] = job[v]
      /\ \/ job'[w].pc = "idle"
         \/ job'[w].pc = job[w].pc /\ job'[w].attempt = job[w].attempt
  <2>1. CASE Rest(w) BY <2>1, RestEffect
  <2>2. CASE job' = [job EXCEPT ![w].attached = FALSE]
    <3>1. job' = [job EXCEPT ![w] = [job[w] EXCEPT !.attached = FALSE]] BY <1>2, <2>2
    <3>2. job'[w] = [job[w] EXCEPT !.attached = FALSE] BY <1>2, <3>1
    <3>3. job'[w].pc = job[w].pc /\ job'[w].attempt = job[w].attempt BY <1>2, <3>2 DEF Jobs
    <3>4. \A v \in Workers : v # w => job'[v] = job[v] BY <1>2, <3>1
    <3> QED BY <3>3, <3>4
  <2> QED BY <1>1, <2>1, <2>2
<1>4. FirstLeft(w) <= FirstLeft(w)' /\ FirstLeft(w) \in Int /\ FirstLeft(w)' \in Int
  <2>1. FirstLeft(w) \in Int /\ FirstLeft(w) <= MaxAttempts + 1 BY LeftsTyped
  <2>2. FirstLeft(w)' \in {MaxAttempts + 1, FirstLeft(w)} BY <1>3 DEF FirstLeft
  <2> QED BY <2>1, <2>2, Bounds
<1>5. d \in Nat /\ d <= MaxAttempts BY <1>2, Bounds DEF Attempts
<1>6. /\ IsFiniteSet(InQueue(queued'))
      /\ Cardinality(InQueue(queued')) = Cardinality(InQueue(queued)) + d
  <2>1. queued \in [Attempts -> Nat] BY QueuesTyped
  <2>2. CASE job[w].attached
    <3>1. queued' = [queued EXCEPT ![a] = queued[a] + 1] BY <1>1, <1>2, <2>1, <2>2 DEF Requeue
    <3> HIDE DEF a
    <3> QED BY <1>2, <2>2, <3>1, PutCopy
  <2>3. CASE ~job[w].attached
    <3>1. queued' = queued BY <1>1, <1>2, <2>1, <2>3 DEF Requeue
    <3>2. IsFiniteSet(InQueue(queued)) /\ Cardinality(InQueue(queued)) \in Nat
      BY FS_CardinalityType DEF Budget
    <3> QED BY <2>3, <3>1, <3>2
  <2> QED BY <2>2, <2>3
<1>7. n = m + MaxAttempts /\ m \in Int /\ n \in Int /\ executions \in Nat
  <2>1. breaks \in Nat /\ MaxAttempts \in Nat BY QueuesTyped, Bounds
  <2>2. MaxAttempts * (1 + (breaks + 1)) = MaxAttempts * (1 + breaks) + MaxAttempts BY <2>1
  <2> QED BY <1>1, <2>1, <2>2 DEF TypeOK
<1> HIDE DEF d, m, n, a
<1>8. executions' + d + m <= executions + (FirstLeft(w)' - FirstLeft(w)) + n
  BY <1>1, <1>4, <1>5, <1>7, Bounds
<1> QED BY <1>1, <1>3, <1>5, <1>6, <1>8, WorkerPays DEF m, n

\* The command is the first copy.
LEMMA PublishBudget == ASSUME TypeOK, TypeOK', Budget, Publish PROVE Budget'
<1>1. queued \in [Attempts -> Nat] BY QueuesTyped
<1>2. queued' = [queued EXCEPT ![1] = queued[1] + 1] BY <1>1, Bounds DEF Publish
<1>3. /\ IsFiniteSet(InQueue(queued'))
      /\ Cardinality(InQueue(queued')) = Cardinality(InQueue(queued)) + (MaxAttempts + 1 - 1)
  BY <1>2, PutCopy, Bounds
<1>4. UNCHANGED <<executions, job, breaks>> /\ caller' = "result" BY DEF Publish, history
<1>5. Unsent = MaxAttempts /\ Unsent' = 0 BY DEF Publish, Budget, Unsent
<1>6. Lefts' = Lefts BY <1>4 DEF Lefts, FirstLeft
<1>7. /\ Cardinality(AtWorkers(Lefts)) \in Nat /\ Cardinality(InQueue(queued)) \in Nat
      /\ executions \in Nat /\ MaxAttempts \in Nat
  BY FS_CardinalityType, Bounds DEF Budget, TypeOK
<1>8. executions' + Cardinality(InQueue(queued')) + Cardinality(AtWorkers(Lefts')) + Unsent'
        = executions + Cardinality(InQueue(queued)) + Cardinality(AtWorkers(Lefts)) + Unsent
  BY <1>3, <1>4, <1>5, <1>6, <1>7
<1> QED BY <1>3, <1>4, <1>6, <1>8 DEF Budget

\* Nothing else touches the copies.
LEMMA IdleBudget ==
  ASSUME Budget, UNCHANGED <<executions, job, queued, breaks, sent>>,
         caller' \in {"create", "publish"} => caller \in {"create", "publish"}
  PROVE  Budget'
<1>1. Lefts' = Lefts BY DEF Lefts, FirstLeft
<1>2. Unsent' = Unsent BY DEF Unsent
<1> QED BY <1>1, <1>2 DEF Budget

LEMMA BudgetInit == ASSUME Init PROVE Budget
<1>1. InQueue(queued) = {} BY DEF Init, InQueue
<1>2. \A w \in Workers : Lefts[w] = MaxAttempts + 1 BY DEF Init, Idle, Lefts, FirstLeft
<1>3. AtWorkers(Lefts) = {} BY <1>2, Bounds DEF AtWorkers, Attempts
<1>4. IsFiniteSet({}) /\ Cardinality({}) = 0 BY FS_EmptySet
<1>5. executions = 0 /\ breaks = 0 /\ ~sent BY DEF Init
<1>6. executions + Cardinality({}) + Cardinality({}) + Unsent <= MaxAttempts * (1 + breaks)
  BY <1>4, <1>5, Bounds DEF Unsent
<1> QED BY <1>1, <1>3, <1>4, <1>5, <1>6 DEF Budget

LEMMA BudgetNext == TypeOK /\ TypeOK' /\ Budget /\ [Next]_vars => Budget'
<1> SUFFICES ASSUME TypeOK, TypeOK', Budget, [Next]_vars PROVE Budget'
  OBVIOUS
<1>1. CASE Publish BY <1>1, PublishBudget
<1>2. CASE \/ CreateTask \/ ReadResult \/ ReadStatus \/ TimeOut \/ DeadlinePasses \/ CallerRaises
           \/ CheckRetry \/ CommitRetry \/ UNCHANGED vars
  <2>1. UNCHANGED <<executions, job, queued, breaks, sent>>
    BY <1>2 DEF CreateTask, ReadResult, ReadStatus, TimeOut, DeadlinePasses, CallerRaises,
                CheckRetry, CommitRetry, vars, orchestratorVars, brokerVars, history
  <2>2. caller' \in {"create", "publish"} => caller \in {"create", "publish"}
    BY <1>2 DEF CreateTask, ReadResult, ReadStatus, TimeOut, DeadlinePasses, CallerRaises, Return,
                CheckRetry, CommitRetry, vars, orchestratorVars
  <2> QED BY <2>1, <2>2, IdleBudget
<1>3. ASSUME NEW w \in Workers, WorkerStep(w) PROVE Budget'
  BY <1>3, DeliverBudget, RepublishBudget, QuietBudget DEF WorkerStep
<1>4. ASSUME NEW w \in Workers, WorkerFault(w) PROVE Budget'
  BY <1>4, QuietBudget, BreakBudget DEF WorkerFault
<1> QED BY <1>1, <1>2, <1>3, <1>4 DEF Next, CallerStep

\* A message causes at most MaxAttempts executions, and as many again for each crash,
\* lost connection or exception that gives a copy of it back to the broker.
THEOREM BudgetKept == Spec => []ExecutionBudget
<1>1. Init => TypeOK /\ Budget BY BudgetInit, InvInit DEF IInv
<1>2. IInv /\ IInv' /\ Budget /\ [Next]_vars => Budget' BY BudgetNext DEF IInv
<1>3. IInv /\ Budget => ExecutionBudget
  <2> SUFFICES ASSUME IInv, Budget PROVE ExecutionBudget
    OBVIOUS
  <2>1. /\ Cardinality(InQueue(queued)) \in Nat /\ Cardinality(AtWorkers(Lefts)) \in Nat
        /\ Unsent \in Nat /\ executions \in Nat /\ MaxAttempts * (1 + breaks) \in Int
    BY FS_CardinalityType, Bounds DEF Budget, IInv, TypeOK, Unsent
  <2> QED BY <2>1 DEF Budget, ExecutionBudget
<1> QED BY <1>1, <1>2, <1>3, Invariance, PTL DEF Spec

-----------------------------------------------------------------------------
(* The refinement of ExclusiveExecution. *)

\* A call that goes on has not returned.
Unreturned == caller # "returned" => outcome = "none"

Refined == [Execution!Next]_(Execution!vars)

LEMMA StutterRefines == ASSUME UNCHANGED <<Executing, Kept, persisted, result, outcome>> PROVE Refined
BY DEF Refined, Execution!vars

\* A worker that does not execute the task, before the step or after it.
LEMMA BystanderMoves ==
  ASSUME NEW w \in Workers, \A v \in Workers : v # w => job'[v] = job[v],
         job[w].pc \notin Holding, job'[w].pc \notin Holding
  PROVE  Executing' = Executing /\ Kept' = Kept
<1>1. Executing' = Executing BY DEF Executing, Holding
<1>2. Keeping' = Keeping BY DEF Keeping, Holding, InExecute
<1>3. w \notin Keeping BY DEF Keeping, Holding, InExecute
<1>4. \A v \in Keeping : job'[v].verdict = job[v].verdict BY <1>3 DEF Keeping
<1>5. Kept' = {job'[v].verdict : v \in Keeping} BY <1>2 DEF Kept
<1>6. ASSUME NEW x PROVE x \in Kept' <=> x \in Kept
  <2>1. x \in Kept' <=> \E v \in Keeping : x = job'[v].verdict BY <1>5
  <2>2. x \in Kept <=> \E v \in Keeping : x = job[v].verdict BY DEF Kept
  <2> QED BY <1>4, <2>1, <2>2
<1>7. Kept' = Kept BY <1>6
<1> QED BY <1>1, <1>7

\* What the worker that executes the task keeps.
KeptBy(j) == IF j.pc \in {"persisted", "statused", "stored"} THEN {j.verdict} ELSE {}

LEMMA OwnerMoves ==
  ASSUME IInv, NEW w \in Workers, \A v \in Workers : v # w => job'[v] = job[v],
         job[w].pc \in Holding
  PROVE  /\ Executing = {w} /\ Kept = KeptBy(job[w])
         /\ Executing' = (IF job'[w].pc \in Holding THEN {w} ELSE {})
         /\ Kept' = KeptBy(job'[w])
<1>1. \A v \in Workers : v # w => job[v].pc \notin Holding BY Owner
<1>2. \A v \in Workers : v # w => job'[v].pc \notin Holding BY <1>1
<1>3. Executing = {w} BY <1>1 DEF Executing, Holding
<1>4. Executing' = (IF job'[w].pc \in Holding THEN {w} ELSE {}) BY <1>2 DEF Executing, Holding
<1>5. Keeping = IF job[w].pc \in {"persisted", "statused", "stored"} THEN {w} ELSE {}
  BY <1>1 DEF Keeping, Holding, InExecute
<1>6. Keeping' = IF job'[w].pc \in {"persisted", "statused", "stored"} THEN {w} ELSE {}
  BY <1>2 DEF Keeping, Holding, InExecute
<1>7. Kept = KeptBy(job[w]) BY <1>5 DEF Kept, KeptBy
<1>8. Kept' = KeptBy(job'[w]) BY <1>6 DEF Kept, KeptBy
<1> QED BY <1>3, <1>4, <1>7, <1>8

LEMMA ClaimRefines == ASSUME IInv, NEW w \in Workers, Claim(w) PROVE Refined
<1>1. TypeOK /\ Goto(w, "claimed") /\ job[w].pc = "received" /\ ~processed
      /\ UNCHANGED <<persisted, result, outcome>>
  BY DEF Claim, At, IInv, orchestratorVars, history
<1>2. job'[w].pc = "claimed" /\ \A v \in Workers : v # w => job'[v] = job[v]
  BY <1>1, GotoEffect DEF InExecute
<1>3. \A v \in Workers : job[v].pc \notin Holding
  BY <1>1 DEF IInv, OneExecution, Executing, Holding
<1>4. Executing = {} BY <1>3 DEF Executing, Holding
<1>5. Executing' = {w} BY <1>2, <1>3 DEF Executing, Holding, InExecute
<1>6. Kept = {} /\ Kept' = {} BY <1>2, <1>3 DEF Kept, Keeping, Holding, InExecute
<1>7. Execution!Start(w) BY <1>1, <1>4, <1>5, <1>6 DEF Execution!Start
<1> QED BY <1>7 DEF Refined, Execution!Next

\* The execution ends: its worker acknowledges, deletes the key, or is gone.
LEMMA StopRefines ==
  ASSUME IInv, NEW w \in Workers, \A v \in Workers : v # w => job'[v] = job[v],
         job'[w].pc \notin Holding, UNCHANGED <<persisted, result, outcome>>
  PROVE  Refined
<1>1. CASE job[w].pc \notin Holding
  <2>1. Executing' = Executing /\ Kept' = Kept BY <1>1, BystanderMoves
  <2> QED BY <2>1, StutterRefines
<1>2. CASE job[w].pc \in Holding
  <2>1. Executing' = {} /\ Kept' = {} BY <1>2, OwnerMoves DEF KeptBy, Holding, InExecute
  <2>2. Execution!Stop BY <2>1 DEF Execution!Stop
  <2> QED BY <2>2 DEF Refined, Execution!Next
<1> QED BY <1>1, <1>2

\* The moves of an execution, by where they go.
LEMMA ExecuteRefines ==
  ASSUME IInv, NEW w \in Workers,
         \/ Begin(w) \/ AgentAnswers(w) \/ Persist(w) \/ SetFinalStatus(w) \/ StoreResult(w)
         \/ AckRaises(w) \/ ExecuteRaises(w)
  PROVE  Refined
<1>1. TypeOK /\ job \in [Workers -> Jobs] /\ job[w] \in Jobs BY JobTyped DEF IInv
<1>2. ASSUME NEW pc \in Holding, Goto(w, pc), job[w].pc \in Holding
      PROVE  /\ Executing = {w} /\ Executing' = {w} /\ Kept = KeptBy(job[w])
             /\ Kept' = IF pc \in {"persisted", "statused", "stored"} THEN {job[w].verdict} ELSE {}
             /\ job'[w].pc = pc
  <2>1. /\ job'[w].pc = pc /\ job'[w].verdict = job[w].verdict
        /\ \A v \in Workers : v # w => job'[v] = job[v]
    BY <1>1, <1>2, GotoEffect DEF Holding
  <2> QED BY <1>2, <2>1, OwnerMoves DEF KeptBy
<1>3. CASE Begin(w)
  <2>1. /\ Goto(w, "running") /\ job[w].pc = "claimed" /\ UNCHANGED <<persisted, result, outcome>>
    BY <1>3 DEF Begin, At, orchestratorVars, redisVars
  <2>2. Executing' = Executing /\ Kept' = Kept
    BY <1>2, <2>1 DEF Holding, InExecute, KeptBy
  <2> QED BY <2>1, <2>2, StutterRefines
<1>4. CASE AgentAnswers(w)
  <2>1. PICK v \in Verdicts : job' = [job EXCEPT ![w].pc = "answered", ![w].verdict = v]
    BY <1>4 DEF AgentAnswers
  <2>2. job'[w] = [job[w] EXCEPT !.pc = "answered", !.verdict = v] BY <1>1, <2>1
  <2>3. job'[w].pc = "answered" BY <1>1, <2>2 DEF Jobs
  <2>4. \A u \in Workers : u # w => job'[u] = job[u] BY <1>1, <2>1
  <2>5. job[w].pc = "running" /\ UNCHANGED <<persisted, result, outcome>>
    BY <1>4 DEF AgentAnswers, At, orchestratorVars, redisVars, history
  <2>6. Executing' = Executing /\ Kept' = Kept
    BY <2>3, <2>4, <2>5, OwnerMoves DEF Holding, InExecute, KeptBy
  <2> QED BY <2>5, <2>6, StutterRefines
<1>5. CASE Persist(w)
  <2>1. /\ Goto(w, "persisted") /\ job[w].pc = "answered" /\ persisted' = persisted \cup {job[w].verdict}
        /\ UNCHANGED <<result, outcome>>
    BY <1>5 DEF Persist, At, orchestratorVars, redisVars
  <2>2. Executing = {w} /\ Executing' = {w} /\ Kept = {} /\ Kept' = {job[w].verdict}
    BY <1>2, <2>1 DEF Holding, InExecute, KeptBy
  <2>3. job[w].verdict \in Verdicts BY <2>1 DEF IInv, VerdictsKnown, At
  <2>4. Execution!Store(job[w].verdict) BY <2>1, <2>2 DEF Execution!Store
  <2> QED BY <2>3, <2>4 DEF Refined, Execution!Next
<1>6. CASE SetFinalStatus(w)
  <2>1. /\ Goto(w, "statused") /\ job[w].pc = "persisted" /\ UNCHANGED <<persisted, result, outcome>>
    BY <1>6 DEF SetFinalStatus, At, orchestratorVars, redisVars, history
  <2>2. Executing' = Executing /\ Kept' = Kept
    BY <1>2, <2>1 DEF Holding, InExecute, KeptBy
  <2> QED BY <2>1, <2>2, StutterRefines
<1>7. CASE StoreResult(w)
  <2>1. /\ Goto(w, "stored") /\ job[w].pc = "statused" /\ result' = job[w].verdict
        /\ UNCHANGED <<persisted, outcome>>
    BY <1>7 DEF StoreResult, At, orchestratorVars, history
  <2>2. Executing' = Executing /\ Kept = {job[w].verdict} /\ Kept' = Kept
    BY <1>2, <2>1 DEF Holding, InExecute, KeptBy
  <2>3. Execution!Answer BY <2>1, <2>2 DEF Execution!Answer
  <2> QED BY <2>3 DEF Refined, Execution!Next
<1>8. CASE AckRaises(w) \/ ExecuteRaises(w)
  <2>1. /\ Goto(w, "failing") /\ job[w].pc \in Holding /\ UNCHANGED <<persisted, result, outcome>>
    BY <1>8 DEF AckRaises, ExecuteRaises, At, Holding, InExecute, orchestratorVars, redisVars, history
  <2>2. Executing' = Executing /\ Kept' = {}
    BY <1>2, <2>1 DEF Holding, InExecute
  <2>3. Execution!Abandon BY <2>1, <2>2 DEF Execution!Abandon
  <2> QED BY <2>3 DEF Refined, Execution!Next
<1> QED BY <1>3, <1>4, <1>5, <1>6, <1>7, <1>8

\* The moves that leave a worker without the execution.
LEMMA LeaveRefines ==
  ASSUME IInv, NEW w \in Workers,
         \/ Deliver(w) \/ DropDuplicate(w) \/ Ack(w) \/ DeleteKey(w) \/ Reject(w) \/ Republish(w)
         \/ AckOriginal(w) \/ HandleRaises(w) \/ Crash(w)
  PROVE  Refined
<1>1. TypeOK /\ job \in [Workers -> Jobs] BY JobTyped DEF IInv
<1>2. UNCHANGED <<persisted, result, outcome>>
  BY DEF Deliver, DropDuplicate, Ack, DeleteKey, Reject, Republish, AckOriginal, HandleRaises, Crash,
         orchestratorVars, redisVars, history
<1>3. CASE Rest(w)
  <2>1. job'[w].pc = "idle" /\ \A v \in Workers : v # w => job'[v] = job[v]
    BY <1>1, <1>3, RestEffect
  <2> QED BY <1>2, <2>1, StopRefines DEF Holding, InExecute
<1>4. ASSUME NEW pc \in {"unlocked", "republished"}, Goto(w, pc) PROVE Refined
  <2>1. job'[w].pc = pc /\ \A v \in Workers : v # w => job'[v] = job[v]
    BY <1>1, <1>4, GotoEffect
  <2> QED BY <1>2, <2>1, StopRefines DEF Holding, InExecute
<1>5. CASE Deliver(w)
  <2>1. PICK a \in Attempts : job' = [job EXCEPT ![w] = [pc |-> "received", attempt |-> a,
                                                         verdict |-> "none", attached |-> TRUE]]
    BY <1>5 DEF Deliver
  <2>2. job'[w].pc = "received" /\ \A v \in Workers : v # w => job'[v] = job[v] BY <1>1, <2>1
  <2> QED BY <1>2, <2>2, StopRefines DEF Holding, InExecute
<1> QED
  BY <1>3, <1>4, <1>5 DEF DropDuplicate, Ack, DeleteKey, Reject, Republish, AckOriginal,
                          HandleRaises, Crash

\* A lost connection is not noticed by the execution.
LEMMA LoseRefines == ASSUME IInv, NEW w \in Workers, LoseConnection(w) PROVE Refined
<1>1. job \in [Workers -> Jobs] /\ job[w] \in Jobs BY JobTyped DEF IInv
<1>2. job' = [job EXCEPT ![w] = [job[w] EXCEPT !.attached = FALSE]] BY <1>1 DEF LoseConnection
<1>3. job'[w] = [job[w] EXCEPT !.attached = FALSE] BY <1>1, <1>2
<1>4. job'[w].pc = job[w].pc /\ job'[w].verdict = job[w].verdict BY <1>1, <1>3 DEF Jobs
<1>5. \A v \in Workers : job'[v].pc = job[v].pc /\ job'[v].verdict = job[v].verdict
  BY <1>1, <1>2, <1>4
<1>6. Executing' = Executing /\ Keeping' = Keeping BY <1>5 DEF Executing, Keeping
<1>7. Kept' = Kept BY <1>5, <1>6 DEF Kept, Keeping
<1>8. UNCHANGED <<persisted, result, outcome>>
  BY DEF LoseConnection, orchestratorVars, redisVars, history
<1> QED BY <1>6, <1>7, <1>8, StutterRefines

\* The call returns once.
LEMMA CallRefines ==
  ASSUME IInv, Unreturned,
         \/ CallerStep \/ DeadlinePasses \/ CallerRaises \/ CheckRetry \/ CommitRetry \/ UNCHANGED vars
  PROVE  Refined
<1>1. UNCHANGED <<job, persisted, result>>
  BY DEF CallerStep, CreateTask, Publish, ReadResult, ReadStatus, TimeOut, DeadlinePasses,
         CallerRaises, CheckRetry, CommitRetry, vars, redisVars, history
<1>2. UNCHANGED <<Executing, Kept>> BY <1>1 DEF Executing, Kept, Keeping
<1>3. CASE outcome' = outcome BY <1>1, <1>2, <1>3, StutterRefines
<1>4. CASE outcome' # outcome
  <2>1. /\ caller # "returned"
        /\ outcome' \in {"no_result", "timeout", "raised"} \cup ({result} \ {"none"})
    BY <1>4 DEF CallerStep, CreateTask, Publish, ReadResult, ReadStatus, TimeOut, DeadlinePasses,
                CallerRaises, CheckRetry, CommitRetry, vars, orchestratorVars, Return
  <2>2. outcome = "none" BY <2>1 DEF Unreturned
  <2>3. Execution!Return BY <1>1, <1>2, <2>1, <2>2 DEF Execution!Return, Execution!Failures
  <2> QED BY <2>3 DEF Refined, Execution!Next
<1> QED BY <1>3, <1>4

LEMMA UnreturnedNext == Unreturned /\ [Next]_vars => Unreturned'
BY DEF Unreturned, Next, CallerStep, CreateTask, Publish, ReadResult, ReadStatus, TimeOut, Return,
       DeadlinePasses, CallerRaises, CheckRetry, CommitRetry, WorkerStep, WorkerFault, Deliver,
       Claim, DropDuplicate, Begin, AgentAnswers, Persist, SetFinalStatus, StoreResult, Ack,
       AckRaises, DeleteKey, Reject, Republish, AckOriginal, ExecuteRaises, HandleRaises, Crash,
       LoseConnection, vars, orchestratorVars

LEMMA NextRefines == IInv /\ Unreturned /\ [Next]_vars => Refined
<1> SUFFICES ASSUME IInv, Unreturned, [Next]_vars PROVE Refined
  OBVIOUS
<1>1. ASSUME NEW w \in Workers, WorkerStep(w) PROVE Refined
  BY <1>1, LeaveRefines, ClaimRefines, ExecuteRefines DEF WorkerStep
<1>2. ASSUME NEW w \in Workers, WorkerFault(w) PROVE Refined
  BY <1>2, LeaveRefines, LoseRefines, ExecuteRefines DEF WorkerFault
<1> QED BY <1>1, <1>2, CallRefines DEF Next

\* The queue, the key in Redis, the attempts and every break of them are executions one
\* after the other, each of which answers what it has stored itself.
THEOREM ImplementsExecution == Spec => ImplementsExclusiveExecution
<1>1. Init => Unreturned /\ Execution!Init
  BY DEF Init, Unreturned, Execution!Init, Executing, Kept, Keeping, Idle, InExecute
<1>2. Spec => []Unreturned BY <1>1, UnreturnedNext, PTL DEF Spec
<1>3. IInv /\ Unreturned /\ [Next]_vars => [Execution!Next]_(Execution!vars)
  BY NextRefines DEF Refined
<1>4. Spec => Execution!Spec BY <1>1, <1>2, <1>3, Invariance, PTL DEF Spec, Execution!Spec
<1> QED BY <1>4 DEF ImplementsExclusiveExecution

\* One worker executes the task at a time, and what is answered and returned is stored.
THEOREM AnswersAreStored == Spec => []Execution!StoredBefore
<1>1. Execution!Init => Execution!StoredBefore
  BY DEF Execution!Init, Execution!StoredBefore
<1>2. Execution!StoredBefore /\ [Execution!Next]_(Execution!vars) => Execution!StoredBefore'
  <2> SUFFICES ASSUME Execution!StoredBefore, [Execution!Next]_(Execution!vars)
               PROVE  Execution!StoredBefore'
    OBVIOUS
  <2>1. CASE \/ \E w \in Workers : Execution!Start(w)
             \/ \E v \in Verdicts : Execution!Store(v)
    BY <2>1 DEF Execution!Start, Execution!Store, Execution!StoredBefore
  <2>2. CASE Execution!Answer \/ Execution!Abandon \/ Execution!Stop
    BY <2>2 DEF Execution!Answer, Execution!Abandon, Execution!Stop, Execution!StoredBefore
  <2>3. CASE Execution!Return \/ UNCHANGED Execution!vars
    BY <2>3 DEF Execution!Return, Execution!vars, Execution!StoredBefore
  <2> QED BY <2>1, <2>2, <2>3 DEF Execution!Next
<1>3. Execution!Spec => []Execution!StoredBefore BY <1>1, <1>2, PTL DEF Execution!Spec
<1> QED BY <1>3, ImplementsExecution DEF ImplementsExclusiveExecution
=============================================================================
