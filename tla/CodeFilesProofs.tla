---------------------------- MODULE CodeFilesProofs ----------------------------
(***************************************************************************)
(* Proofs about CodeFiles, for any rounds, paths, answers and executions.  *)
(* That the code never goes back is a matter of whose answer is where: a   *)
(* result is that of its task, and what a round has collected are results  *)
(* of its own tasks (OwnAnswers).  That files have an object behind them   *)
(* is a matter of order: the object of a key is never ahead of the         *)
(* execution that writes it (NotAhead).                                    *)
(***************************************************************************)
EXTENDS CodeFiles, WellFoundedInduction, TLAPS

WorkerStates == [step : {"idle", "store", "record"}, answer : Answers \cup {NoAnswer}, next : Nat]

\* A worker that is at work has the answer of its own task, and a file of it to record.
AtWork(t) ==
    worker[t].step # "idle" =>
      /\ worker[t].answer \in Answers /\ worker[t].answer.task = t
      /\ worker[t].next # 0
      /\ worker[t].step = "record" => /\ worker[t].next <= Len(worker[t].answer.paths)
                                      /\ object[ObjectKey(t, Path(t))] = Content(t)

\* Results and what a round has collected of them, by task.
OwnAnswers ==
    /\ \A t \in Tasks : result[t] # NoAnswer => result[t].task = t
    /\ running => round # 0 /\ called \subseteq Rounds[round]
    /\ ~running => returned = {}
    /\ \A a \in Agents : collected[a] # NoAnswer => running /\ collected[a].task = <<round, a>>
    /\ \A path \in Paths : code[path].task[1] <= round

\* The object of a key is that of its task, and of a step the task has already made.
NotAhead ==
    \A t \in Tasks, path \in Paths :
      LET o == object[<<t, path>>]
      IN  o # Nothing =>
            /\ o.task = t
            /\ o.execution <= worker[t].answer.execution
            /\ worker[t].step # "idle" /\ o.execution = worker[t].answer.execution
                 => o.index <= worker[t].next

IInv ==
    /\ TypeOK
    /\ \A t \in Tasks : AtWork(t)
    /\ OwnAnswers
    /\ NotAhead
    /\ ObjectBehind

-----------------------------------------------------------------------------
(* Least and largest numbers, for the definitions by CHOOSE. *)

Less == {p \in Nat \X Nat : p[1] < p[2]}

\* The order of the natural numbers is well founded.
LEMMA LessWellFounded == IsWellFoundedOn(Less, Nat)
BY NatLessThanWellFounded, Zenon DEF OpToRel, Less

\* A set of natural numbers that is not empty has a least one.
LEMMA LeastNatural ==
  ASSUME NEW T \in SUBSET Nat, T # {}
  PROVE  \E x \in T : \A y \in T : x <= y
<1>1. PICK x \in T : \A y \in T : <<y, x>> \notin Less
  BY LessWellFounded, WFMin, Zenon
<1>2. ASSUME NEW y \in T PROVE x <= y
  <2>1. x \in Nat /\ y \in Nat OBVIOUS
  <2>2. y < x => <<y, x>> \in Less BY <2>1 DEF Less
  <2> QED BY <1>1, <2>1, <2>2
<1> QED BY <1>2

\* A set of numbers with a bound has a largest one.
LEMMA LargestNatural ==
  ASSUME NEW n \in Nat, NEW S \in SUBSET (0 .. n), S # {}
  PROVE  \E x \in S : \A y \in S : y <= x
<1> DEFINE T == {n - x : x \in S}
<1>1. T \in SUBSET Nat /\ T # {}
  <2>1. \A x \in S : n - x \in Nat OBVIOUS
  <2> QED BY <2>1
<1>2. PICK d \in T : \A e \in T : d <= e
  <2> HIDE DEF T
  <2> QED BY <1>1, LeastNatural
<1>3. PICK x \in S : d = n - x BY <1>2
<1>4. ASSUME NEW y \in S PROVE y <= x
  <2>1. n - y \in T OBVIOUS
  <2>2. n - x <= n - y BY <1>2, <1>3, <2>1
  <2> QED BY <2>2
<1> QED BY <1>4

-----------------------------------------------------------------------------
(* The data. *)

LEMMA TaskIsPair ==
  ASSUME NEW t \in Tasks
  PROVE  t[1] \in 1 .. Len(Rounds) /\ t[1] \in Nat /\ t[2] \in Agents /\ t = <<t[1], t[2]>>
BY RoundsAssumption DEF Tasks

LEMMA ContentsAreRecords ==
  ASSUME NEW c \in Contents
  PROVE  /\ c # Nothing /\ c.task \in Tasks /\ c.execution \in Nat \ {0} /\ c.index \in Nat \ {0}
         /\ c.task[1] \in Nat
BY TaskIsPair DEF Contents, Nothing

LEMMA AnswersAreRecords ==
  ASSUME NEW a \in Answers
  PROVE  /\ a # NoAnswer /\ a.task \in Tasks /\ a.execution \in Nat \ {0}
         /\ a.paths \in Seq(Paths) /\ Len(a.paths) \in Nat /\ DOMAIN a.paths = 1 .. Len(a.paths)
BY DEF Answers, NoAnswer

LEMMA NoAnswerIsRecord ==
  /\ NoAnswer.execution = 0 /\ NoAnswer.paths = <<>> /\ DOMAIN NoAnswer.paths = {}
  /\ Nothing.task[1] = 0
BY DEF NoAnswer, Nothing

\* The file that stays of a path is one of the answers that were collected.
LEMMA MergedIsCollected ==
  ASSUME TypeOK, NEW path \in Paths, MergedCode(path) # code[path]
  PROVE  \E a \in Agents :
            /\ collected[a] # NoAnswer
            /\ MergedCode(path).task = collected[a].task
            /\ MergedCode(path) \in Contents
<1> DEFINE answered == {a \in Agents : \E i \in DOMAIN collected[a].paths : collected[a].paths[i] = path}
           last     == CHOOSE a \in answered : \A b \in answered : b <= a
           indices  == {i \in DOMAIN collected[last].paths : collected[last].paths[i] = path}
           index    == CHOOSE i \in indices : \A j \in indices : j <= i
<1>1. answered # {} BY DEF MergedCode
<1>2. last \in answered
  <2>1. answered \in SUBSET (0 .. LastAgent) /\ LastAgent \in Nat
    BY RoundsAssumption DEF Agents
  <2> HIDE DEF answered
  <2>2. \E x \in answered : \A y \in answered : y <= x BY <1>1, <2>1, LargestNatural
  <2> QED BY <2>2
<1>3. last \in Agents /\ indices # {} BY <1>2
<1>4. collected[last] \in Answers /\ collected[last] # NoAnswer
  <2> HIDE DEF last
  <2>1. collected[last] \in Answers \cup {NoAnswer} BY <1>3 DEF TypeOK
  <2> QED BY <2>1, <1>3, NoAnswerIsRecord, AnswersAreRecords
<1>5. index \in indices
  <2>1. indices \in SUBSET (0 .. Len(collected[last].paths)) /\ Len(collected[last].paths) \in Nat
    <3> HIDE DEF last
    <3> QED BY <1>4, AnswersAreRecords
  <2> HIDE DEF indices
  <2>2. \E x \in indices : \A y \in indices : y <= x BY <1>3, <2>1, LargestNatural
  <2> QED BY <2>2
<1>6. index \in Nat \ {0}
  <2> HIDE DEF last, index
  <2> QED BY <1>4, <1>5, AnswersAreRecords
<1>7. MergedCode(path) = [task |-> collected[last].task, execution |-> collected[last].execution,
                          index |-> index]
  BY <1>1 DEF MergedCode
<1> HIDE DEF answered, last, indices, index
<1>8. MergedCode(path) \in Contents BY <1>4, <1>6, <1>7, AnswersAreRecords DEF Contents
<1> QED BY <1>3, <1>4, <1>7, <1>8

LEMMA NotOlderTransitive ==
  ASSUME NEW a \in Contents, NEW b \in Contents \cup {Nothing}, NEW c \in Contents,
         NotOlder(a, b), NotOlder(b, c)
  PROVE  NotOlder(a, c)
<1>1. b \in Contents BY DEF NotOlder
<1> QED BY <1>1, ContentsAreRecords DEF NotOlder

LEMMA NotOlderReflexive ==
  ASSUME NEW c \in Contents
  PROVE  NotOlder(c, c)
BY ContentsAreRecords DEF NotOlder

-----------------------------------------------------------------------------
(* The steps of a stage. *)

LEMMA InitInv == Init => IInv
<1> SUFFICES ASSUME Init PROVE IInv OBVIOUS
<1>1. \A t \in Tasks : worker[t].step = "idle" /\ result[t] = NoAnswer BY DEF Init
<1>2. \A t \in Tasks, path \in Paths : object[<<t, path>>] = Nothing BY DEF Init
<1>3. TypeOK
  <2>1. 0 \in 0 .. Len(Rounds) BY RoundsAssumption
  <2> QED BY <2>1 DEF Init, TypeOK
<1>4. OwnAnswers BY <1>1, NoAnswerIsRecord DEF Init, OwnAnswers
<1>5. ObjectBehind BY DEF Init, ObjectBehind
<1> QED BY <1>1, <1>2, <1>3, <1>4, <1>5 DEF IInv, AtWork, NotAhead

\* A stage moves nothing of the workers.
LEMMA StageStep ==
  ASSUME IInv, UNCHANGED <<worker, result, storage>>, TypeOK', OwnAnswers'
  PROVE  IInv'
<1>1. \A t \in Tasks : AtWork(t)'
  BY DEF IInv, AtWork, storage, ObjectKey, Path, Content
<1>2. NotAhead' BY DEF IInv, NotAhead, storage
<1>3. ObjectBehind' BY DEF IInv, ObjectBehind, NotOlder, storage, ObjectKey
<1> QED BY <1>1, <1>2, <1>3 DEF IInv

LEMMA StartRoundInv == IInv /\ StartRound => IInv'
<1> SUFFICES ASSUME IInv, StartRound PROVE IInv' OBVIOUS
<1>1. Len(Rounds) \in Nat BY RoundsAssumption
<1>2. TypeOK' BY <1>1 DEF IInv, TypeOK, OwnAnswers, StartRound, storage
<1>3. \A path \in Paths : code[path].task[1] <= round' /\ code' = code
  <2>1. round \in Nat /\ round' = round + 1 BY <1>1 DEF StartRound, IInv, TypeOK
  <2>2. \A path \in Paths : code[path].task[1] \in Nat
    BY ContentsAreRecords, NoAnswerIsRecord DEF IInv, TypeOK
  <2> QED BY <2>1, <2>2 DEF IInv, OwnAnswers, StartRound
<1>4. OwnAnswers' BY <1>1, <1>3 DEF IInv, TypeOK, OwnAnswers, StartRound
<1> QED BY <1>2, <1>4, StageStep DEF StartRound

LEMMA DispatchInv == ASSUME NEW a \in Agents PROVE IInv /\ Dispatch(a) => IInv'
<1> SUFFICES ASSUME IInv, Dispatch(a) PROVE IInv' OBVIOUS
<1>1. TypeOK' BY DEF IInv, TypeOK, Dispatch, storage
<1>2. OwnAnswers' BY DEF IInv, OwnAnswers, Dispatch
<1> QED BY <1>1, <1>2, StageStep DEF Dispatch

\* The task of an agent that was called in the round that is under way.
LEMMA CalledIsTask ==
  ASSUME IInv, running, NEW a \in called
  PROVE  <<round, a>> \in Tasks
<1>1. round \in 1 .. Len(Rounds) /\ a \in Rounds[round]
  BY RoundsAssumption DEF IInv, TypeOK, OwnAnswers
<1> QED BY <1>1, RoundsAssumption DEF Tasks

LEMMA CollectInv == ASSUME NEW a \in Agents PROVE IInv /\ Collect(a) => IInv'
<1> SUFFICES ASSUME IInv, Collect(a) PROVE IInv' OBVIOUS
<1> DEFINE t == <<round, a>>
<1>1. t \in Tasks /\ running BY CalledIsTask DEF Collect
<1>2. result[t] \in Answers \cup {NoAnswer} /\ result[t].task = t
  BY <1>1 DEF IInv, TypeOK, OwnAnswers, Collect, ResultKey
<1>3. collected' = [collected EXCEPT ![a] = result[t]] BY DEF Collect, ResultKey
<1>4. TypeOK' BY <1>2, <1>3 DEF IInv, TypeOK, Collect, storage
<1>5. \A b \in Agents : collected'[b] # NoAnswer => running' /\ collected'[b].task = <<round', b>>
  BY <1>1, <1>2, <1>3 DEF IInv, TypeOK, OwnAnswers, Collect
<1>6. OwnAnswers' BY <1>1, <1>5 DEF IInv, OwnAnswers, Collect
<1> QED BY <1>4, <1>6, StageStep DEF Collect

LEMMA GiveUpInv == ASSUME NEW a \in Agents PROVE IInv /\ GiveUp(a) => IInv'
<1> SUFFICES ASSUME IInv, GiveUp(a) PROVE IInv' OBVIOUS
<1>1. TypeOK' BY DEF IInv, TypeOK, GiveUp, storage
<1>2. OwnAnswers' BY DEF IInv, OwnAnswers, GiveUp
<1> QED BY <1>1, <1>2, StageStep DEF GiveUp

\* What a round leaves of a path is its own or what was there.
LEMMA MergedIsOwn ==
  ASSUME IInv, NEW path \in Paths, MergedCode(path) # code[path]
  PROVE  MergedCode(path) \in Contents /\ MergedCode(path).task[1] = round
<1>1. PICK a \in Agents : /\ collected[a] # NoAnswer
                          /\ MergedCode(path).task = collected[a].task
                          /\ MergedCode(path) \in Contents
  BY MergedIsCollected DEF IInv
<1>2. collected[a].task = <<round, a>> BY <1>1 DEF IInv, OwnAnswers
<1> QED BY <1>1, <1>2

LEMMA EndRoundInv == IInv /\ EndRound => IInv'
<1> SUFFICES ASSUME IInv, EndRound PROVE IInv' OBVIOUS
<1>1. \A path \in Paths : /\ code'[path] \in Contents \cup {Nothing}
                          /\ code'[path].task[1] <= round
  <2> SUFFICES ASSUME NEW path \in Paths
               PROVE  /\ code'[path] \in Contents \cup {Nothing}
                      /\ code'[path].task[1] <= round
    OBVIOUS
  <2>1. code'[path] = MergedCode(path) BY DEF EndRound
  <2>2. round \in Nat BY RoundsAssumption DEF IInv, TypeOK
  <2>3. CASE MergedCode(path) = code[path] BY <2>1, <2>3 DEF IInv, TypeOK, OwnAnswers
  <2>4. CASE MergedCode(path) # code[path] BY <2>1, <2>2, <2>4, MergedIsOwn
  <2> QED BY <2>3, <2>4
<1>2. code' \in [Paths -> Contents \cup {Nothing}]
  <2>1. code' = [path \in Paths |-> MergedCode(path)] BY DEF EndRound
  <2>2. \A path \in Paths : MergedCode(path) \in Contents \cup {Nothing} BY <1>1, <2>1
  <2> QED BY <2>1, <2>2
<1>3. TypeOK' BY <1>2 DEF IInv, TypeOK, EndRound, EndOfRound, storage
<1>4. OwnAnswers' BY <1>1 DEF IInv, OwnAnswers, EndRound, EndOfRound
<1> QED BY <1>3, <1>4, StageStep DEF EndRound

LEMMA AbortRoundInv == IInv /\ AbortRound => IInv'
<1> SUFFICES ASSUME IInv, AbortRound PROVE IInv' OBVIOUS
<1>1. TypeOK' BY DEF IInv, TypeOK, AbortRound, EndOfRound, storage
<1>2. OwnAnswers' BY DEF IInv, OwnAnswers, AbortRound, EndOfRound
<1> QED BY <1>1, <1>2, StageStep DEF AbortRound

-----------------------------------------------------------------------------
(* The steps of a worker. *)

LEMMA WorkersTyped ==
  ASSUME TypeOK, NEW t \in Tasks
  PROVE  /\ worker \in [Tasks -> WorkerStates]
         /\ worker[t] = [step |-> worker[t].step, answer |-> worker[t].answer, next |-> worker[t].next]
         /\ worker[t].step \in {"idle", "store", "record"}
         /\ worker[t].answer \in Answers \cup {NoAnswer}
         /\ worker[t].answer.execution \in Nat
         /\ worker[t].next \in Nat
<1>1. worker \in [Tasks -> WorkerStates] BY DEF TypeOK, WorkerStates
<1>2. worker[t].answer.execution \in Nat
  BY <1>1, AnswersAreRecords, NoAnswerIsRecord DEF WorkerStates
<1> QED BY <1>1, <1>2 DEF WorkerStates

\* The file a worker is about.
LEMMA FileOfWorker ==
  ASSUME IInv, NEW t \in Tasks, worker[t].step # "idle",
         worker[t].next <= Len(worker[t].answer.paths)
  PROVE  Path(t) \in Paths /\ Content(t) \in Contents
<1>1. /\ worker[t].answer \in Answers /\ worker[t].next \in Nat \ {0}
      /\ worker[t].answer.task = t
  BY WorkersTyped DEF IInv, AtWork
<1>2. worker[t].next \in 1 .. Len(worker[t].answer.paths) BY <1>1, AnswersAreRecords
<1>3. Path(t) \in Paths BY <1>1, <1>2, AnswersAreRecords DEF Path
<1>4. Content(t) \in Contents BY <1>1, AnswersAreRecords DEF Content, Contents
<1> QED BY <1>3, <1>4

\* A worker does not disturb the others.
LEMMA OthersAtWork ==
  ASSUME IInv, NEW t \in Tasks, NEW x, worker' = [worker EXCEPT ![t] = x],
         \A u \in Tasks, path \in Paths : u # t => object'[<<u, path>>] = object[<<u, path>>],
         NEW u \in Tasks, u # t
  PROVE  AtWork(u)'
<1>1. worker'[u] = worker[u] BY WorkersTyped DEF IInv
<1>2. AtWork(u) BY DEF IInv
<1>3. CASE worker[u].step # "record" BY <1>1, <1>2, <1>3 DEF AtWork
<1>4. CASE worker[u].step = "record"
  <2>1. Path(u) \in Paths BY <1>2, <1>4, FileOfWorker DEF AtWork
  <2>2. Path(u)' = Path(u) /\ Content(u)' = Content(u) BY <1>1 DEF Path, Content
  <2>3. object'[ObjectKey(u, Path(u))] = object[ObjectKey(u, Path(u))] BY <2>1 DEF ObjectKey
  <2> QED BY <1>1, <1>2, <2>2, <2>3 DEF AtWork, ObjectKey
<1> QED BY <1>3, <1>4

\* A step of a worker that leaves the storage alone.
LEMMA QuietStep ==
  ASSUME IInv, NEW t \in Tasks, NEW x \in WorkerStates, worker' = [worker EXCEPT ![t] = x],
         UNCHANGED <<stage, storage>>, result' \in [Tasks -> Answers \cup {NoAnswer}],
         \A u \in Tasks : result'[u] # NoAnswer => result'[u].task = u,
         x.step # "record",
         x.step = "store" => x.answer \in Answers /\ x.answer.task = t /\ x.next # 0,
         x.answer.execution \in Nat, x.answer.execution >= worker[t].answer.execution,
         x.step = "store" /\ x.answer.execution = worker[t].answer.execution
           => worker[t].step # "idle" /\ x.next >= worker[t].next
  PROVE  IInv'
<1>1. worker' \in [Tasks -> WorkerStates] /\ worker'[t] = x
  BY WorkersTyped DEF IInv
<1>2. TypeOK' BY <1>1 DEF IInv, TypeOK, WorkerStates, stage, storage
<1>3. OwnAnswers' BY DEF IInv, OwnAnswers, stage
<1>4. \A u \in Tasks : AtWork(u)'
  <2>1. AtWork(t)' BY <1>1 DEF AtWork, WorkerStates
  <2>2. \A u \in Tasks, path \in Paths : u # t => object'[<<u, path>>] = object[<<u, path>>]
    BY DEF storage
  <2>3. ASSUME NEW u \in Tasks, u # t PROVE AtWork(u)' BY <2>2, <2>3, OthersAtWork
  <2> QED BY <2>1, <2>3
<1>5. NotAhead'
  <2> SUFFICES ASSUME NEW u \in Tasks, NEW path \in Paths, object'[<<u, path>>] # Nothing
               PROVE  LET o == object'[<<u, path>>]
                      IN  /\ o.task = u
                          /\ o.execution <= worker'[u].answer.execution
                          /\ worker'[u].step # "idle" /\ o.execution = worker'[u].answer.execution
                               => o.index <= worker'[u].next
    BY DEF NotAhead
  <2> DEFINE o == object[<<u, path>>]
  <2>1. object'[<<u, path>>] = o /\ o \in Contents
    BY DEF storage, IInv, TypeOK
  <2>2. /\ o.task = u /\ o.execution <= worker[u].answer.execution
        /\ worker[u].step # "idle" /\ o.execution = worker[u].answer.execution
             => o.index <= worker[u].next
    BY <2>1, ContentsAreRecords DEF IInv, NotAhead
  <2>3. o.execution \in Nat /\ o.index \in Nat BY <2>1, ContentsAreRecords
  <2>4. CASE u # t
    <3>1. worker'[u] = worker[u] BY <2>4, WorkersTyped DEF IInv
    <3> QED BY <2>1, <2>2, <3>1
  <2>5. CASE u = t
    <3>1. worker'[u] = x BY <1>1, <2>5
    <3>2. worker[t].answer.execution \in Nat /\ worker[t].next \in Nat BY WorkersTyped DEF IInv
    <3>3. x.next \in Nat /\ x.step \in {"idle", "store", "record"} BY DEF WorkerStates
    <3> QED BY <2>1, <2>2, <2>3, <2>5, <3>1, <3>2, <3>3
  <2> QED BY <2>4, <2>5
<1>6. ObjectBehind' BY DEF IInv, ObjectBehind, NotOlder, storage, ObjectKey
<1> QED BY <1>2, <1>3, <1>4, <1>5, <1>6 DEF IInv

LEMMA ExecuteInv ==
  ASSUME NEW t \in Tasks, NEW paths \in Lists[t] PROVE IInv /\ Execute(t, paths) => IInv'
<1> SUFFICES ASSUME IInv, Execute(t, paths) PROVE IInv' OBVIOUS
<1> DEFINE n == worker[t].answer.execution
           a == [task |-> t, execution |-> n + 1, paths |-> paths]
           x == [step |-> "store", next |-> 1, answer |-> a]
<1>1. n \in Nat BY WorkersTyped DEF IInv
<1>2. a \in Answers
  <2>1. paths \in Seq(Paths) BY ListsAssumption
  <2> QED BY <1>1, <2>1 DEF Answers
<1>3. x \in WorkerStates BY <1>2 DEF WorkerStates
<1>4. worker' = [worker EXCEPT ![t] = x] /\ UNCHANGED <<stage, storage>> /\ result' = result
  BY DEF Execute
<1>5. \A u \in Tasks : result'[u] # NoAnswer => result'[u].task = u
  BY <1>4 DEF IInv, OwnAnswers
<1>6. result' \in [Tasks -> Answers \cup {NoAnswer}] BY <1>4 DEF IInv, TypeOK
<1>7. /\ x.step = "store" /\ x.answer = a /\ x.next = 1
      /\ a.task = t /\ a.execution = n + 1
  OBVIOUS
<1> HIDE DEF a, x
<1>8. /\ x.step # "record" /\ x.next # 0 /\ x.answer.execution \in Nat
      /\ x.answer.execution >= n /\ x.answer.execution # n
  BY <1>1, <1>7
<1> QED BY <1>2, <1>3, <1>4, <1>5, <1>6, <1>7, <1>8, QuietStep

LEMMA NextFileInv ==
  ASSUME NEW t \in Tasks, IInv, Storing(t, "store"), NextFile(t), UNCHANGED <<stage, result, storage>>
  PROVE  IInv'
<1> DEFINE x == [step |-> "store", answer |-> worker[t].answer, next |-> worker[t].next + 1]
<1>1. /\ worker[t].next \in Nat /\ worker[t].answer.execution \in Nat
      /\ worker[t] = [step |-> worker[t].step, answer |-> worker[t].answer, next |-> worker[t].next]
  BY WorkersTyped DEF IInv
<1>2. worker[t].answer \in Answers /\ worker[t].answer.task = t
  BY DEF IInv, AtWork, Storing
<1>3. x \in WorkerStates BY <1>1, <1>2 DEF WorkerStates
<1>4. worker' = [worker EXCEPT ![t] = x]
  <2>1. worker \in [Tasks -> WorkerStates] BY WorkersTyped DEF IInv
  <2>2. worker' \in [Tasks -> WorkerStates] /\ worker'[t] = x BY <1>1, <1>3, <2>1 DEF NextFile, WorkerStates
  <2>3. \A u \in Tasks : u # t => worker'[u] = worker[u] BY <2>1 DEF NextFile
  <2> HIDE DEF x
  <2> QED BY <2>1, <2>2, <2>3
<1>5. \A u \in Tasks : result'[u] # NoAnswer => result'[u].task = u
  BY DEF IInv, OwnAnswers
<1>6. result' \in [Tasks -> Answers \cup {NoAnswer}] BY DEF IInv, TypeOK
<1>7. /\ x.step = "store" /\ x.answer = worker[t].answer /\ x.next = worker[t].next + 1
      /\ worker[t].step # "idle"
  BY DEF Storing
<1> HIDE DEF x
<1>8. /\ x.step # "record" /\ x.next # 0 /\ x.next >= worker[t].next
      /\ x.answer.execution \in Nat /\ x.answer.execution >= worker[t].answer.execution
  BY <1>1, <1>7
<1>9. UNCHANGED <<stage, storage>> OBVIOUS
<1> QED BY <1>2, <1>3, <1>4, <1>5, <1>6, <1>7, <1>8, <1>9, QuietStep

LEMMA StoreFailsInv == ASSUME NEW t \in Tasks PROVE IInv /\ StoreFails(t) => IInv'
BY NextFileInv DEF StoreFails

LEMMA PublishInv == ASSUME NEW t \in Tasks PROVE IInv /\ Publish(t) => IInv'
<1> SUFFICES ASSUME IInv, Publish(t) PROVE IInv' OBVIOUS
<1> DEFINE x == [step |-> "idle", answer |-> worker[t].answer, next |-> worker[t].next]
<1>1. /\ worker[t].next \in Nat /\ worker[t].answer.execution \in Nat
      /\ worker[t] = [step |-> worker[t].step, answer |-> worker[t].answer, next |-> worker[t].next]
  BY WorkersTyped DEF IInv
<1>2. worker[t].answer \in Answers /\ worker[t].answer.task = t
  BY DEF IInv, AtWork, Publish, Stored
<1>3. x \in WorkerStates BY <1>1, <1>2 DEF WorkerStates
<1>4. worker' = [worker EXCEPT ![t] = x]
  <2>1. worker \in [Tasks -> WorkerStates] BY WorkersTyped DEF IInv
  <2>2. worker' \in [Tasks -> WorkerStates] /\ worker'[t] = x
    BY <1>1, <1>3, <2>1 DEF Publish, WorkerStates
  <2>3. \A u \in Tasks : u # t => worker'[u] = worker[u] BY <2>1 DEF Publish
  <2> HIDE DEF x
  <2> QED BY <2>1, <2>2, <2>3
<1>5. result' = [result EXCEPT ![t] = worker[t].answer] BY DEF Publish, ResultKey
<1>6. result' \in [Tasks -> Answers \cup {NoAnswer}] BY <1>2, <1>5 DEF IInv, TypeOK
<1>7. \A u \in Tasks : result'[u] # NoAnswer => result'[u].task = u
  BY <1>2, <1>5 DEF IInv, TypeOK, OwnAnswers
<1>8. /\ x.step = "idle" /\ x.answer = worker[t].answer
      /\ x.answer.execution \in Nat /\ x.answer.execution >= worker[t].answer.execution
  BY <1>1
<1>9. UNCHANGED <<stage, storage>> BY DEF Publish
<1> HIDE DEF x
<1> QED BY <1>3, <1>4, <1>6, <1>7, <1>8, <1>9, QuietStep

LEMMA RaiseInv == ASSUME NEW t \in Tasks PROVE IInv /\ Raise(t) => IInv'
<1> SUFFICES ASSUME IInv, Raise(t) PROVE IInv' OBVIOUS
<1> DEFINE x == [step |-> "idle", answer |-> worker[t].answer, next |-> worker[t].next]
<1>1. /\ worker[t].next \in Nat /\ worker[t].answer.execution \in Nat
      /\ worker[t] = [step |-> worker[t].step, answer |-> worker[t].answer, next |-> worker[t].next]
  BY WorkersTyped DEF IInv
<1>2. worker[t].answer \in Answers \cup {NoAnswer} BY WorkersTyped DEF IInv
<1>3. x \in WorkerStates BY <1>1, <1>2 DEF WorkerStates
<1>4. worker' = [worker EXCEPT ![t] = x]
  <2>1. worker \in [Tasks -> WorkerStates] BY WorkersTyped DEF IInv
  <2>2. worker' \in [Tasks -> WorkerStates] /\ worker'[t] = x
    BY <1>1, <1>3, <2>1 DEF Raise, WorkerStates
  <2>3. \A u \in Tasks : u # t => worker'[u] = worker[u] BY <2>1 DEF Raise
  <2> HIDE DEF x
  <2> QED BY <2>1, <2>2, <2>3
<1>5. UNCHANGED <<stage, storage>> /\ result' = result BY DEF Raise
<1>6. result' \in [Tasks -> Answers \cup {NoAnswer}] BY <1>5 DEF IInv, TypeOK
<1>7. \A u \in Tasks : result'[u] # NoAnswer => result'[u].task = u
  BY <1>5 DEF IInv, OwnAnswers
<1>8. /\ x.step = "idle" /\ x.answer = worker[t].answer
      /\ x.answer.execution \in Nat /\ x.answer.execution >= worker[t].answer.execution
  BY <1>1
<1> HIDE DEF x
<1> QED BY <1>3, <1>4, <1>5, <1>6, <1>7, <1>8, QuietStep

LEMMA StoreInv == ASSUME NEW t \in Tasks PROVE IInv /\ Store(t) => IInv'
<1> SUFFICES ASSUME IInv, Store(t) PROVE IInv' OBVIOUS
<1> DEFINE p == Path(t)
           c == Content(t)
           x == [step |-> "record", answer |-> worker[t].answer, next |-> worker[t].next]
<1>1. /\ worker[t].next \in Nat /\ worker[t].answer.execution \in Nat
      /\ worker[t] = [step |-> worker[t].step, answer |-> worker[t].answer, next |-> worker[t].next]
  BY WorkersTyped DEF IInv
<1>2. /\ worker[t].answer \in Answers /\ worker[t].answer.task = t /\ worker[t].next # 0
      /\ worker[t].next <= Len(worker[t].answer.paths) /\ worker[t].step = "store"
  BY DEF IInv, AtWork, Store, Storing
<1>3. p \in Paths /\ c \in Contents BY <1>2, FileOfWorker
<1>4. c.task = t /\ c.execution = worker[t].answer.execution /\ c.index = worker[t].next
  BY DEF Content
<1>5. x \in WorkerStates BY <1>1, <1>2 DEF WorkerStates
<1>6. worker' = [worker EXCEPT ![t] = x]
  <2>1. worker \in [Tasks -> WorkerStates] BY WorkersTyped DEF IInv
  <2>2. worker' \in [Tasks -> WorkerStates] /\ worker'[t] = x
    BY <1>1, <1>5, <2>1 DEF Store, WorkerStates
  <2>3. \A u \in Tasks : u # t => worker'[u] = worker[u] BY <2>1 DEF Store
  <2> HIDE DEF x
  <2> QED BY <2>1, <2>2, <2>3
<1>7. /\ worker' \in [Tasks -> WorkerStates] /\ worker'[t] = x
      /\ \A u \in Tasks : u # t => worker'[u] = worker[u]
  BY <1>5, <1>6, WorkersTyped DEF IInv
<1>8. /\ x.step = "record" /\ x.answer = worker[t].answer /\ x.next = worker[t].next OBVIOUS
<1>9. Path(t)' = p /\ Content(t)' = c BY <1>7, <1>8 DEF Path, Content
<1>10. /\ object' = [object EXCEPT ![<<t, p>>] = c]
       /\ workspace' \in {workspace, [workspace EXCEPT ![p] = c]}
       /\ UNCHANGED <<stage, result, artifacts>>
  BY DEF Store, ObjectKey
<1> HIDE DEF p, c, x
<1>11. /\ object' \in [Tasks \X Paths -> Contents \cup {Nothing}]
       /\ object'[<<t, p>>] = c
       /\ \A u \in Tasks, path \in Paths : <<u, path>> # <<t, p>> => object'[<<u, path>>] = object[<<u, path>>]
  <2>1. object \in [Tasks \X Paths -> Contents \cup {Nothing}] BY DEF IInv, TypeOK
  <2>2. <<t, p>> \in Tasks \X Paths /\ c \in Contents \cup {Nothing} BY <1>3
  <2>3. object' \in [Tasks \X Paths -> Contents \cup {Nothing}] /\ object'[<<t, p>>] = c
    BY <1>10, <2>1, <2>2
  <2>4. \A k \in Tasks \X Paths : k # <<t, p>> => object'[k] = object[k] BY <1>10, <2>1
  <2> QED BY <2>3, <2>4
<1>12. TypeOK'
  <2>1. workspace' \in [Paths -> Contents \cup {Nothing}] BY <1>3, <1>10 DEF IInv, TypeOK
  <2>2. artifacts' \subseteq [path : Paths, content : Contents] BY <1>10 DEF IInv, TypeOK
  <2>3. /\ round' \in 0 .. Len(Rounds) /\ running' \in BOOLEAN
        /\ called' \subseteq Agents /\ returned' \subseteq called'
        /\ collected' \in [Agents -> Answers \cup {NoAnswer}]
        /\ code' \in [Paths -> Contents \cup {Nothing}]
        /\ result' \in [Tasks -> Answers \cup {NoAnswer}]
    BY <1>10 DEF IInv, TypeOK, stage
  <2> QED BY <1>7, <1>11, <2>1, <2>2, <2>3 DEF TypeOK, WorkerStates
<1>13. OwnAnswers' BY <1>10 DEF IInv, OwnAnswers, stage
<1>14. \A u \in Tasks : AtWork(u)'
  <2>1. AtWork(t)' BY <1>2, <1>7, <1>8, <1>9, <1>11 DEF AtWork, ObjectKey
  <2>2. \A u \in Tasks, path \in Paths : u # t => object'[<<u, path>>] = object[<<u, path>>]
    BY <1>11
  <2>3. ASSUME NEW u \in Tasks, u # t PROVE AtWork(u)' BY <1>6, <2>2, <2>3, OthersAtWork
  <2> QED BY <2>1, <2>3
<1>15. NotAhead'
  <2> SUFFICES ASSUME NEW u \in Tasks, NEW path \in Paths, object'[<<u, path>>] # Nothing
               PROVE  LET o == object'[<<u, path>>]
                      IN  /\ o.task = u
                          /\ o.execution <= worker'[u].answer.execution
                          /\ worker'[u].step # "idle" /\ o.execution = worker'[u].answer.execution
                               => o.index <= worker'[u].next
    BY DEF NotAhead
  <2>1. CASE <<u, path>> = <<t, p>>
    <3>1. u = t /\ path = p BY <2>1
    <3> QED BY <1>1, <1>4, <1>7, <1>8, <1>11, <3>1
  <2>2. CASE <<u, path>> # <<t, p>>
    <3>1. object'[<<u, path>>] = object[<<u, path>>] BY <1>11, <2>2
    <3>2. /\ worker'[u].answer = worker[u].answer /\ worker'[u].next = worker[u].next
          /\ worker'[u].step # "idle" => worker[u].step # "idle"
      BY <1>2, <1>7, <1>8
    <3> QED BY <3>1, <3>2 DEF IInv, NotAhead
  <2> QED BY <2>1, <2>2
<1>16. \A u \in Tasks, path \in Paths : object[<<u, path>>] # Nothing =>
          NotOlder(object'[<<u, path>>], object[<<u, path>>])
  <2> SUFFICES ASSUME NEW u \in Tasks, NEW path \in Paths, object[<<u, path>>] # Nothing
               PROVE  NotOlder(object'[<<u, path>>], object[<<u, path>>])
    OBVIOUS
  <2> DEFINE o == object[<<u, path>>]
  <2>1. o \in Contents BY DEF IInv, TypeOK
  <2>2. CASE <<u, path>> = <<t, p>>
    <3>1. /\ o.task = t /\ o.execution <= worker[t].answer.execution
          /\ o.execution = worker[t].answer.execution => o.index <= worker[t].next
      BY <1>2, <2>2 DEF IInv, NotAhead
    <3>2. object'[<<u, path>>] = c BY <1>11, <2>2
    <3>3. o.execution \in Nat /\ o.index \in Nat BY <2>1, ContentsAreRecords
    <3> HIDE DEF o
    <3>4. NotOlder(c, o)
      BY <1>1, <1>3, <1>4, <3>1, <3>3, ContentsAreRecords DEF NotOlder
    <3> QED BY <3>2, <3>4 DEF o
  <2>3. CASE <<u, path>> # <<t, p>>
    <3>1. object'[<<u, path>>] = o BY <1>11, <2>3
    <3> QED BY <2>1, <3>1, NotOlderReflexive
  <2> QED BY <2>2, <2>3
<1>17. ASSUME NEW content \in Contents, NEW path \in Paths,
              NotOlder(object[<<content.task, path>>], content)
       PROVE  NotOlder(object'[<<content.task, path>>], content)
  <2>1. content.task \in Tasks BY ContentsAreRecords
  <2>2. object[<<content.task, path>>] \in Contents
    BY <1>17, <2>1 DEF IInv, TypeOK, NotOlder
  <2>3. object'[<<content.task, path>>] \in Contents \cup {Nothing} BY <1>11, <2>1
  <2>4. NotOlder(object'[<<content.task, path>>], object[<<content.task, path>>])
    BY <1>16, <2>1, <2>2, ContentsAreRecords
  <2>5. object'[<<content.task, path>>] \in Contents BY <2>3, <2>4 DEF NotOlder
  <2> QED BY <1>17, <2>2, <2>4, <2>5, NotOlderTransitive
<1>18. ObjectBehind'
  <2>1. ASSUME NEW row \in artifacts'
        PROVE  NotOlder(object'[<<row.content.task, row.path>>], row.content)
    <3>1. row \in artifacts /\ row.content \in Contents /\ row.path \in Paths
      BY <1>10 DEF IInv, TypeOK
    <3>2. NotOlder(object[<<row.content.task, row.path>>], row.content)
      BY <3>1 DEF IInv, ObjectBehind, ObjectKey
    <3> QED BY <1>17, <3>1, <3>2
  <2>2. ASSUME NEW path \in Paths, workspace'[path] # Nothing
        PROVE  NotOlder(object'[<<workspace'[path].task, path>>], workspace'[path])
    <3>1. CASE workspace'[path] = workspace[path]
      <4>1. workspace[path] \in Contents BY <2>2, <3>1 DEF IInv, TypeOK
      <4>2. NotOlder(object[<<workspace[path].task, path>>], workspace[path])
        BY <2>2, <3>1 DEF IInv, ObjectBehind, ObjectKey
      <4> QED BY <1>17, <3>1, <4>1, <4>2
    <3>2. CASE workspace'[path] # workspace[path]
      <4>1. path = p /\ workspace'[path] = c BY <1>3, <1>10, <3>2 DEF IInv, TypeOK
      <4> QED BY <1>3, <1>4, <1>11, <4>1, NotOlderReflexive
    <3> QED BY <3>1, <3>2
  <2> QED BY <2>1, <2>2 DEF ObjectBehind, ObjectKey
<1> QED BY <1>12, <1>13, <1>14, <1>15, <1>18 DEF IInv

LEMMA RecordInv == ASSUME NEW t \in Tasks PROVE IInv /\ Record(t) => IInv'
<1> SUFFICES ASSUME IInv, Record(t) PROVE IInv' OBVIOUS
<1> DEFINE x == [step |-> "store", answer |-> worker[t].answer, next |-> worker[t].next + 1]
<1>1. /\ worker[t].next \in Nat /\ worker[t].answer.execution \in Nat
      /\ worker[t].answer \in Answers /\ worker[t].answer.task = t
      /\ worker[t].step = "record" /\ worker[t].next <= Len(worker[t].answer.paths)
      /\ object[ObjectKey(t, Path(t))] = Content(t)
  BY WorkersTyped DEF IInv, AtWork, Record, Storing
<1>2. Path(t) \in Paths /\ Content(t) \in Contents BY <1>1, FileOfWorker
<1>3. x \in WorkerStates BY <1>1 DEF WorkerStates
<1>4. worker' = [worker EXCEPT ![t] = x]
  <2>1. worker \in [Tasks -> WorkerStates] BY WorkersTyped DEF IInv
  <2>2. worker' \in [Tasks -> WorkerStates] /\ worker'[t] = x
    BY <1>1, <1>3, <2>1 DEF Record, NextFile, WorkerStates
  <2>3. \A u \in Tasks : u # t => worker'[u] = worker[u] BY <2>1 DEF Record, NextFile
  <2> HIDE DEF x
  <2> QED BY <2>1, <2>2, <2>3
<1>5. /\ worker' \in [Tasks -> WorkerStates] /\ worker'[t] = x
      /\ \A u \in Tasks : u # t => worker'[u] = worker[u]
  BY <1>3, <1>4, WorkersTyped DEF IInv
<1>6. x.step = "store" /\ x.answer = worker[t].answer /\ x.next = worker[t].next + 1 OBVIOUS
<1> HIDE DEF x
<1>7. /\ artifacts' \in {artifacts, artifacts \cup {[path |-> Path(t), content |-> Content(t)]}}
      /\ UNCHANGED <<stage, result, object, workspace>>
  BY DEF Record
<1>8. artifacts' \subseteq [path : Paths, content : Contents]
  BY <1>2, <1>7 DEF IInv, TypeOK
<1>9. TypeOK' BY <1>5, <1>7, <1>8 DEF IInv, TypeOK, WorkerStates, stage
<1>10. OwnAnswers' BY <1>7 DEF IInv, OwnAnswers, stage
<1>11. \A u \in Tasks : AtWork(u)'
  <2>1. AtWork(t)' BY <1>1, <1>5, <1>6 DEF AtWork
  <2>2. ASSUME NEW u \in Tasks, u # t PROVE AtWork(u)' BY <1>4, <1>7, <2>2, OthersAtWork
  <2> QED BY <2>1, <2>2
<1>12. NotAhead'
  <2> SUFFICES ASSUME NEW u \in Tasks, NEW path \in Paths, object'[<<u, path>>] # Nothing
               PROVE  LET o == object'[<<u, path>>]
                      IN  /\ o.task = u
                          /\ o.execution <= worker'[u].answer.execution
                          /\ worker'[u].step # "idle" /\ o.execution = worker'[u].answer.execution
                               => o.index <= worker'[u].next
    BY DEF NotAhead
  <2> DEFINE o == object[<<u, path>>]
  <2>1. object'[<<u, path>>] = o /\ o \in Contents BY <1>7 DEF IInv, TypeOK
  <2>2. /\ o.task = u /\ o.execution <= worker[u].answer.execution
        /\ worker[u].step # "idle" /\ o.execution = worker[u].answer.execution
             => o.index <= worker[u].next
    BY <2>1, ContentsAreRecords DEF IInv, NotAhead
  <2>3. o.index \in Nat BY <2>1, ContentsAreRecords
  <2> HIDE DEF o
  <2>4. CASE u # t BY <1>5, <2>1, <2>2, <2>4
  <2>5. CASE u = t BY <1>1, <1>5, <1>6, <2>1, <2>2, <2>3, <2>5
  <2> QED BY <2>4, <2>5
<1>13. ObjectBehind'
  <2>1. ASSUME NEW row \in artifacts'
        PROVE  NotOlder(object[<<row.content.task, row.path>>], row.content)
    <3>1. CASE row \in artifacts BY <3>1 DEF IInv, ObjectBehind, ObjectKey
    <3>2. CASE row \notin artifacts
      <4>1. row.path = Path(t) /\ row.content = Content(t) BY <1>7, <2>1, <3>2
      <4>2. Content(t).task = t BY DEF Content
      <4> QED BY <1>1, <1>2, <4>1, <4>2, NotOlderReflexive DEF ObjectKey
    <3> QED BY <3>1, <3>2
  <2>2. \A path \in Paths : workspace'[path] # Nothing =>
          NotOlder(object'[ObjectKey(workspace'[path].task, path)], workspace'[path])
    BY <1>7 DEF IInv, ObjectBehind, ObjectKey
  <2> QED BY <1>7, <2>1, <2>2 DEF ObjectBehind, ObjectKey
<1> QED BY <1>9, <1>10, <1>11, <1>12, <1>13 DEF IInv

-----------------------------------------------------------------------------
LEMMA NextInv == IInv /\ [Next]_vars => IInv'
<1> SUFFICES ASSUME IInv, [Next]_vars PROVE IInv' OBVIOUS
<1>1. CASE StartRound BY <1>1, StartRoundInv
<1>2. CASE EndRound BY <1>2, EndRoundInv
<1>3. CASE AbortRound BY <1>3, AbortRoundInv
<1>4. CASE \E a \in Agents : Dispatch(a) \/ Collect(a) \/ GiveUp(a)
  BY <1>4, DispatchInv, CollectInv, GiveUpInv
<1>5. CASE \E t \in Tasks : \/ \E paths \in Lists[t] : Execute(t, paths)
                           \/ Store(t) \/ StoreFails(t) \/ Record(t)
                           \/ Publish(t) \/ Raise(t)
  BY <1>5, ExecuteInv, StoreInv, StoreFailsInv, RecordInv, PublishInv, RaiseInv
<1>6. CASE UNCHANGED vars
  <2>1. TypeOK' /\ OwnAnswers' BY <1>6 DEF IInv, TypeOK, OwnAnswers, vars
  <2> QED BY <1>6, <2>1, StageStep DEF vars, storage
<1> QED BY <1>1, <1>2, <1>3, <1>4, <1>5, <1>6 DEF Next

THEOREM Invariance == Spec => []IInv
<1> QED BY InitInv, NextInv, PTL DEF Spec

\* Every variable has its type, in particular what is merged into the state.
THEOREM TypeCorrect == Spec => []TypeOK
<1>1. IInv => TypeOK BY DEF IInv
<1> QED BY <1>1, Invariance, PTL

\* An artifact or a file of the workspace always has an object of its task behind it,
\* at least as new as itself, however executions fail and are repeated.
THEOREM AlwaysStored == Spec => []ObjectBehind
<1>1. IInv => ObjectBehind BY DEF IInv
<1> QED BY <1>1, Invariance, PTL

\* The files of the state only ever change to those of the round under way.
THEOREM NeverGoesBack == Spec => NeverOlder
<1> DEFINE Newer == \A path \in Paths : code'[path] # code[path] =>
                      code'[path] # Nothing /\ code'[path].task[1] = round
                        /\ code[path].task[1] <= round
<1>1. IInv /\ [Next]_vars => [Newer]_vars
  <2> SUFFICES ASSUME IInv, Next, NEW path \in Paths, code'[path] # code[path]
               PROVE  code'[path] # Nothing /\ code'[path].task[1] = round
                        /\ code[path].task[1] <= round
    OBVIOUS
  <2>1. EndRound
    BY DEF Next, StartRound, AbortRound, Dispatch, Collect, GiveUp, Execute, Store, StoreFails,
           Record, Publish, Raise, stage
  <2>2. code'[path] = MergedCode(path) BY <2>1 DEF EndRound
  <2>3. code'[path] \in Contents /\ code'[path].task[1] = round BY <2>2, MergedIsOwn
  <2>4. code[path].task[1] <= round BY DEF IInv, OwnAnswers
  <2> QED BY <2>3, <2>4, ContentsAreRecords
<1>2. Spec => [][Newer]_vars BY <1>1, Invariance, PTL DEF Spec
<1> QED BY <1>2 DEF NeverOlder
=============================================================================
