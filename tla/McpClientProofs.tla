---------------------------- MODULE McpClientProofs ----------------------------
(***************************************************************************)
(* Proofs about McpClient, for any timeouts, request ids of the server and *)
(* bounds.  The properties follow from where the client is: which requests *)
(* have been answered there (Progress), whether a subprocess may still run *)
(* (Supervised), and what is left of the time of the session (Budget).     *)
(***************************************************************************)
EXTENDS McpClient, TLAPS

\* How far the session has come at each step.
Progress ==
    /\ step = "open" => transport = "stdio" /\ request = 0
    /\ step = "send" => request \in 0 .. 1
    /\ step = "read" => request \in 1 .. 2
    /\ step \in {"notify", "notifying"} => request = 1
    /\ step = "notifying" => transport = "http"
    /\ step \in {"stderr", "reap"} => transport = "stdio"
    /\ step \in {"open", "send", "read", "notify", "notifying", "stderr"} => outcome = "none"

\* What a session over stdio takes for the answer of request k.
TakenFor(k) == Answers({k}) \cup [kind : {"request"}, id : {k} \cap ServerIds]

\* Request k has been answered without an error.
Granted(k) == took[k].kind \in {"result", "request"}

\* The answers of a session over stdio.
Answered ==
    transport = "stdio" =>
      /\ \A k \in Requests : took[k] # Nothing => took[k] \in TakenFor(k)
      /\ step \in {"send", "notify", "read", "stderr"} =>
           \A k \in Requests : k < request => Granted(k)
      /\ step \in {"send", "notify"} => \A k \in Requests : k <= request => Granted(k)
      /\ outcome = "OK" => \A k \in Requests : Granted(k)

\* The subprocess at each step.
Supervised ==
    /\ transport = "http" => server = "none"
    /\ step = "open" => server = "none"
    /\ step \in {"send", "read", "notify", "notifying", "stderr", "close"} /\ transport = "stdio"
         => server \in {"alive", "mute", "gone"}
    /\ step = "reap" => server \in {"terminated", "gone"}
    /\ step = "done" => server \in {"none", "gone", "killed"}

\* The time that the requests so far may have taken.
Spent == IF request = 0 THEN 0 ELSE IF request = 1 THEN Timeout ELSE 2 * Timeout

Budget ==
    /\ transport = "http" => elapsed = 0
    /\ step = "open" => elapsed = 0
    /\ step \in {"send", "notify"} => elapsed <= Spent
    /\ step = "read" /\ transport = "stdio" => elapsed + left <= Spent
    /\ step = "stderr" => elapsed + left <= 2 * Timeout + StderrWait
    /\ step = "close" => elapsed <= 2 * Timeout + StderrWait
    /\ step = "reap" => elapsed + left <= 2 * Timeout + StderrWait + TermWait
    /\ elapsed <= 2 * Timeout + StderrWait + TermWait

IInv == TypeOK /\ Progress /\ Answered /\ Supervised /\ Budget

-----------------------------------------------------------------------------
(* The messages. *)

LEMMA Times == Timeout \in Nat /\ TermWait \in Nat /\ StderrWait \in Nat
BY TimeAssumption

LEMMA NothingIsNothing == Nothing.kind = "nothing" /\ Nothing.id = 0
BY DEF Nothing

\* An answer has its kind and its id.
LEMMA AnswersAreMessages ==
  ASSUME NEW k \in Requests, NEW message \in Answers({k})
  PROVE  message \in Messages /\ message.id = k /\ message.kind \in {"result", "error"}
BY DEF Answers, Messages, Requests

\* A line with the id of a request is an answer to it, or a request of the server.
LEMMA LineWithId ==
  ASSUME NEW message \in Messages, NEW k \in Requests, message.id = k
  PROVE  message \in TakenFor(k) /\ message.kind \in {"result", "error", "request"}
<1>1. CASE message \in Unasked
  <2>1. message \in [kind : {"request"}, id : ServerIds]
    BY <1>1 DEF Unasked, Noise, Scalar, Oversize, Notification, Requests
  <2> QED BY <2>1 DEF TakenFor
<1>2. CASE message \in Answers(Requests) BY <1>2 DEF Answers, TakenFor
<1> QED BY <1>1, <1>2 DEF Messages

\* What is in a body is a message.
LEMMA BodiesHaveMessages ==
  ASSUME NEW body \in Bodies, request \in Requests, NEW i \in DOMAIN body
  PROVE  body[i] \in Messages
<1>1. PICK n \in 0 .. MaxEvents :
         body \in [1 .. n -> (Unasked \ {Oversize}) \cup Answers({request})]
  BY DEF Bodies
<1>2. body[i] \in Unasked \cup Answers({request}) BY <1>1
<1> QED BY <1>2, AnswersAreMessages DEF Messages

-----------------------------------------------------------------------------
LEMMA InitInv == Init => IInv
<1> SUFFICES ASSUME Init PROVE IInv OBVIOUS
<1>1. TypeOK BY DEF Init, TypeOK
<1>2. Progress BY DEF Init, Progress
<1>3. Answered BY NothingIsNothing DEF Init, Answered, Requests
<1>4. Supervised BY DEF Init, Supervised
<1>5. Budget BY Times DEF Init, Budget, Spent
<1> QED BY <1>1, <1>2, <1>3, <1>4, <1>5 DEF IInv

\* An exception costs nothing but the session.
LEMMA LeaveInv ==
  ASSUME IInv, NEW failure \in {"ERROR", "AUTH_REQUIRED", "UNEXPECTED"}, Leave(failure),
         UNCHANGED <<server, asked>>, out' \in Seq(Messages),
         step \in {"send", "read", "notify", "notifying", "stderr"},
         transport = "stdio" => step # "notifying"
  PROVE  IInv'
<1>1. TypeOK' BY DEF IInv, TypeOK, Leave
<1>2. Progress' BY DEF IInv, Progress, Leave
<1>3. Answered' BY DEF IInv, Answered, Leave
<1>4. Supervised' BY DEF IInv, Supervised, Leave
<1>5. Budget' BY Times DEF IInv, TypeOK, Progress, Budget, Spent, Leave
<1> QED BY <1>1, <1>2, <1>3, <1>4, <1>5 DEF IInv

\* An answer that is taken.
LEMMA TakeInv ==
  ASSUME IInv, NEW message \in Messages, Take(message), step = "read",
         transport = "stdio" => message.id = request,
         UNCHANGED <<server, asked>>, out' \in Seq(Messages)
  PROVE  IInv'
<1>1. request \in 1 .. 2 BY DEF IInv, Progress
<1>2. /\ took' \in [Requests -> Messages \cup {Nothing}] /\ took'[request] = message
      /\ \A k \in Requests : k # request => took'[k] = took[k]
  BY <1>1 DEF IInv, TypeOK, Take, Requests
<1>3. TypeOK' BY <1>1, <1>2 DEF IInv, TypeOK, Take
<1>4. Progress' BY <1>1 DEF IInv, TypeOK, Progress, Take
<1>5. Answered'
  <2> SUFFICES ASSUME transport = "stdio" PROVE Answered'
    BY DEF Answered, Take
  <2>1. message \in TakenFor(request) BY <1>1, LineWithId DEF Requests
  <2>2. message.kind \in {"result", "error", "request"} BY <1>1, LineWithId DEF Requests
  <2>3. \A k \in Requests : took'[k] # Nothing => took'[k] \in TakenFor(k)
    BY <1>2, <2>1 DEF IInv, Answered
  <2>4. \A k \in Requests : k < request => Granted(k)'
    BY <1>1, <1>2 DEF IInv, Answered, Granted, Requests
  <2>5. message.kind # "error" => \A k \in Requests : k <= request => Granted(k)'
    BY <1>1, <1>2, <2>2, <2>4 DEF Granted, Requests
  <2>6. outcome = "none" /\ request' = request /\ transport' = transport
    BY DEF IInv, Progress, Take
  <2>7. step' \in {"send", "notify", "read", "stderr"} => message.kind # "error" /\ request' = 1
    BY <1>1 DEF Take
  <2>8. outcome' = "OK" => message.kind # "error" /\ request = 2
    BY <1>1, <2>6 DEF Take
  <2> QED BY <1>1, <2>3, <2>4, <2>5, <2>6, <2>7, <2>8 DEF Answered, TakenFor, Requests
<1>6. Supervised' BY DEF IInv, Supervised, Take
<1>7. Budget' BY <1>1, Times DEF IInv, TypeOK, Budget, Spent, Take
<1> QED BY <1>3, <1>4, <1>5, <1>6, <1>7 DEF IInv

-----------------------------------------------------------------------------
(* The other steps, one by one. *)

LEMMA SpawnInv == IInv /\ Spawn => IInv'
<1> SUFFICES ASSUME IInv, Spawn PROVE IInv' OBVIOUS
<1>1. TypeOK' BY Times DEF IInv, TypeOK, Progress, Spawn, Requests
<1>2. Progress' BY DEF IInv, TypeOK, Progress, Spawn
<1>3. Answered' BY NothingIsNothing DEF IInv, TypeOK, Progress, Answered, Spawn, Requests
<1>4. Supervised' BY DEF IInv, TypeOK, Progress, Supervised, Spawn
<1>5. Budget' BY Times DEF IInv, TypeOK, Progress, Budget, Spent, Spawn
<1> QED BY <1>1, <1>2, <1>3, <1>4, <1>5 DEF IInv

LEMMA SpawnFailsInv == IInv /\ SpawnFails => IInv'
<1> SUFFICES ASSUME IInv, SpawnFails PROVE IInv' OBVIOUS
<1>1. TypeOK' BY Times DEF IInv, TypeOK, Progress, SpawnFails, Requests, subprocess
<1>2. Progress' BY DEF IInv, TypeOK, Progress, SpawnFails, subprocess
<1>3. Answered' BY NothingIsNothing
  DEF IInv, TypeOK, Progress, Answered, Granted, SpawnFails, Requests, subprocess
<1>4. Supervised' BY DEF IInv, TypeOK, Progress, Supervised, SpawnFails, subprocess
<1>5. Budget' BY Times DEF IInv, TypeOK, Progress, Budget, Spent, SpawnFails, subprocess
<1> QED BY <1>1, <1>2, <1>3, <1>4, <1>5 DEF IInv

LEMMA SendInv == IInv /\ Send => IInv'
<1> SUFFICES ASSUME IInv, Send PROVE IInv' OBVIOUS
<1>1. TypeOK' BY Times DEF IInv, TypeOK, Progress, Send, Requests
<1>2. Progress' BY DEF IInv, TypeOK, Progress, Send
<1>3. Answered' BY NothingIsNothing DEF IInv, TypeOK, Progress, Answered, Granted, Send, Requests
<1>4. Supervised' BY DEF IInv, TypeOK, Progress, Supervised, Send
<1>5. Budget' BY Times DEF IInv, TypeOK, Progress, Budget, Spent, Send
<1> QED BY <1>1, <1>2, <1>3, <1>4, <1>5 DEF IInv

LEMMA NotifyInv == IInv /\ Notify => IInv'
<1> SUFFICES ASSUME IInv, Notify PROVE IInv' OBVIOUS
<1>1. TypeOK' BY Times DEF IInv, TypeOK, Progress, Notify, Requests, subprocess
<1>2. Progress' BY DEF IInv, TypeOK, Progress, Notify, subprocess
<1>3. Answered' BY NothingIsNothing
  DEF IInv, TypeOK, Progress, Answered, Granted, Notify, Requests, subprocess
<1>4. Supervised' BY DEF IInv, TypeOK, Progress, Supervised, Notify, subprocess
<1>5. Budget' BY Times DEF IInv, TypeOK, Progress, Budget, Spent, Notify, subprocess
<1> QED BY <1>1, <1>2, <1>3, <1>4, <1>5 DEF IInv

LEMMA SkipLineInv == IInv /\ SkipLine => IInv'
<1> SUFFICES ASSUME IInv, SkipLine PROVE IInv' OBVIOUS
<1>1. TypeOK' BY Times DEF IInv, TypeOK, Progress, SkipLine, Reading, Requests
<1>2. Progress' BY DEF IInv, TypeOK, Progress, SkipLine, Reading
<1>3. Answered' BY NothingIsNothing
  DEF IInv, TypeOK, Progress, Answered, Granted, SkipLine, Reading, Requests
<1>4. Supervised' BY DEF IInv, TypeOK, Progress, Supervised, SkipLine, Reading
<1>5. Budget' BY Times DEF IInv, TypeOK, Progress, Budget, Spent, SkipLine, Reading
<1> QED BY <1>1, <1>2, <1>3, <1>4, <1>5 DEF IInv

LEMMA EndOfOutputInv == IInv /\ EndOfOutput => IInv'
<1> SUFFICES ASSUME IInv, EndOfOutput PROVE IInv' OBVIOUS
<1>1. TypeOK' BY Times DEF IInv, TypeOK, Progress, EndOfOutput, Requests, subprocess
<1>2. Progress' BY DEF IInv, TypeOK, Progress, EndOfOutput, subprocess
<1>3. Answered' BY NothingIsNothing
  DEF IInv, TypeOK, Progress, Answered, Granted, EndOfOutput, Requests, subprocess
<1>4. Supervised' BY DEF IInv, TypeOK, Progress, Supervised, EndOfOutput, subprocess
<1>5. Budget' BY Times DEF IInv, TypeOK, Progress, Budget, Spent, EndOfOutput, subprocess
<1> QED BY <1>1, <1>2, <1>3, <1>4, <1>5 DEF IInv

LEMMA CloseStdioInv == IInv /\ CloseStdio => IInv'
<1> SUFFICES ASSUME IInv, CloseStdio PROVE IInv' OBVIOUS
<1>1. TypeOK' BY Times DEF IInv, TypeOK, Progress, CloseStdio, Requests
<1>2. Progress' BY DEF IInv, TypeOK, Progress, CloseStdio
<1>3. Answered' BY NothingIsNothing
  DEF IInv, TypeOK, Progress, Answered, Granted, CloseStdio, Requests
<1>4. Supervised' BY DEF IInv, TypeOK, Progress, Supervised, CloseStdio
<1>5. Budget' BY Times DEF IInv, TypeOK, Progress, Budget, Spent, CloseStdio
<1> QED BY <1>1, <1>2, <1>3, <1>4, <1>5 DEF IInv

LEMMA ReapedInv == IInv /\ Reaped => IInv'
<1> SUFFICES ASSUME IInv, Reaped PROVE IInv' OBVIOUS
<1>1. TypeOK' BY Times DEF IInv, TypeOK, Progress, Reaped, Requests, subprocess
<1>2. Progress' BY DEF IInv, TypeOK, Progress, Reaped, subprocess
<1>3. Answered' BY NothingIsNothing
  DEF IInv, TypeOK, Progress, Answered, Granted, Reaped, Requests, subprocess
<1>4. Supervised' BY DEF IInv, TypeOK, Progress, Supervised, Reaped, subprocess
<1>5. Budget' BY Times DEF IInv, TypeOK, Progress, Budget, Spent, Reaped, subprocess
<1> QED BY <1>1, <1>2, <1>3, <1>4, <1>5 DEF IInv

LEMMA KillInv == IInv /\ Kill => IInv'
<1> SUFFICES ASSUME IInv, Kill PROVE IInv' OBVIOUS
<1>1. TypeOK' BY Times DEF IInv, TypeOK, Progress, Kill, Requests
<1>2. Progress' BY DEF IInv, TypeOK, Progress, Kill
<1>3. Answered' BY NothingIsNothing DEF IInv, TypeOK, Progress, Answered, Granted, Kill, Requests
<1>4. Supervised' BY DEF IInv, TypeOK, Progress, Supervised, Kill
<1>5. Budget' BY Times DEF IInv, TypeOK, Progress, Budget, Spent, Kill
<1> QED BY <1>1, <1>2, <1>3, <1>4, <1>5 DEF IInv

LEMMA ServerClosesInv == IInv /\ ServerCloses => IInv'
<1> SUFFICES ASSUME IInv, ServerCloses PROVE IInv' OBVIOUS
<1>1. TypeOK' BY Times DEF IInv, TypeOK, Progress, ServerCloses, Requests
<1>2. Progress' BY DEF IInv, TypeOK, Progress, ServerCloses
<1>3. Answered' BY NothingIsNothing
  DEF IInv, TypeOK, Progress, Answered, Granted, ServerCloses, Requests
<1>4. Supervised' BY DEF IInv, TypeOK, Progress, Supervised, ServerCloses
<1>5. Budget' BY Times DEF IInv, TypeOK, Progress, Budget, Spent, ServerCloses
<1> QED BY <1>1, <1>2, <1>3, <1>4, <1>5 DEF IInv

LEMMA ServerEndsInv == IInv /\ ServerEnds => IInv'
<1> SUFFICES ASSUME IInv, ServerEnds PROVE IInv' OBVIOUS
<1>1. TypeOK' BY Times DEF IInv, TypeOK, Progress, ServerEnds, Requests
<1>2. Progress' BY DEF IInv, TypeOK, Progress, ServerEnds
<1>3. Answered' BY NothingIsNothing
  DEF IInv, TypeOK, Progress, Answered, Granted, ServerEnds, Requests
<1>4. Supervised' BY DEF IInv, TypeOK, Progress, Supervised, ServerEnds
<1>5. Budget' BY Times DEF IInv, TypeOK, Progress, Budget, Spent, ServerEnds
<1> QED BY <1>1, <1>2, <1>3, <1>4, <1>5 DEF IInv

LEMMA PostInv == IInv /\ Post => IInv'
<1> SUFFICES ASSUME IInv, Post PROVE IInv' OBVIOUS
<1>1. TypeOK' BY Times DEF IInv, TypeOK, Progress, Post, Requests, subprocess
<1>2. Progress' BY DEF IInv, TypeOK, Progress, Post, subprocess
<1>3. Answered' BY NothingIsNothing
  DEF IInv, TypeOK, Progress, Answered, Granted, Post, Requests, subprocess
<1>4. Supervised' BY DEF IInv, TypeOK, Progress, Supervised, Post, subprocess
<1>5. Budget' BY Times DEF IInv, TypeOK, Progress, Budget, Spent, Post, subprocess
<1> QED BY <1>1, <1>2, <1>3, <1>4, <1>5 DEF IInv

LEMMA TrickleInv == IInv /\ Trickle => IInv'
<1> SUFFICES ASSUME IInv, Trickle PROVE IInv' OBVIOUS
<1>1. TypeOK' BY Times DEF IInv, TypeOK, Progress, Trickle, Posting, Requests, subprocess
<1>2. Progress' BY DEF IInv, TypeOK, Progress, Trickle, Posting, subprocess
<1>3. Answered' BY NothingIsNothing
  DEF IInv, TypeOK, Progress, Answered, Granted, Trickle, Posting, Requests, subprocess
<1>4. Supervised' BY DEF IInv, TypeOK, Progress, Supervised, Trickle, Posting, subprocess
<1>5. Budget' BY Times DEF IInv, TypeOK, Progress, Budget, Spent, Trickle, Posting, subprocess
<1> QED BY <1>1, <1>2, <1>3, <1>4, <1>5 DEF IInv

LEMMA NotifiedInv == IInv /\ Notified => IInv'
<1> SUFFICES ASSUME IInv, Notified PROVE IInv' OBVIOUS
<1>1. TypeOK' BY Times DEF IInv, TypeOK, Progress, Notified, Requests, subprocess
<1>2. Progress' BY DEF IInv, TypeOK, Progress, Notified, subprocess
<1>3. Answered' BY NothingIsNothing
  DEF IInv, TypeOK, Progress, Answered, Granted, Notified, Requests, subprocess
<1>4. Supervised' BY DEF IInv, TypeOK, Progress, Supervised, Notified, subprocess
<1>5. Budget' BY Times DEF IInv, TypeOK, Progress, Budget, Spent, Notified, subprocess
<1> QED BY <1>1, <1>2, <1>3, <1>4, <1>5 DEF IInv

LEMMA CloseHttpInv == IInv /\ CloseHttp => IInv'
<1> SUFFICES ASSUME IInv, CloseHttp PROVE IInv' OBVIOUS
<1>1. TypeOK' BY Times DEF IInv, TypeOK, Progress, CloseHttp, Requests, subprocess
<1>2. Progress' BY DEF IInv, TypeOK, Progress, CloseHttp, subprocess
<1>3. Answered' BY NothingIsNothing
  DEF IInv, TypeOK, Progress, Answered, Granted, CloseHttp, Requests, subprocess
<1>4. Supervised' BY DEF IInv, TypeOK, Progress, Supervised, CloseHttp, subprocess
<1>5. Budget' BY Times DEF IInv, TypeOK, Progress, Budget, Spent, CloseHttp, subprocess
<1> QED BY <1>1, <1>2, <1>3, <1>4, <1>5 DEF IInv

LEMMA TickInv == IInv /\ Tick => IInv'
<1> SUFFICES ASSUME IInv, Tick PROVE IInv' OBVIOUS
<1>1. TypeOK' BY Times DEF IInv, TypeOK, Progress, Tick, Requests, subprocess
<1>2. Progress' BY DEF IInv, TypeOK, Progress, Tick, subprocess
<1>3. Answered' BY NothingIsNothing
  DEF IInv, TypeOK, Progress, Answered, Granted, Tick, Requests, subprocess
<1>4. Supervised' BY DEF IInv, TypeOK, Progress, Supervised, Tick, subprocess
<1>5. Budget'
  <2>1. UNCHANGED <<transport, step, request>> /\ step \in {"read", "stderr", "reap", "notifying"}
    BY DEF Tick
  <2>2. Spent' = Spent /\ Spent \in Nat /\ Spent <= 2 * Timeout BY <2>1, Times DEF Spent
  <2>3. CASE transport = "http"
    <3>1. step \in {"read", "notifying"} /\ elapsed' = elapsed /\ elapsed = 0
      BY <2>1, <2>3 DEF IInv, Progress, Budget, Tick
    <3> QED BY <2>1, <2>3, <3>1, Times DEF Budget
  <2>4. CASE transport = "stdio"
    <3>1. /\ elapsed' = elapsed + 1 /\ left' = left - 1
          /\ elapsed \in Nat /\ left \in Nat /\ left > 0
      BY <2>4 DEF IInv, TypeOK, Tick
    <3>2. step \in {"read", "stderr", "reap"}
      BY <2>1, <2>4 DEF IInv, Progress
    <3>3. step = "read" => elapsed + left <= Spent BY <2>4 DEF IInv, Budget
    <3>4. step = "stderr" => elapsed + left <= 2 * Timeout + StderrWait BY DEF IInv, Budget
    <3>5. step = "reap" => elapsed + left <= 2 * Timeout + StderrWait + TermWait
      BY DEF IInv, Budget
    <3>6. elapsed + 1 <= 2 * Timeout + StderrWait + TermWait
      BY <2>2, <3>1, <3>2, <3>3, <3>4, <3>5, Times
    <3>7. elapsed' + left' = elapsed + left BY <3>1
    <3> QED BY <2>1, <2>2, <2>4, <3>1, <3>2, <3>3, <3>4, <3>5, <3>6, <3>7 DEF Budget
  <2> QED BY <2>3, <2>4 DEF IInv, TypeOK
<1> QED BY <1>1, <1>2, <1>3, <1>4, <1>5 DEF IInv

\* A line that is read is a message.
LEMMA LineIsMessage ==
  ASSUME IInv, Reading
  PROVE  Head(out) \in Messages /\ Tail(out) \in Seq(Messages)
BY DEF IInv, TypeOK, Reading

LEMMA TakeLineInv == IInv /\ TakeLine => IInv'
<1> SUFFICES ASSUME IInv, TakeLine PROVE IInv' OBVIOUS
<1>1. Head(out) \in Messages /\ Tail(out) \in Seq(Messages) BY LineIsMessage DEF TakeLine
<1>2. Head(out).id = request /\ step = "read" BY DEF TakeLine, Reading, Answering
<1> QED BY <1>1, <1>2, TakeInv DEF TakeLine

LEMMA ReadRaisesInv == IInv /\ ReadRaises => IInv'
<1> SUFFICES ASSUME IInv, ReadRaises PROVE IInv' OBVIOUS
<1>1. Tail(out) \in Seq(Messages) BY LineIsMessage DEF ReadRaises
<1> QED BY <1>1, LeaveInv DEF ReadRaises, Reading

LEMMA FailuresInv ==
  IInv /\ (SendFails \/ ReadTimesOut \/ StderrRead \/ PostFails \/ Unauthorized) => IInv'
<1> SUFFICES ASSUME IInv, SendFails \/ ReadTimesOut \/ StderrRead \/ PostFails \/ Unauthorized
             PROVE  IInv'
  OBVIOUS
<1>1. UNCHANGED <<server, asked>> /\ out' \in Seq(Messages)
  BY DEF IInv, TypeOK, subprocess, SendFails, ReadTimesOut, StderrRead, PostFails, Unauthorized
<1>2. /\ step \in {"send", "read", "notify", "notifying", "stderr"}
      /\ transport = "stdio" => step # "notifying"
  BY DEF SendFails, ReadTimesOut, StderrRead, PostFails, Unauthorized, Posting
<1>3. \E failure \in {"ERROR", "AUTH_REQUIRED", "UNEXPECTED"} : Leave(failure)
  BY DEF SendFails, ReadTimesOut, StderrRead, PostFails, Unauthorized
<1> QED BY <1>1, <1>2, <1>3, LeaveInv

LEMMA RespondInv == ASSUME NEW body \in Bodies PROVE IInv /\ Respond(body) => IInv'
<1> SUFFICES ASSUME IInv, Respond(body) PROVE IInv' OBVIOUS
<1>1. step = "read" /\ transport = "http" /\ UNCHANGED <<server, asked, out>>
  BY DEF Respond, subprocess
<1>2. request \in Requests /\ out' \in Seq(Messages)
  BY <1>1 DEF IInv, TypeOK, Progress, Requests
<1>3. Leave("ERROR") \/ Leave("UNEXPECTED") \/ \E i \in DOMAIN body : Take(body[i])
  BY DEF Respond
<1>4. CASE Leave("ERROR") \/ Leave("UNEXPECTED") BY <1>1, <1>2, <1>4, LeaveInv
<1>5. ASSUME NEW i \in DOMAIN body, Take(body[i]) PROVE IInv'
  <2>1. body[i] \in Messages BY <1>2, BodiesHaveMessages
  <2> QED BY <1>1, <1>2, <1>5, <2>1, TakeInv
<1> QED BY <1>3, <1>4, <1>5

LEMMA PrintsInv == ASSUME NEW message \in Messages PROVE IInv /\ Prints(message) => IInv'
<1> SUFFICES ASSUME IInv, Prints(message) PROVE IInv' OBVIOUS
<1>1. TypeOK' BY DEF IInv, TypeOK, Prints
<1>2. Progress' BY DEF IInv, Progress, Prints
<1>3. Answered' BY DEF IInv, Answered, Granted, Prints
<1>4. Supervised' BY DEF IInv, Supervised, Prints
<1>5. Budget' BY DEF IInv, Budget, Spent, Prints
<1> QED BY <1>1, <1>2, <1>3, <1>4, <1>5 DEF IInv

-----------------------------------------------------------------------------
LEMMA NextInv == IInv /\ [Next]_vars => IInv'
<1> SUFFICES ASSUME IInv, [Next]_vars PROVE IInv' OBVIOUS
<1>1. CASE Stdio
  BY <1>1, SpawnInv, SpawnFailsInv, SendInv, NotifyInv, FailuresInv, SkipLineInv, TakeLineInv,
     ReadRaisesInv, EndOfOutputInv, CloseStdioInv, ReapedInv, KillInv
  DEF Stdio
<1>2. CASE Http
  BY <1>2, PostInv, TrickleInv, FailuresInv, NotifiedInv, RespondInv, CloseHttpInv DEF Http
<1>3. CASE Server BY <1>3, ServerClosesInv, ServerEndsInv, PrintsInv DEF Server
<1>4. CASE Tick BY <1>4, TickInv
<1>5. CASE UNCHANGED vars
  BY <1>5 DEF vars, IInv, TypeOK, Progress, Answered, Granted, Supervised, Budget, Spent
<1> QED BY <1>1, <1>2, <1>3, <1>4, <1>5 DEF Next

THEOREM Invariance == Spec => []IInv
<1> QED BY InitInv, NextInv, PTL DEF Spec

\* The session is well formed, and sends two requests at most.
THEOREM TypeCorrect == Spec => []TypeOK
<1>1. IInv => TypeOK BY DEF IInv
<1> QED BY <1>1, Invariance, PTL

\* A session over stdio takes for the answer of a request a message that bears its
\* id, and is OK only when it has taken one without an error for both.
THEOREM TakenAlways == Spec => []TakenForItsId
<1>1. IInv => TakenForItsId BY DEF IInv, Answered, Granted, TakenFor, TakenForItsId
<1> QED BY <1>1, Invariance, PTL

\* No session ends with a subprocess that still runs.
THEOREM NoProcessLeft == Spec => []ProcessGone
<1>1. IInv => ProcessGone BY DEF IInv, Supervised, ProcessGone
<1> QED BY <1>1, Invariance, PTL

\* A session over stdio takes two timeouts and the waits of its end at most.
THEOREM BoundedTime == Spec => []EndsInTime
<1>1. IInv => EndsInTime BY DEF IInv, Budget, EndsInTime
<1> QED BY <1>1, Invariance, PTL
=============================================================================
