------------------------------- MODULE McpClient -------------------------------
(***************************************************************************)
(* discover_tools of shared/mcp/client.py: a session with an MCP server    *)
(* over stdio (a subprocess that prints one JSON message per line) or HTTP *)
(* (one POST per message, answered by JSON or by a stream of events), with *)
(* the handshake and tools/list.  The requests are numbered: 1 is          *)
(* initialize, 2 is tools/list.  The server is free: it prints, answers    *)
(* late or twice, sends requests of its own (whose ids may be those of the *)
(* client), closes its stdout, dies, or ignores SIGTERM.                   *)
(*                                                                         *)
(* A message is a kind and an id, which is 0 when it has none.             *)
(***************************************************************************)
EXTENDS Naturals, Sequences

CONSTANTS
    ServerIds,  \* the ids of the requests the server sends to the client
    Timeout,    \* timeout_seconds, in ticks
    TermWait,   \* ticks between SIGTERM and SIGKILL
    StderrWait, \* ticks to read the end of stderr
    MaxLines,   \* bounds: lines printed and not read yet,
    MaxEvents   \* and events of one HTTP response

ASSUME ServerAssumption == ServerIds \subseteq Nat \ {0}
ASSUME TimeAssumption   == {Timeout, TermWait, StderrWait} \subseteq Nat \ {0}
ASSUME BoundsAssumption == {MaxLines, MaxEvents} \subseteq Nat

VARIABLES
    transport, \* "stdio" or "http"
    step,      \* where the client is
    request,   \* _next_id
    took,      \* the message taken as the answer of each request
    outcome,   \* how discover_tools ends
    left,      \* ticks before the wait of the client times out
    elapsed,   \* ticks since the call
    server,    \* the subprocess
    asked,     \* requests that the subprocess has received
    out        \* lines it has printed that have not been read

vars == <<transport, step, request, took, outcome, left, elapsed, server, asked, out>>
subprocess == <<server, asked, out>>

Requests == 1 .. 2

\* Text that is not JSON (or empty), JSON that is no object, a line over the limit,
\* and the messages of JSON-RPC.
Noise        == [kind |-> "noise", id |-> 0]
Scalar       == [kind |-> "scalar", id |-> 0]
Oversize     == [kind |-> "oversize", id |-> 0]
Notification == [kind |-> "notification", id |-> 0]
Unasked      == {Noise, Scalar, Oversize, Notification} \cup [kind : {"request"}, id : ServerIds]
Answers(ids) == [kind : {"result", "error"}, id : ids]
Messages     == Unasked \cup Answers(Requests)
Nothing      == [kind |-> "nothing", id |-> 0]

Init ==
    /\ transport \in {"stdio", "http"}
    /\ step = IF transport = "stdio" THEN "open" ELSE "send"
    /\ request = 0
    /\ took = [k \in Requests |-> Nothing]
    /\ outcome = "none"
    /\ left = 0
    /\ elapsed = 0
    /\ server = "none"
    /\ asked = {}
    /\ out = <<>>

-----------------------------------------------------------------------------
(* The client, whatever the transport. *)

\* An exception leaves the block of the session.
Leave(failure) ==
    /\ outcome' = failure
    /\ step' = "close"
    /\ UNCHANGED <<transport, request, took, left, elapsed>>

\* _raise_for_rpc_error: a message without an error and without a result is an empty
\* result.  The handshake goes on with its notification, tools/list is the last word.
Take(message) ==
    /\ took' = [took EXCEPT ![request] = message]
    /\ outcome' = IF message.kind = "error" THEN "ERROR"
                  ELSE IF request = 2 THEN "OK" ELSE outcome
    /\ step' = IF message.kind = "error" \/ request = 2 THEN "close" ELSE "notify"
    /\ UNCHANGED <<transport, request, left, elapsed>>

-----------------------------------------------------------------------------
(* _StdioSession *)

Spawn ==
    /\ step = "open"
    /\ server' = "alive"
    /\ step' = "send"
    /\ UNCHANGED <<transport, request, took, outcome, left, elapsed, asked, out>>

\* The command does not exist or cannot be started: there is no session to leave.
SpawnFails ==
    /\ step = "open"
    /\ outcome' = "ERROR"
    /\ step' = "done"
    /\ UNCHANGED <<transport, request, took, left, elapsed, subprocess>>

Send ==
    /\ transport = "stdio" /\ step = "send"
    /\ request' = request + 1
    /\ asked' = IF server = "alive" THEN asked \cup {request + 1} ELSE asked
    /\ left' = Timeout
    /\ step' = "read"
    /\ UNCHANGED <<transport, took, outcome, elapsed, server, out>>

\* Mutant of Notify: the notification takes an id of its own.
NotifyWithId ==
    /\ transport = "stdio" /\ step = "notify"
    /\ request' = request + 1
    /\ step' = "send"
    /\ UNCHANGED <<transport, took, outcome, left, elapsed, subprocess>>

Notify ==
    /\ transport = "stdio" /\ step = "notify"
    /\ step' = "send"
    /\ UNCHANGED <<transport, request, took, outcome, left, elapsed, subprocess>>

\* A write to a process that has gone, or that has closed its pipes, may raise.
SendFails ==
    /\ transport = "stdio" /\ step \in {"send", "notify"} /\ server \in {"mute", "gone"}
    /\ Leave("UNEXPECTED")
    /\ UNCHANGED subprocess

\* The deadline is looked at before every line.
Reading == transport = "stdio" /\ step = "read" /\ left > 0 /\ out # <<>>

\* Mutant of Answering: any answer is taken.
AnsweringAny(message) == message.kind \in {"result", "error"}

\* The id is all that is compared.
Answering(message) == message.id = request

Unreadable(message) == message \in {Scalar, Oversize}

\* Mutant of SkipLine: every line is waited for as long as the first one.
SkipLineAnew ==
    /\ Reading
    /\ ~Unreadable(Head(out)) /\ ~Answering(Head(out))
    /\ out' = Tail(out)
    /\ left' = Timeout
    /\ UNCHANGED <<transport, step, request, took, outcome, elapsed, server, asked>>

SkipLine ==
    /\ Reading
    /\ ~Unreadable(Head(out)) /\ ~Answering(Head(out))
    /\ out' = Tail(out)
    /\ UNCHANGED <<transport, step, request, took, outcome, left, elapsed, server, asked>>

TakeLine ==
    /\ Reading
    /\ ~Unreadable(Head(out)) /\ Answering(Head(out))
    /\ Take(Head(out))
    /\ out' = Tail(out)
    /\ UNCHANGED <<server, asked>>

\* payload.get of a payload that is no object, readline over MAX_LINE_BYTES.
ReadRaises ==
    /\ Reading
    /\ Unreadable(Head(out))
    /\ Leave("UNEXPECTED")
    /\ out' = Tail(out)
    /\ UNCHANGED <<server, asked>>

ReadTimesOut ==
    /\ transport = "stdio" /\ step = "read" /\ left = 0
    /\ Leave("ERROR")
    /\ UNCHANGED subprocess

\* The end of stdout, of a process that may still run; the error quotes the end of stderr, if it comes in time.
EndOfOutput ==
    /\ transport = "stdio" /\ step = "read" /\ left > 0
    /\ out = <<>> /\ server \in {"mute", "gone"}
    /\ step' = "stderr"
    /\ left' = StderrWait
    /\ UNCHANGED <<transport, request, took, outcome, elapsed, subprocess>>

StderrRead ==
    /\ step = "stderr"
    /\ Leave("ERROR")
    /\ UNCHANGED subprocess

\* __aexit__: stdin is closed, and a process that still runs is terminated.
CloseStdio ==
    /\ transport = "stdio" /\ step = "close"
    /\ server' = IF server = "gone" THEN "gone" ELSE "terminated"
    /\ step' = IF server = "gone" THEN "done" ELSE "reap"
    /\ left' = TermWait
    /\ UNCHANGED <<transport, request, took, outcome, elapsed, asked, out>>

Reaped ==
    /\ step = "reap" /\ server = "gone"
    /\ step' = "done"
    /\ UNCHANGED <<transport, request, took, outcome, left, elapsed, subprocess>>

\* Mutant of Kill: who ignores SIGTERM is left alone.
KillNot ==
    /\ step = "reap" /\ left = 0
    /\ step' = "done"
    /\ UNCHANGED <<transport, request, took, outcome, left, elapsed, subprocess>>

\* Mutant of Kill: process.wait has no timeout.
KillWaits ==
    /\ step = "reap" /\ left = 0 /\ server = "gone"
    /\ step' = "done"
    /\ UNCHANGED <<transport, request, took, outcome, left, elapsed, subprocess>>

Kill ==
    /\ step = "reap" /\ left = 0
    /\ server' = IF server = "gone" THEN "gone" ELSE "killed"
    /\ step' = "done"
    /\ UNCHANGED <<transport, request, took, outcome, left, elapsed, asked, out>>

-----------------------------------------------------------------------------
(* The subprocess.  What it prints once the session is being closed is not read. *)

Prints(message) ==
    /\ server = "alive" /\ step \notin {"close", "done"}
    /\ Len(out) < MaxLines
    /\ message \in Unasked \cup Answers(asked)
    /\ out' = Append(out, message)
    /\ UNCHANGED <<transport, step, request, took, outcome, left, elapsed, server, asked>>

\* It closes its stdout and goes on running.
ServerCloses ==
    /\ server = "alive"
    /\ server' = "mute"
    /\ UNCHANGED <<transport, step, request, took, outcome, left, elapsed, asked, out>>

ServerEnds ==
    /\ server \in {"alive", "mute", "terminated"}
    /\ server' = "gone"
    /\ UNCHANGED <<transport, step, request, took, outcome, left, elapsed, asked, out>>

-----------------------------------------------------------------------------
(* _HttpSession *)

Post ==
    /\ transport = "http" /\ step \in {"send", "notify"}
    /\ request' = IF step = "send" THEN request + 1 ELSE request
    /\ step' = IF step = "send" THEN "read" ELSE "notifying"
    /\ left' = Timeout
    /\ UNCHANGED <<transport, took, outcome, elapsed, subprocess>>

Posting == transport = "http" /\ step \in {"read", "notifying"}

\* Bytes arrive: httpx measures its timeout from the last ones.
Trickle ==
    /\ Posting /\ left > 0
    /\ left' = Timeout
    /\ UNCHANGED <<transport, step, request, took, outcome, elapsed, subprocess>>

\* The network, a timeout, a status of 400 or more.
PostFails ==
    /\ Posting
    /\ Leave("ERROR")
    /\ UNCHANGED subprocess

\* 401 or 403: MCPAuthorizationRequired.
Unauthorized ==
    /\ Posting /\ left > 0
    /\ Leave("AUTH_REQUIRED")
    /\ UNCHANGED subprocess

Notified ==
    /\ transport = "http" /\ step = "notifying" /\ left > 0
    /\ step' = "send"
    /\ UNCHANGED <<transport, request, took, outcome, left, elapsed, subprocess>>

\* The bodies of a response, as events; JSON is a body of one event.
Bodies ==
    UNION {[1 .. n -> (Unasked \ {Oversize}) \cup Answers({request})] : n \in 0 .. MaxEvents}

\* _parse_sse: the first payload that is JSON.
FirstPayload(body, i) == body[i] # Noise /\ \A j \in 1 .. i - 1 : body[j] = Noise

\* No payload at all is an MCPConnectionError, one that is no object a TypeError.
Respond(body) ==
    /\ transport = "http" /\ step = "read" /\ left > 0
    /\ \/ (\A i \in DOMAIN body : body[i] = Noise) /\ Leave("ERROR")
       \/ \E i \in DOMAIN body :
            /\ FirstPayload(body, i)
            /\ \/ body[i] = Scalar /\ Leave("UNEXPECTED")
               \/ body[i] # Scalar /\ Take(body[i])
    /\ UNCHANGED subprocess

CloseHttp ==
    /\ transport = "http" /\ step = "close"
    /\ step' = "done"
    /\ UNCHANGED <<transport, request, took, outcome, left, elapsed, subprocess>>

-----------------------------------------------------------------------------
\* Time passes while the client waits, and nowhere else.
Tick ==
    /\ step \in {"read", "stderr", "reap", "notifying"}
    /\ left > 0
    /\ left' = left - 1
    /\ elapsed' = IF transport = "stdio" THEN elapsed + 1 ELSE elapsed
    /\ UNCHANGED <<transport, step, request, took, outcome, subprocess>>

Stdio ==
    \/ Spawn \/ SpawnFails \/ Send \/ Notify \/ SendFails
    \/ SkipLine \/ TakeLine \/ ReadRaises \/ ReadTimesOut
    \/ EndOfOutput \/ StderrRead \/ CloseStdio \/ Reaped \/ Kill

Http ==
    \/ Post \/ Trickle \/ PostFails \/ Unauthorized \/ Notified
    \/ \E body \in Bodies : Respond(body)
    \/ CloseHttp

Server == ServerCloses \/ ServerEnds \/ \E message \in Messages : Prints(message)

Next == Stdio \/ Http \/ Server \/ Tick

\* The event loop runs the client and time passes; the server owes nothing.
Spec == Init /\ [][Next]_vars
FairSpec == Spec /\ WF_vars(Stdio) /\ WF_vars(Tick)

-----------------------------------------------------------------------------
TypeOK ==
    /\ transport \in {"stdio", "http"}
    /\ step \in {"open", "send", "read", "notify", "notifying", "stderr", "close", "reap", "done"}
    /\ request \in 0 .. 2
    /\ took \in [Requests -> Messages \cup {Nothing}]
    /\ outcome \in {"none", "OK", "ERROR", "AUTH_REQUIRED", "UNEXPECTED"}
    /\ left \in Nat
    /\ elapsed \in Nat
    /\ server \in {"none", "alive", "mute", "terminated", "killed", "gone"}
    /\ asked \subseteq Requests
    /\ out \in Seq(Messages)

\* Over stdio, a line that comes late, twice or for the earlier request is never taken
\* for the answer of the request that waits, and a session is OK only with a message
\* without an error for each of its requests.  A request of the server that bears the
\* id of the client's is taken as its answer, an empty result: "Lê linhas até
\* encontrar a resposta do id pedido" (client.py:213) compares nothing but the id.
TakenForItsId ==
    transport = "stdio" =>
      /\ \A k \in Requests : took[k] # Nothing =>
           took[k] \in Answers({k}) \cup [kind : {"request"}, id : {k} \cap ServerIds]
      /\ outcome = "OK" => \A k \in Requests : took[k].kind \in {"result", "request"}

\* Whatever way discover_tools ends, by any of its exceptions as well, it leaves no
\* subprocess behind that still runs.
ProcessGone == step = "done" => server \in {"none", "gone", "killed"}

\* Whatever the server prints, a session over stdio takes two timeouts and the waits
\* for stderr and SIGTERM at most: lines that are skipped do not extend the deadline.
EndsInTime == elapsed <= 2 * Timeout + StderrWait + TermWait

\* A session over stdio ends, with any server.
SessionEnds == transport = "stdio" ~> step = "done"
=============================================================================
