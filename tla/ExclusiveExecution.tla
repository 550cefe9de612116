-------------------------- MODULE ExclusiveExecution --------------------------
(***************************************************************************)
(* What the dispatch of a task promises, without its queue, its copies and *)
(* attempts and its key in Redis: one worker executes the task at a time;  *)
(* an answer is the verdict that the execution under way has stored        *)
(* itself; and the call returns once, a verdict only if it was answered.   *)
(***************************************************************************)
CONSTANTS Workers, Verdicts

VARIABLES
    executing, \* the worker that executes the task, as a set of at most one
    kept,      \* the verdict its execution has stored so far, likewise
    stored,    \* the verdicts of all the executions
    answer,    \* the verdict that has been answered last, "none" before
    outcome    \* what the call returned, "none" before

vars == <<executing, kept, stored, answer, outcome>>

Failures == {"no_result", "timeout", "raised"}

Init ==
    /\ executing = {} /\ kept = {} /\ stored = {}
    /\ answer = "none" /\ outcome = "none"

Start(w) ==
    /\ executing = {}
    /\ executing' = {w}
    /\ UNCHANGED <<kept, stored, answer, outcome>>

Store(v) ==
    /\ executing # {} /\ kept = {}
    /\ kept' = {v}
    /\ stored' = stored \cup {v}
    /\ UNCHANGED <<executing, answer, outcome>>

Answer ==
    /\ \E v \in kept : answer' = v
    /\ UNCHANGED <<executing, kept, stored, outcome>>

\* The execution has failed, whatever it has stored and answered.
Abandon ==
    /\ kept' = {}
    /\ UNCHANGED <<executing, stored, answer, outcome>>

Stop ==
    /\ executing' = {} /\ kept' = {}
    /\ UNCHANGED <<stored, answer, outcome>>

Return ==
    /\ outcome = "none"
    /\ outcome' \in Failures \cup ({answer} \ {"none"})
    /\ UNCHANGED <<executing, kept, stored, answer>>

Next ==
    \/ \E w \in Workers : Start(w)
    \/ \E v \in Verdicts : Store(v)
    \/ Answer \/ Abandon \/ Stop \/ Return

Spec == Init /\ [][Next]_vars

\* The promise: the task is executed by one worker at a time, and what is kept,
\* answered and returned has been stored.
StoredBefore ==
    /\ \A v, w \in executing : v = w
    /\ kept \cup ({answer} \ {"none"}) \subseteq stored
    /\ outcome \in stored \cup Failures \cup {"none"}
=============================================================================
