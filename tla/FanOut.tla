------------------------------- MODULE FanOut -------------------------------
(***************************************************************************)
(* What the fetch and analyse commands promise for a list of requests:     *)
(* either the command gives up before any of them is started, or each one  *)
(* is settled once and the command's verdict is the conjunction of theirs. *)
(***************************************************************************)
CONSTANT AllTasks

VARIABLES
    tasks,     \* the requests of this command
    outcome,   \* request -> "pending", "OK" or "FAILED"
    verdict    \* of the command: "none", "rejected", "success", "failure"

vars == <<tasks, outcome, verdict>>

Init ==
    /\ tasks \in SUBSET AllTasks
    /\ outcome = [t \in tasks |-> "pending"]
    /\ verdict = "none"

Pending == { t \in tasks : outcome[t] = "pending" }

\* Exit status 1: the arguments are refused, nothing was started.
Reject ==
    /\ verdict = "none" /\ Pending = tasks
    /\ verdict' = "rejected"
    /\ UNCHANGED <<tasks, outcome>>

Settle(t) ==
    /\ verdict = "none" /\ t \in Pending
    /\ \E s \in {"OK", "FAILED"} : outcome' = [outcome EXCEPT ![t] = s]
    /\ UNCHANGED <<tasks, verdict>>

\* Exit status 0, or 2 when a request failed.
Conclude ==
    /\ verdict = "none" /\ Pending = {}
    /\ verdict' = IF \A t \in tasks : outcome[t] = "OK" THEN "success" ELSE "failure"
    /\ UNCHANGED <<tasks, outcome>>

Next == Reject \/ Conclude \/ \E t \in AllTasks : Settle(t)

Spec == Init /\ [][Next]_vars
=============================================================================
