----------------------------- MODULE TaskBoard -----------------------------
(***************************************************************************)
(* What the ledger promises a coordinator of its tasks, whatever happens   *)
(* to the workers: a task is worked on by one attempt at a time, starts    *)
(* when everything it depends on is completed, is completed by the attempt *)
(* at work on it and by nobody else, and stays completed; and with the     *)
(* last of its dependencies it becomes ready.                              *)
(***************************************************************************)
EXTENDS Naturals

CONSTANT Task

VARIABLES
  status,    \* the status of each task, "absent" before it is created
  deps,      \* the tasks it depends on
  attempts,  \* number of attempts made so far, at any task
  working    \* the attempts at work on each task: one or none

board == <<status, deps, attempts, working>>

Init ==
  /\ status = [t \in Task |-> "absent"]
  /\ deps = [t \in Task |-> {}]
  /\ attempts = 0
  /\ working = [t \in Task |-> {}]

Create(t, D) ==
  /\ status[t] = "absent"
  /\ \A d \in D : status[d] # "absent"
  /\ status' = [status EXCEPT ![t] =
       IF \A d \in D : status[d] = "completed" THEN "ready" ELSE "pending"]
  /\ deps' = [deps EXCEPT ![t] = D]
  /\ UNCHANGED <<attempts, working>>

\* A first attempt, or another after one that came to nothing.
Start(t) ==
  /\ status[t] \in {"ready", "failed", "blocked"}
  /\ working[t] = {}
  /\ status' = [status EXCEPT ![t] = "dispatched"]
  /\ attempts' = attempts + 1
  /\ working' = [working EXCEPT ![t] = {attempts + 1}]
  /\ UNCHANGED deps

\* The tasks that wait for t alone.
Waiting(t) ==
  { u \in Task : /\ status[u] = "pending" /\ t \in deps[u]
                 /\ \A d \in deps[u] : d = t \/ status[d] = "completed" }

\* The attempt at work succeeds, and with it all tasks that wait for t alone
\* become ready.
Succeed(t) ==
  /\ status[t] = "dispatched"
  /\ working[t] # {}
  /\ status' = [u \in Task |-> IF u = t THEN "completed"
                               ELSE IF u \in Waiting(t) THEN "ready" ELSE status[u]]
  /\ working' = [working EXCEPT ![t] = {}]
  /\ UNCHANGED <<deps, attempts>>

\* The attempt at work ends without success.
Fail(t) ==
  /\ working[t] # {}
  /\ \E s \in {"failed", "blocked", "ready"} : status' = [status EXCEPT ![t] = s]
  /\ working' = [working EXCEPT ![t] = {}]
  /\ UNCHANGED <<deps, attempts>>

\* Nobody knows any more whether the attempt is at work; or it is known again.
Doubt(t) ==
  /\ working[t] # {}
  /\ \E s \in {"dispatched", "blocked"} : status' = [status EXCEPT ![t] = s]
  /\ UNCHANGED <<deps, attempts, working>>

\* A failed attempt is given up.
SetAside(t) ==
  /\ working[t] = {}
  /\ status[t] = "failed"
  /\ status' = [status EXCEPT ![t] = "blocked"]
  /\ UNCHANGED <<deps, attempts, working>>

Next ==
  \E t \in Task :
    \/ \E D \in SUBSET (Task \ {t}) : Create(t, D)
    \/ Start(t) \/ Succeed(t) \/ Fail(t) \/ Doubt(t) \/ SetAside(t)

Spec == Init /\ [][Next]_board
=============================================================================
