-------------------------- MODULE MCWorkerTerminals --------------------------
(***************************************************************************)
(* Instances of WorkerTerminals.                                           *)
(***************************************************************************)
EXTENDS WorkerTerminals

CONSTANTS First, Second,   \* the dispatches
          Other            \* one of the terminals

\* Dispatches differ by their names only: one of them is started first.
InTurn == state'[Second] # "none" => state'[First] # "none"

\* The other terminal is for a second release at the same time: once it is
\* there, workers succeed in terminals of their own, and only these, the
\* runtime and the connections go on.
Quiet(d) ==
  /\ state'[d] \in {"none", "active", "succeeded"}
  /\ ownership'[d] \in {"none", "owned", "released"} /\ reason'[d] # "user_requested"

Aside ==
  /\ at'[First] # Other
  /\ now'[Other] > now[Other] => at'[Second] = Other
  /\ now'[Other] > 0 => \A d \in Dispatch : Quiet(d) /\ now'[at'[d]] = born'[d]
  /\ Other \in alive \ alive' => call[Second].phase = "close"

SpecInTurn == Init /\ [][Next /\ InTurn /\ Aside]_vars /\ Fairness
=============================================================================
