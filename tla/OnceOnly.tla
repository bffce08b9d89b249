------------------------------ MODULE OnceOnly ------------------------------
(***************************************************************************)
(* What the mutation receipts promise of a request: it takes effect once,  *)
(* and every answer it gets, however often it is repeated, is the result   *)
(* of that effect and goes to a caller that made the same request.  Only   *)
(* when the server forgets a request whose result it has kept may that     *)
(* request take effect again.                                              *)
(***************************************************************************)
EXTENDS Naturals

CONSTANTS Request, Input, Nothing

VARIABLES
  effects,  \* number of effects taken
  result,   \* the input and the number of each request's effect, or Nothing
  kept,     \* the requests whose result is kept
  answers   \* the answers given: the request, its input and number of the effect

once == <<effects, result, kept, answers>>

Init ==
  /\ effects = 0
  /\ result = [r \in Request |-> Nothing]
  /\ kept = {}
  /\ answers = {}

\* The results that remain when those of S are forgotten.
Without(S) == [r \in Request |-> IF r \in S THEN Nothing ELSE result[r]]

TakeEffect(r, i, S) ==
  /\ result[r] = Nothing
  /\ S \subseteq kept
  /\ effects' = effects + 1
  /\ result' = [Without(S) EXCEPT ![r] = <<i, effects + 1>>]
  /\ kept' = kept \ S
  /\ UNCHANGED answers

\* The result is kept, and may be answered.
Keep(r) ==
  /\ result[r] # Nothing
  /\ kept' = kept \cup {r}
  /\ answers' \in {answers, answers \cup {<<r, result[r]>>}}
  /\ UNCHANGED <<effects, result>>

Forget(S) ==
  /\ S \subseteq kept
  /\ kept' = kept \ S
  /\ result' = Without(S)
  /\ UNCHANGED <<effects, answers>>

Next ==
  \/ \E r \in Request : Keep(r)
  \/ \E r \in Request, i \in Input, S \in SUBSET Request : TakeEffect(r, i, S)
  \/ \E S \in SUBSET Request : Forget(S)

Spec == Init /\ [][Next]_once
=============================================================================
