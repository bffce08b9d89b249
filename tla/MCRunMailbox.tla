---------------------------- MODULE MCRunMailbox ----------------------------
(***************************************************************************)
(* Instances of RunMailbox.  Panes are numbers.                            *)
(***************************************************************************)
EXTENDS RunMailbox, TLC

CONSTANTS h1, h2

\* Two terminals, each in a pane of its own.
TwoPanes == (h1 :> 1) @@ (h2 :> 2)

\* One pane whose terminal handle was minted again.
OnePane == (h1 :> 1) @@ (h2 :> 1)

\* Runs are interchangeable.
Sym == Permutations(Run)
=============================================================================
