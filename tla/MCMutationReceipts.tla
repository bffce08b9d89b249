------------------------- MODULE MCMutationReceipts -------------------------
(***************************************************************************)
(* Instances of MutationReceipts: four requests, one of each kind.         *)
(***************************************************************************)
EXTENDS MutationReceipts, TLC

CONSTANTS plain, start, release, ask

MCKind == plain :> "plain" @@ start :> "start" @@ release :> "release" @@ ask :> "ask"
=============================================================================
