-------------------------- MODULE MCFederationRelay -------------------------
(***************************************************************************)
(* Instances of FederationRelay.                                           *)
(***************************************************************************)
EXTENDS FederationRelay, TLC
=============================================================================
