-------------------------- MODULE MCMailboxPointer --------------------------
(***************************************************************************)
(* An instance of MailboxPointer.                                          *)
(***************************************************************************)
EXTENDS MailboxPointer, TLC

CONSTANTS r1, p1

\* The Run starts in the first pane.
AtFirst == (r1 :> p1)
=============================================================================
