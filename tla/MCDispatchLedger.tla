-------------------------- MODULE MCDispatchLedger --------------------------
EXTENDS DispatchLedger, TLC
Sym == Permutations(Task) \cup Permutations(Terminal) \cup Permutations(Gate)
=============================================================================
