\* Every call and event, in any order, but questions asked locally and the reuse of a terminal.
CONSTANTS
  Task = {t1}
  Terminal = {w1}
  Gate = {g1}
  NoTask = NoTask
  NoTerminal = NoTerminal
  MaxDispatches = 2
  Ops = {"manual","inject","worker","federated","retry","exit","worker_exit","stop","abandon","gate","update","crash","torn","relayed"}
SPECIFICATION Spec
SYMMETRY Sym
CHECK_DEADLOCK FALSE
INVARIANTS TypeOK InactiveRevoked SettledReleased TerminalExclusive
PROPERTIES NoResurrection
