\* Three supervised attempts whose agents exit.
CONSTANTS
  Task = {t1}
  Terminal = {w1, w2, w3}
  Gate = {}
  NoTask = NoTask
  NoTerminal = NoTerminal
  MaxDispatches = 3
  Ops = {"worker","worker_exit"}
SPECIFICATION Spec
SYMMETRY Sym
CHECK_DEADLOCK FALSE
INVARIANTS CircuitBreaks
