\* worker-stop of a worker whose agent exited and was replaced.
CONSTANTS
  Task = {t1}
  Terminal = {w1, w2}
  Gate = {}
  NoTask = NoTask
  NoTerminal = NoTerminal
  MaxDispatches = 2
  Ops = {"worker","worker_exit","stop"}
SPECIFICATION Spec
SYMMETRY Sym
CHECK_DEADLOCK FALSE
PROPERTIES SupersededStopKeepsTask
