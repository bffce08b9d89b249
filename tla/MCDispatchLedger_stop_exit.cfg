\* The exit of the agent that worker-stop kills is noticed before the stop settles.
CONSTANTS
  Task = {t1}
  Terminal = {w1}
  Gate = {}
  NoTask = NoTask
  NoTerminal = NoTerminal
  MaxDispatches = 1
  Ops = {"worker","worker_exit","stop"}
SPECIFICATION Spec
SYMMETRY Sym
CHECK_DEADLOCK FALSE
INVARIANTS EndedIsRetryable
