\* Every dependency graph on three tasks; agents of workers do not exit.
CONSTANTS
  Task = {t1, t2, t3}
  Terminal = {w1}
  Gate = {}
  NoTask = NoTask
  NoTerminal = NoTerminal
  MaxDispatches = 2
  Ops = {"manual","worker","federated","retry","stop","abandon","crash","ask","reuse","exit"}
SPECIFICATION Spec
SYMMETRY Sym
CHECK_DEADLOCK FALSE
INVARIANTS OneActivePerTask DispatchedIsHeld UnsettledHolds EndedIsRetryable QuestionsClosed
PROPERTIES BoardSpec PromotionAtomic
