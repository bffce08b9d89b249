\* Two workers in one terminal, or a second release in another, with a fault anywhere.
CONSTANTS
  Dispatch = {d1, d2}
  First = d1
  Second = d2
  Other = t2
  Terminal = {t1, t2}
  NoDispatch = NoDispatch
  NoTerminal = NoTerminal
  MaxProcess = 2
  MaxFaults = 1
SPECIFICATION SpecInTurn
CHECK_DEADLOCK FALSE
INVARIANTS TypeOK ClosingSparesWorkers OneOwner
PROPERTIES CloseIsEarned DeadSettlement ReleaseEnds
