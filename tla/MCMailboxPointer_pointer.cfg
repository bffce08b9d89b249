\* One Run that may move between two terminals, which exit and come back.
CONSTANTS
  Run = {r1}
  Pane = {p1, p2}
  Type = {"status"}
  NoRun = NoRun
  NoPane = NoPane
  Bound <- AtFirst
  r1 = r1
  p1 = p1
  BatchLimit = 1
  MaxMessages = 2
  MaxFlights = 2
  MaxFaults = 1
  MaxMoves = 1
  Ops = {"cursor"}
SPECIFICATION FairSpec
CHECK_DEADLOCK FALSE
INVARIANTS TypeOK PointerInv
PROPERTIES EnterHitsItsText ToldOnce MailIsPointed
