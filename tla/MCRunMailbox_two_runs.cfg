\* Two Runs, consumed in turn from one pane whose handle was minted again.
CONSTANTS
  Run = {r1, r2}
  Handle = {h1, h2}
  PaneOf <- OnePane
  Type = {"status"}
  NoRun = NoRun
  NoHandle = NoHandle
  BatchLimit = 2
  MaxMessages = 2
  MaxDeliveries = 2
  MaxGeneration = 3
  Ops = {"peek"}
  h1 = h1
  h2 = h2
SPECIFICATION Spec
CHECK_DEADLOCK FALSE
SYMMETRY Sym
INVARIANTS OneRunPerPane LeaseIsCurrent
