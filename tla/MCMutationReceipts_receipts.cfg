\* Two calls at a time of four requests, one of each kind; a table of two receipts.
CONSTANTS
  plain = plain
  start = start
  release = release
  ask = ask
  Nil = Nil
  Call = {c1, c2}
  Request = {plain, start, release, ask}
  Input = {i1, i2}
  Kind <- MCKind
  Capacity = 2
  MaxEffects = 2
  MaxCrashes = 1
  Ops = {"prune", "unknown"}
SPECIFICATION FairSpec
CHECK_DEADLOCK FALSE
INVARIANTS TypeOK
PROPERTIES OnceSpec CallsEnd OutcomeIsKept
