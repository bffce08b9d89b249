\* One Run whose consumer moves between two panes, with crashes and dropped responses.
CONSTANTS
  Run = {r1}
  Handle = {h1, h2}
  PaneOf <- TwoPanes
  Type = {"heartbeat", "worker_done"}
  NoRun = NoRun
  NoHandle = NoHandle
  BatchLimit = 1
  MaxMessages = 2
  MaxDeliveries = 4
  MaxGeneration = 2
  Ops = {"assign", "late", "reply", "crash"}
  h1 = h1
  h2 = h2
SPECIFICATION FairSpec
CHECK_DEADLOCK FALSE
INVARIANTS TypeOK AcknowledgedOnce WaiterHasNoMail
PROPERTIES MailIsRead MailboxSpec
