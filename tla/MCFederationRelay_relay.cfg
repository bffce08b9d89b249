\* One dispatch whose calls are lost, late and torn by crashes of either server.
CONSTANTS
  Quota = 2
  PageSize = 2
  MaxPages = 2
  MaxItems = 2
  MaxIds = 3
  MaxMail = 2
  MaxCrashes = 1
  Kinds = {"heartbeat", "failed"}
  Ops = {"starting", "stop", "retry"}
SPECIFICATION FairSpec
CHECK_DEADLOCK FALSE
INVARIANTS TypeOK SettledTogether ToldIsDecided
PROPERTIES ToHomeSpec ToWorkerSpec ItemsArrive
