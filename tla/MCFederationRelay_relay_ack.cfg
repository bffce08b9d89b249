\* The answer to the acknowledgment of a report is lost.
CONSTANTS
  Quota = 1
  PageSize = 2
  MaxPages = 1
  MaxItems = 1
  MaxIds = 1
  MaxMail = 0
  MaxCrashes = 0
  Kinds = {"status", "succeeded"}
  Ops = {}
SPECIFICATION FairSpec
CHECK_DEADLOCK FALSE
PROPERTIES AckIsLearned
