\* The readers that settle results: lost replies, one failed write, one restart.
CONSTANTS
  Turn = {a, b}
  Call = {c1}
  Op = {"submit", "wait", "page", "answer"}
  Kinds = {"unknown"}
  MaxFaults = 1
  MaxCrashes = 1
  None = None
SPECIFICATION FairSpec
PROPERTIES
  PendingSettles
