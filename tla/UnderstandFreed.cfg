SPECIFICATION FairSpec
CONSTANTS
  Rev = {r1}
  Attempt = {}
  Pass = {p1, p2}
  Req = {}
  Answers = {"full"}
  MayCrash = FALSE
  None = None
PROPERTIES SlotFreed
CHECK_DEADLOCK FALSE
