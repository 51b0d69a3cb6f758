\* Two jobs, one slot, two Starts; a job whose Workflow died does not hold it for ever.
CONSTANTS
  Job = {j1, j2}
  PageCount = 1
  Png = {p1}
  Upload = {u1}
  Starter = {s1, s2}
  Exec = {}
  MaxActive = 1
  MaxRestarts = 0
  MaxChanges = 0
  None = None
SPECIFICATION FairSpec
CHECK_DEADLOCK FALSE
PROPERTIES
  PreparedStarts
