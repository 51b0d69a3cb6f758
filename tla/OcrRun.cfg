\* One job of two pages: uploads race, then two executions of its steps overlap.
\* Or two jobs prepared from one base, executed one after the other and reviewed.
CONSTANTS
  Job = {j1, j2}
  PageCount = 2
  Png = {p1, p2}
  Upload = {u1, u2}
  Starter = {s1}
  Exec = {x1, x2}
  MaxActive = 2
  MaxRestarts = 1
  MaxChanges = 1
  None = None
SPECIFICATION Spec
SYMMETRY SymAll
CONSTRAINT OneOrTwo
CHECK_DEADLOCK FALSE
INVARIANTS
  TypeOK
  UploadsKept
  UsageIsComplete
  ReviewIsSound
PROPERTIES
  StoppedIsFinal
