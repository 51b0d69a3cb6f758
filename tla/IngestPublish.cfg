\* Two revisions of one source publish through overlapping executions; a page is made of them.
CONSTANTS
  Source = {s1}
  Rev = {r1, r2}
  Page = {p1}
  Exec = {e1, e2}
  Kind = {"native"}
  MaxRuns = 1
  None = None
SPECIFICATION Spec
SYMMETRY Symmetry
CONSTRAINT Alone
CHECK_DEADLOCK FALSE
INVARIANTS
  HeadIsNewestReadable
  RowIsTheResult
  CurrentPagesUseHeads
PROPERTIES
  LedgerSpec
