\* One revision, its convert step executed twice; the Workflow may end at any point and the
\* owner keeps reopening the source.
CONSTANTS
  Source = {s1}
  Rev = {r1}
  Page = {}
  Exec = {e1, e2}
  Kind = {"native", "document", "unsupported"}
  MaxRuns = 2
  None = None
SPECIFICATION FairSpec
CHECK_DEADLOCK FALSE
INVARIANTS
  TypeOK
  ConvertedOnce
  ReadableIsIntact
PROPERTIES
  PendingIsResolved
