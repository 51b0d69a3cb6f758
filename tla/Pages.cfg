\* Three revisions of two pages, written and decided by two requests at a time; a source
\* publishes two texts.
CONSTANTS
  Page = {p1, p2}
  PageRev = {r1, r2, r3}
  Mutation = {m1, m2, m3}
  Source = {s1}
  Request = {q1, q2}
  MaxText = 2
  None = None
SPECIFICATION Spec
SYMMETRY Symmetry
CONSTRAINT FewTexts
CHECK_DEADLOCK FALSE
INVARIANTS
  TypeOK
  BodiesKept
  AnsweredOnce
  FreshnessExact
PROPERTIES
  LedgerSpec
