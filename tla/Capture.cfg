\* Three uploads race over two sources, two revision identities and two contents under two names.
CONSTANTS
  Source = {s1, s2}
  Rev = {r1, r2, r3}
  Digest = {h1, h2}
  Name = {n1, n2}
  Req = {q1, q2, q3}
  None = None
SPECIFICATION Spec
SYMMETRY Symmetry
CHECK_DEADLOCK FALSE
INVARIANTS
  TypeOK
  OriginalKept
  OneSourcePerFile
  ReceiptHolds
PROPERTIES
  LedgerSpec
