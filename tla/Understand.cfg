SPECIFICATION Spec
CONSTANTS
  Rev = {r1}
  Attempt = {t1, t2}
  Pass = {p1}
  Req = {q1, q2}
  Answers = {"full", "thin", "bad"}
  MayCrash = TRUE
  None = None
SYMMETRY SymRetries
CONSTRAINT InTurn
INVARIANTS TypeOK UsageTrue OneOutcome ClaimsOwned
PROPERTIES PaidSpec ArchivedExactly
CHECK_DEADLOCK FALSE
