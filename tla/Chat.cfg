\* Two questions and two callers, one failed write, one restart.
CONSTANTS
  Turn = {a, b}
  Call = {c1, c2}
  Op = {"submit", "stop"}
  Kinds = {"published"}
  MaxFaults = 1
  MaxCrashes = 1
  None = None
SPECIFICATION Spec
SYMMETRY SymAll
CONSTRAINT Alone
INVARIANTS
  TypeOK
  OneRun
  AcceptedKept
  Truthful
PROPERTIES
  ResultsStay
  StopHonoured
