\* Three questions: a reader settles the second while a submit queues the third.
CONSTANTS
  Turn = {a, b, c}
  Call = {c1, c2}
  Op = {"submit"}
  Kinds = {"unknown"}
  MaxFaults = 1
  MaxCrashes = 0
  None = None
SPECIFICATION Spec
SYMMETRY SymAll
INVARIANTS
  AcceptedKept
