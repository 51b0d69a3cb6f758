CONSTANTS
  Provider = {p1, wa}
  Native = wa
  Route = {o1, o2}
  Gateway = {g1}
  Refresh = {f1, f2}
  Call = {c1, c2}
  None = None
SPECIFICATION Spec
SYMMETRY SymAll
CONSTRAINT Pairs
CHECK_DEADLOCK FALSE
INVARIANTS
  RouteIsDiscovered
PROPERTIES
  DefaultsKept
