CONSTANTS
  Windows = {w1, w2, w3}
  Pages = {p1, p2, p3}
  PreferencesWindows = {q1, q2}
  Dialogs = {d1}
  None = None
SPECIFICATION Spec
SYMMETRY Symmetry
INVARIANT TypeOK
INVARIANT RegistriesAreExact
INVARIANT CallbacksReachTheLiving
CHECK_DEADLOCK FALSE
