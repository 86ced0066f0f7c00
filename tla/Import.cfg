CONSTANTS
  Paths = {a, b, c}
  Contents = {x, y}
  ProjectNames = {P}
  TagNames = {T}
  Angles = {0, 1}
  NoContent = NoContent
  MaxIds = 2
  Importers = {i1, i2}
  NRETRIES = 2
  PROCESS_RATE = 2
  MaxFaults = 2
  MaxDiskChanges = 1
  MaxChanges = 1
SPECIFICATION Spec
SYMMETRY LibrarySymmetry
CHECK_DEADLOCK FALSE
INVARIANT TypeOK
INVARIANT VisitedIsAccountedFor
