CONSTANTS
  a = a
  b = b
  c = c
  x = x
  y = y
  Checksums = {x, y}
  checksumId <- Copies
  Paths = {a, b, c}
  CACHESIZE = 3
  MaxGets = 5
  Pages = {p1, p2}
  PhotoLists <- Lists
  Typed <- Numbers
  NoPath = NoPath
  NoDrawing = NoDrawing
  MaxTurns = 2
  MaxFaults = 1
SPECIFICATION Spec
SYMMETRY PageSymmetry
CHECK_DEADLOCK FALSE
INVARIANT TypeOK
INVARIANT MapsAgree
INVARIANT DrawsLivePhoto
INVARIANT ScaledForItsPhoto
INVARIANT ShowsStoredRotation
PROPERTY HoldsRecentlyUsed
